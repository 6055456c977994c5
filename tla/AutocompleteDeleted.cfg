SPECIFICATION MCSpec
CONSTANTS
  Urls <- MCUrls
  Queries <- MCQueries
  Types = {"Link"}
  Boosts = {"Normal"}
  Tags = {"tag"}
  Limits = {0, 2}
  MaxVisits = 1
  MaxOps = 4
  MaxRecalc = 2
  Alphabet = {"k", "K", "Kelvin", "s", "sharp", "at", "tick"}
  MaxToken = 2
  MaxSource = 3
  SampledTypes = {"Link", "Embed", "RedirectTemporary"}
  Targets = {"None", "RedirectPermanent"}
  Ages = {0, 100}
  MaxSampled = 3
CHECK_DEADLOCK FALSE
PROPERTIES
  DeletedIsForgotten
