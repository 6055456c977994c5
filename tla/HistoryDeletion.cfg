CONSTANTS
    Url = {u1}
    GuidsPerUrl = 2
    MaxDate = 2
    EARLIEST_TIMESTAMP = 1
    MAX_VISITS = 2
    MAX_OUTGOING_PLACES = 2
    MAX_INCOMING_PLACES = 2
    MaxOps = 3
    MaxWrites = 1
    MaxSyncs = 2
SYMMETRY UrlSymmetry
SPECIFICATION Spec
CHECK_DEADLOCK FALSE
PROPERTY TombstonesAreUploaded
