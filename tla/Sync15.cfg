SPECIFICATION MCSpec
CONSTANTS
    Device = {d1, d2}
    Kinds = {"full", "fast"}
    Versions = {4, 5, 6}
    MaxClock = 5
    MaxLosses = 1
    N = 5
    MaxSize = 4
    Envelope = 1
    MaxWrites = 1
    MaxRequestBytes = 8
    MaxPayloadBytes = 4
    MaxPostRecords = 2
    MaxPostBytes = 5
    MaxTotalRecords = 3
    MaxTotalBytes = 7
    Collections = {"a"}
    Numbers = {"1", "2"}
    Others = {"x"}
    MaxKeys = 3
SYMMETRY DeviceSymmetry
CHECK_DEADLOCK FALSE
INVARIANTS UploadedUnlessWiped FastNeverWipes
PROPERTIES FreshIsCurrent  
