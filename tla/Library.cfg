SPECIFICATION MCSpec
CONSTANTS
    NoItem = 0
    MAX_CAPACITY = 5
    MIN_CAPACITY = 2
    VersionLimit = 6
    Threads = {"t1", "t2", "t3"}
    MaxInserts = 4
    MaxCalls = 7
    Platforms = {"android", "ios"}
    Loggers = {"l1", "l2"}
    Levels = {4}
    Filters = {0, 3, 9}
    Capacity = 2
    Statuses = {"ok", "out of range"}
    MaxRequests = 1
    MaxHeaders = 2
    Reqwest = TRUE
CHECK_DEADLOCK FALSE
INVARIANTS StaleDetected OnlyFullMapBreaks CallbackStaysValid LastHeaderWins 
PROPERTIES DestroyReturns
