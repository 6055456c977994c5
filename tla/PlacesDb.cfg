SPECIFICATION MCSpec
CONSTANTS
    CommitAfter = 2
    BusyTimeout = 5
    UnitTime = 1
    ApplyTime = 3
    AutoTime = 1
    MaxItems = 4
    MaxCheckpoints = 2
    Conns = {c1, c2}
    SyncConns = {c2}
    Kinds = {"logins", "places"}
    MaxFaults = 2
    Duration = 2
    Nodes = {1, 2}
    Inits = {1, 2}
    MaxApis = 3
CHECK_DEADLOCK FALSE
INVARIANTS VersionTellsContent WriterAtMostOnce SentToFirstNode
PROPERTIES WaiterIsNext EventuallyServed EventuallySynced
