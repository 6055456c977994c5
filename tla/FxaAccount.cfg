SPECIFICATION Spec
CONSTANTS
    Scopes = {"oldsync", "profile"}
    OldSync = "oldsync"
    MaxFlows = 2
    MaxTokens = 2
    MaxCommands = 2
    MaxAges = 1
    MaxFaults = 1
INVARIANTS  TabsArrive
PROPERTIES EventuallyUsable
CHECK_DEADLOCK FALSE
