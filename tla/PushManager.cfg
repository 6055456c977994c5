SPECIFICATION Spec
CONSTANTS
    Channels = {1, 2}
    Tokens = {1, 2}
    MaxFaults = 2
INVARIANT HeldKeyDecrypts
PROPERTY RegeneratedIsRouted
 
