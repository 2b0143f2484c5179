SPECIFICATION Spec
CONSTANTS
    MaxTurns = 3
    MaxClients = 2
    MaxMsgs = 3
    MaxBlocks = 2
INVARIANTS
    ResultToCome
    TextShownOnce
    NoStrayCli
CHECK_DEADLOCK FALSE
