SPECIFICATION Spec
CONSTANTS
    MaxTurns = 2
    MaxClients = 1
    MaxMsgs = 2
    MaxBlocks = 1
INVARIANT
    ReplayHidden
CHECK_DEADLOCK FALSE
