SPECIFICATION Spec
CONSTANTS
    MaxTurns = 2
    MaxClients = 2
    MaxMsgs = 2
    MaxBlocks = 1
INVARIANT
    ContextKept
CHECK_DEADLOCK FALSE
