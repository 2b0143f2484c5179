SPECIFICATION Spec
CONSTANTS
    Sessions = {s1}
    OutboxMax = 1
    MaxEvents = 3
    MaxConns = 2
INVARIANTS
    NoSilentLoss
CHECK_DEADLOCK FALSE
