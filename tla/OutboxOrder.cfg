SPECIFICATION Spec
CONSTANTS
    Sessions = {s1}
    OutboxMax = 2
    MaxEvents = 3
    MaxConns = 2
INVARIANTS
    OrderPerSession
CHECK_DEADLOCK FALSE
