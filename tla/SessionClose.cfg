SPECIFICATION Spec
CONSTANTS
    Asks = {a1}
    RetryLimit = 1
    MaxTurns = 2
INVARIANTS
    ClosedStaysClosed
CHECK_DEADLOCK FALSE
