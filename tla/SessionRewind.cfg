SPECIFICATION Spec
CONSTANTS
    Asks = {a1}
    RetryLimit = 1
    MaxTurns = 2
INVARIANTS
    RewindHidesAbandoned
CHECK_DEADLOCK FALSE
