SPECIFICATION Spec
CONSTANTS
    Asks = {a1}
    RetryLimit = 1
    MaxTurns = 2
PROPERTIES
    StopReturnsToIdle
CHECK_DEADLOCK FALSE
