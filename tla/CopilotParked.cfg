SPECIFICATION Spec
CONSTANTS
    Asks = {a1}
    MaxTurns = 2
    MaxProcs = 2
    MaxBubbles = 2
INVARIANTS
    AwaitedIsServed
CHECK_DEADLOCK FALSE
