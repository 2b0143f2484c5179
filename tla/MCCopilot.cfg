SPECIFICATION FairSpec
CONSTANTS
    Asks = {a1}
    MaxTurns = 2
    MaxProcs = 2
    MaxBubbles = 2
INVARIANTS
    NoStrayAgent
    VerdictHonoured
PROPERTIES
    CloseCompletes
CHECK_DEADLOCK FALSE
