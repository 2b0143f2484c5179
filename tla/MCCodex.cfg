SPECIFICATION FairSpec
CONSTANTS
    Jobs = {j1, j2}
    OwnGroup = {j1}
    Codex = codex
    MaxTurns = 2
INVARIANTS
    NoOrphanCodex
PROPERTIES
    OneOutcome
    StopEndsTurn
CHECK_DEADLOCK FALSE
