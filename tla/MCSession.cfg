SPECIFICATION FairSpec
CONSTANTS
    Asks = {a1}
    RetryLimit = 1
    MaxTurns = 2
INVARIANTS
    RunsInOrder
    NoReplayAfterOutput
    AllowOnlyByBrowser
    BlockedIsListed
    CleanCloseIsFinal
PROPERTIES
    EveryTurnEnds
CHECK_DEADLOCK FALSE
