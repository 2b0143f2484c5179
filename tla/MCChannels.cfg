SPECIFICATION FairDaemonSpec
CONSTANTS
    Forms = {"row", "none"}
    MaxSeen = 1
    MaxMsgs = 2
    MaxSecond = 2
    MaxGiven = 3
    MaxUpdates = 2
INVARIANTS
    HandledOnce
    NothingPassedOver
    ConfirmedIsHandled
PROPERTIES
    ShutdownEnds
CHECK_DEADLOCK FALSE
