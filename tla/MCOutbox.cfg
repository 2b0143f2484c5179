SPECIFICATION FairSpec
CONSTANTS
    Sessions = {s1, s2}
    OutboxMax = 2
    MaxEvents = 4
    MaxConns = 2
INVARIANTS
    NothingForgotten
    OnlyFlushReorders
    OverflowReported
PROPERTIES
    EventuallyStored
    DeliverySpec
CHECK_DEADLOCK FALSE
