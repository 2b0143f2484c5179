SPECIFICATION Spec
CONSTANTS
    Sessions = {s1, s2}
    MaxEntries = 1
    MaxRing = 1
    Limits = {1}
    Named = {TRUE, FALSE}
    MaxCmds = 2
    MaxDeliveries = 3
    MaxTime = 2
    MaxCrashes = 1
INVARIANTS
    UnseenStaysUnread
    ReadStaysRead
    AwaitedIsWorkedOn
PROPERTIES
    RunsOnce
CHECK_DEADLOCK FALSE
