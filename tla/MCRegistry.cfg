SPECIFICATION Spec
CONSTANTS
    Provisional = {p, q}
    MaxTranscripts = 2
    MaxSessions = 3
SYMMETRY MadeUp
INVARIANTS
    LiveIsReachable
    RenamedOnceResolves
CHECK_DEADLOCK FALSE
