SPECIFICATION Spec
CONSTANTS
    Provisional = {p, q}
    MaxTranscripts = 3
    MaxSessions = 3
INVARIANTS
    IdReachesTranscript
CHECK_DEADLOCK FALSE
