SPECIFICATION Spec
CONSTANTS
    Provisional = {p, q}
    MaxTranscripts = 3
    MaxSessions = 2
INVARIANTS
    OneOwner
CHECK_DEADLOCK FALSE
