SPECIFICATION GateSpec
CONSTANTS
    a = a
    b = b
    c = c
    NoId = NoId
    Senders = {a, b, c}
    Ids = {1, 2, 3, 4}
    SenderOf <- MCSenderOf
    RateLimit = 2
    RateWindow = 1
    DedupWindow = 2
    DedupMax = 2
    MaxSenders = 2
    MaxClock = 3
    MaxDecisions = 5
PROPERTIES
    AdmissionSpec
CHECK_DEADLOCK FALSE
