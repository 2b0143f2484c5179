SPECIFICATION PortalFairSpec
CONSTANTS
    r1 = r1
    r2 = r2
    r3 = r3
    i1 = i1
    g1 = g1
    g2 = g2
    None = None
    Requests <- MCRequests
    Instances <- MCInstances
    Gateways <- MCGateways
    TTL = 1
    MaxTime = 2
INVARIANTS
    SingleFlight
    CacheOfConfig
PROPERTIES
    RequestsEnd
CHECK_DEADLOCK FALSE
