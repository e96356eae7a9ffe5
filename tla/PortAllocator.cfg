SPECIFICATION FairSpec
CONSTANTS
    a = a
    b = b
    r1 = r1
    r2 = r2
    Tenants <- MCTenants
    Requests <- MCRequests
    NoLease = NoLease
    NoCursor = NoCursor
    PORT_MIN = 1
    PORT_MAX = 2
    LEASE_TTL_MS = 1
    HEARTBEAT_GRACE_MS = 0
    MAX_RETRIES_PER_REQUEST = 2
    MaxClock = 3
    MaxLeases = 3
    MaxCrashes = 1
CHECK_DEADLOCK FALSE
INVARIANTS TypeOK PromiseKept StatusAgrees MetricDrift ExhaustedIsReal
PROPERTIES LeaseEndsByOwner ExpiryIsFinal LeasingSpec ExpiredIsReclaimed
