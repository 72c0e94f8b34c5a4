\* Two requests at a time share one connection, four in the instance's life;
\* the deque holds three samples, the fourth drops the oldest.
CONSTANTS
    Requests = {r1, r2}
    t1 = t1
    Tenants = {t1}
    Clients <- AllClients
    NoKey = NoKey
    BadKey = BadKey
    PoolLimit = 1
    Durations = {5, 17}
    Grain = 10
    MAX_SAMPLES = 3
    MaxRequests = 4
SPECIFICATION Spec
INVARIANTS TypeOK ConnectionsAccounted MetricsAccount PercentilesCover ReadinessHasCause
PROPERTIES OnlyOwnCallsHang
