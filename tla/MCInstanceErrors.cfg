\* One request at a time.
CONSTANTS
    Requests = {r1}
    t1 = t1
    Tenants = {t1}
    Clients <- AllClients
    NoKey = NoKey
    BadKey = BadKey
    PoolLimit = 1
    Durations = {1}
    Grain = 10
    MAX_SAMPLES = 2
    MaxRequests = 1
SPECIFICATION Spec
INVARIANTS ErrorsCounted
