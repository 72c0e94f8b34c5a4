\* Two identities, windows of two ticks, every failure.
CONSTANTS
    Identities = {i1, i2}
    Requests = {r1, r2}
    None = None
    rate_limit_per_minute = 1
    WindowTicks = 2
    ExpireTicks = 4
    Failures = {"redis", "crash", "eviction"}
    MaxWindow = 3
    MaxRequests = 4
    MaxHeld = 1
SPECIFICATION Spec
SYMMETRY Symmetry
INVARIANTS TypeOK QuotaPerWindow RefusedOverOwnLimit OnlyLeaksOutlive
