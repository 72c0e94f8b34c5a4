\* Two loaders of one key and a writer, under every failure and fair scheduling.
CONSTANTS
    Tenants = {t1}
    Environments = {e1}
    Readers = {r1, r2}
    Writers = {w1}
    None = None
    cache_enabled = TRUE
    cache_ttl_seconds = 2
    Failures = {"redis", "database", "crash"}
    MaxVersion = 2
    MaxHeld = 1
SPECIFICATION FairSpec
INVARIANTS StaleHasCause MissedInvalidationBounded StalenessBounded TypeOK
PROPERTIES Convergence ImplementsRegister
