\* The cache on, and nothing fails.
CONSTANTS
    Tenants = {t1}
    Environments = {e1}
    Readers = {r1, r2}
    Writers = {w1}
    None = None
    cache_enabled = TRUE
    cache_ttl_seconds = 2
    Failures = {}
    MaxVersion = 1
    MaxHeld = 1
SPECIFICATION Spec
INVARIANTS ReadYourWrites
