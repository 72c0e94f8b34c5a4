\* Two tenants with a key each and two environments, one evaluation and one
\* CRUD request at a time; a registration may die at any step.
CONSTANTS
    Tenants = {t1, t2}
    Environments = {e1, e2}
    Readers = {r1}
    Writers = {w1}
    Keys = {k1, k2}
    None = None
    cache_enabled = TRUE
    cache_ttl_seconds = 1
    Failures = {}
    MaxVersion = 1
    MaxHeld = 0
SPECIFICATION ServiceSpec
SYMMETRY Symmetry
INVARIANTS ServiceTypeOK KeyConfinement TenantsHaveKeys OwnScope StaleHasCause
PROPERTIES ChangesAreAuthorized
