\* Every kind of value, explicit null and refused body, under fair scheduling.
CONSTANTS
    None = None
    e1 = e1
    e2 = e2
    Environments = {e1, e2}
    Keys = {k1}
    Requests = {r1, r2}
    Creates <- EveryType
    Updates <- Values
    MaxRules = 1
    MaxRequests = 4
SPECIFICATION FairSpec
INVARIANTS TypeOK ValuesMatchType
PROPERTIES RequestsFinish
