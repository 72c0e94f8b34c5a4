\* Two overlapping PUTs.
CONSTANTS
    None = None
    e1 = e1
    e2 = e2
    Environments = {e1, e2}
    Keys = {k1}
    Requests = {r1, r2}
    Creates <- BooleanFlag
    Updates <- Toggles
    MaxRules = 1
    MaxRequests = 4
SPECIFICATION Spec
INVARIANTS NewestFirst
