\* Three overlapping requests on one flag.
CONSTANTS
    None = None
    e1 = e1
    e2 = e2
    Environments = {e1, e2}
    Keys = {k1}
    Requests = {r1, r2, r3}
    Creates <- BooleanFlag
    Updates <- Edits
    MaxRules = 1
    MaxRequests = 4
SPECIFICATION Spec
SYMMETRY Symmetry
INVARIANTS AuditReplays CreatedOnce
PROPERTIES OnlySentColumnsChange OldValuesWereStored
