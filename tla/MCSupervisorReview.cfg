CONSTANTS
    w1 = w1
    w2 = w2
    r1 = r1
    r2 = r2
    r3 = r3
    r4 = r4
    r5 = r5
    Workers = {w1, w2}
    Requests = {r1, r2, r3, r4, r5}
    NoRequest = NoRequest
    TripleOf <- MCTripleOf
    BucketOf <- MCBucketOf
    AliasOf <- MCAliasOf
    K = 2
    AutoPass = TRUE
    CanFail = TRUE
SPECIFICATION Spec
INVARIANTS KAnonymity KCountBound OneEntryPerTripleAndAlias ApprovedHasEntry
PROPERTIES ImplementsDirectory
CHECK_DEADLOCK FALSE
SYMMETRY MCSymmetry
