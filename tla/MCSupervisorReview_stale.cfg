CONSTANTS
    w1 = w1
    w2 = w2
    r1 = r1
    r2 = r2
    r3 = r3
    r4 = r4
    r5 = r5
    Workers = {w1, w2}
    Requests = {r1, r2, r3, r4}
    NoRequest = NoRequest
    TripleOf <- MCTripleOf
    BucketOf <- MCBucketOf
    AliasOf <- MCAliasOf
    K = 2
    AutoPass = FALSE
    CanFail = FALSE
SPECIFICATION Spec
INVARIANTS KCountExact
CHECK_DEADLOCK FALSE
