CONSTANTS
    w1 = w1
    w2 = w2
    u1 = u1
    u2 = u2
    u3 = u3
    u4 = u4
    v1 = v1
    v2 = v2
    Workers = {w1, w2}
    Users = {u1, u2, u3}
    Votes = {v1, v2}
    NoVote = NoVote
    Dims = 3
    Total = 6
    DimOf <- MCDimOf
    Proposed <- MCProposed
    ProposerOf <- MCProposerOf
    MinAgree = 2
    MinActive = 2
    Choices = {"agree"}
    Volatile = FALSE
    CanFail = FALSE
SPECIFICATION Spec
INVARIANTS AppliedAsAWhole
CHECK_DEADLOCK FALSE
