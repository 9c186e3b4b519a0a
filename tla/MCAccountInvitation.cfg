CONSTANTS
    w1 = w1
    w2 = w2
    a1 = a1
    a2 = a2
    a3 = a3
    e1 = e1
    e2 = e2
    once = once
    twice = twice
    Workers = {w1, w2}
    Accounts = {a1, a2, a3}
    NoAccount = NoAccount
    Emails = {e1, e2}
    NoEmail = NoEmail
    Codes = {once, twice}
    NoCode = NoCode
    MaxUses <- MCMaxUses
    Expiring = {once}
    CanFail = TRUE
SPECIFICATION Spec
INVARIANTS UsesWithinLimit InviteesWithinUses InvitersCameFirst
PROPERTIES NoWayBackIn
CHECK_DEADLOCK FALSE
SYMMETRY MCSymmetry
CONSTRAINT MCFewOut
