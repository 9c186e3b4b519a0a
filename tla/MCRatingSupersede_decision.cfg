CONSTANTS
    w1 = w1
    w2 = w2
    w3 = w3
    r1 = r1
    r2 = r2
    r3 = r3
    r4 = r4
    Workers = {w1, w2}
    Ratings = {r1, r2, r3, r4}
    NoRating = NoRating
    KeyOf <- MCKeyOf
    P0 = {r2}
    DimText <- MCDimText
    OverallText <- MCOverallText
    AccountOf <- MCAccountOf
    Withdrawn = {}
    AutoPass = TRUE
    CanFail = FALSE
SPECIFICATION Spec
PROPERTIES DecisionStands
CHECK_DEADLOCK FALSE
