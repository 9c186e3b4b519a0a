CONSTANTS
    w1 = w1
    a1 = a1
    a2 = a2
    x1 = x1
    s1 = s1
    Workers = {w1}
    Accounts = {a1, a2}
    NoAccount = NoAccount
    Ratings = {x1}
    Supervisors = {s1}
    AuthorOf <- MCAuthorOf
    Resolutions = {"removed", "no_action"}
    NoResolution = NoResolution
    MaxReports = 2
SPECIFICATION Spec
INVARIANTS NoSelfReport TargetsAreReal
PROPERTIES HolderDecides NeverReopened
CHECK_DEADLOCK FALSE
