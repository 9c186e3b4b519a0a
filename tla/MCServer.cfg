CONSTANTS
    p1 = p1
    p2 = p2
    i1 = i1
    c1 = c1
    c2 = c2
    Processes = {p1, p2}
    Environments <- MCEnvironments
    Versions = {1, 2, 3}
    FilesOf <- MCFilesOf
    Rerunnable = {2}
    MaxFaults = 1
    Clients = {c1, c2}
    Ips = {i1}
    Limit = 2
    Window = 2
    t1 = t1
    t2 = t2
    u1 = u1
    Tabs = {t1, t2}
    Users = {u1}
    NoUser = NoUser
    Lifetime = 1
    Leeway = 1
    MaxTime = 4
SPECIFICATION SiteSpec
INVARIANTS AppliedOnce AppliedInOrder ServingIsReady BurstBounded WTypeOK
PROPERTIES EveryProcessServes BanBitesInTime SessionsComeFromLogins PagesSettle
CHECK_DEADLOCK FALSE
