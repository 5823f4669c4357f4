SPECIFICATION FairSpec
CONSTANTS
    d1 = d1
    d2 = d2
    p1 = p1
    t1 = t1
    t2 = t2
    t3 = t3
    Ids = {d1}
    Paths = {p1}
    PathOf <- Single
    Tasks = {t1, t2}
    Total = 2
    OriginData = {"pinned", "other"}
    MaxCrashes = 1
INVARIANTS NoOrphanActive
PROPERTIES StopBarsCompletion StopTakesEffect ActiveSettles
