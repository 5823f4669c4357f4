SPECIFICATION Spec
CONSTANTS
    c1 = c1
    c2 = c2
    t1 = t1
    t2 = t2
    Chats = {c1, c2}
    Tasks = {t1, t2}
    Stuck = {c2}
    MaxRuns <- MCMaxRuns
    None = None
CHECK_DEADLOCK FALSE
INVARIANTS NoOrphanMessages
PROPERTIES LiveFilesKept SweepReclaims
