SPECIFICATION FairSpec
CONSTANTS
    t1 = t1
    t2 = t2
    Turns = {t1, t2}
    Requests <- MCRequests
    Rounds <- MCRounds
    MaxIters = 3
CHECK_DEADLOCK FALSE
INVARIANTS SideEffectsApproved PendingIsAwaited
PROPERTY TurnEnds
