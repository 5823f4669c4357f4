SPECIFICATION FairSpec
CONSTANTS
    m = m
    Passes = {p1, p2}
    Repos = {m}
    Full <- MCFull
    Since = 2
    MaxTime = 3
    MaxVersion = 2
    None = None
INVARIANTS PinsFresh ArchOfPin
PROPERTIES PageCatchesUp
