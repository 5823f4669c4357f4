SPECIFICATION Spec
CONSTANTS
    dense = dense
    hybrid = hybrid
    mixture = mixture
    Evals = {e1, e2}
    Models = {dense, hybrid, mixture}
    Header <- MCHeader
    Asks <- MCAsks
    VramTotal = 40
    RamTotal = 40
    OtherUse <- MCOtherUse
    Ubatch = 1
    ActBytes = 1
    MaskBytes = 1
    FFRatio = 2
    ComputeUnknown = 4
    MoEUnmeasured = 6
    RuntimeOverhead = 1
    DisplayMin = 2
    OsMin = 3
    None = None
SYMMETRY Symmetry
INVARIANTS LaunchesFit RefusesRightly MoreNeverHurts
CHECK_DEADLOCK FALSE
