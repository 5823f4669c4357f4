SPECIFICATION Spec
CONSTANTS
    a = a
    b = b
    c = c
    Dirs = {a, b, c}
    Tags = {t}
    Quants = {q}
    i1 = i1
    i2 = i2
    Ids = {i1, i2}
    MaxMoves = 2
    Digests = {v1, v2}
    First = v1
    Partial = Partial
    Near = {b}
    Volume <- MCVolume
    Home = b
    Movers = {r1}
    Adopters = {p1}
    Deleters = {x1}
    None = None
CONSTRAINT MCUntangled
SYMMETRY MCIdsAlike
CHECK_DEADLOCK FALSE
INVARIANTS RowsSound
PROPERTIES OnlyDeletionLoses ImplementsHoldings
