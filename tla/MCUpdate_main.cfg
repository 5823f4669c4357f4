SPECIFICATION FairSpec
CONSTANTS
    u1 = u1
    u2 = u2
    u3 = u3
    Tasks = {u1, u2}
    MaxVersion = 2
    MaxGone = 1
    None = None
INVARIANTS OneAtATime
PROPERTIES InstallsAgreed UpdateSettles
