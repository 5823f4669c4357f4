SPECIFICATION FairSpec
CONSTANTS
    l1 = l1
    l2 = l2
    l3 = l3
    p1 = p1
    p2 = p2
    p3 = p3
    Loads = {l1, l2}
    Ports = {p1, p2}
    Probes = 2
    MaxRestarts = 1
    None = None
    Stopper = Stopper
INVARIANTS OneSidecar StatusNamesChild
PROPERTIES VerdictsAreOwn StatusSettles
