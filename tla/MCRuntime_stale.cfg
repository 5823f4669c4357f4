SPECIFICATION Spec
CONSTANTS
    l1 = l1
    l2 = l2
    l3 = l3
    p1 = p1
    p2 = p2
    p3 = p3
    Loads = {l1, l2}
    Ports = {p1}
    Probes = 1
    MaxRestarts = 0
    None = None
    Stopper = Stopper
PROPERTY StaleProbeHarmless
