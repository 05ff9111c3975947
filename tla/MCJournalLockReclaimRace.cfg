SPECIFICATION Spec
CONSTANTS
    p1 = p1
    p2 = p2
    p3 = p3
    g1 = g1
    g2 = g2
    g3 = g3
    g4 = g4
    g5 = g5
    None = None
    Procs = {p1, p2, p3}
    Gens = {g1, g2, g3, g4, g5}
    MaxAttempts = 2
    FaultKinds <- CrashOnly
    MaxFaults = 1
SYMMETRY Symmetry
PROPERTIES LiveOwnerKept
