\* Two callers and one fault of any kind.
SPECIFICATION FairSpec
CONSTANTS
    p1 = p1
    p2 = p2
    g1 = g1
    g2 = g2
    g3 = g3
    None = None
    Procs = {p1, p2}
    Gens = {g1, g2, g3}
    MaxAttempts = 2
    FaultKinds <- AllFaults
    MaxFaults = 1
INVARIANTS TypeOK MutexUntilFault
PROPERTIES CallTerminates OrphanReclaimed
