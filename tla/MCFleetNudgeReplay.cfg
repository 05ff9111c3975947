SPECIFICATION Spec
CONSTANTS
    s1 = s1
    s2 = s2
    u1 = u1
    None = None
    Procs = {s1, s2}
    Units = {u1}
    MaxTick = 1
    Retention = 1
    MaxTerminals = 2
    MaxStarts = 2
    MaxCrashes = 1
SYMMETRY Symmetry
INVARIANTS WriteAhead Truthful
PROPERTIES VerdictStands Reconciled SingleNudges
