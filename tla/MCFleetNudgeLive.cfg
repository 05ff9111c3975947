SPECIFICATION FairSpec
CONSTANTS
    s1 = s1
    s2 = s2
    u1 = u1
    None = None
    Procs = {s1, s2}
    Units = {u1}
    MaxTick = 1
    Retention = 1
    MaxTerminals = 0
    MaxStarts = 1
    MaxCrashes = 0
PROPERTIES TickReturns
