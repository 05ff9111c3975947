\* One process, three ticks, records kept for two of them, room for one record.
SPECIFICATION Spec
CONSTANTS
    s1 = s1
    u1 = u1
    None = None
    Procs = {s1}
    Units = {u1}
    MaxTick = 3
    Retention = 2
    MaxTerminals = 1
    MaxStarts = 1
    MaxCrashes = 0
INVARIANTS TypeOK AtMostOnce TerminalsCapped
