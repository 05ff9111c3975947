SPECIFICATION Spec
CONSTANTS
    Procs = {c1}
    Kind <- AllKinds
    Malformed = {2}
    MaxWrites = 2
    MaxNonces = 2
    MaxCrashes = 2
INVARIANTS NoOrphanBarrier
