\* Commands one after another; the second content the old installation writes is malformed.
SPECIFICATION FairSpec
CONSTANTS
    Procs = {c1}
    Kind <- AllKinds
    Malformed = {2}
    MaxWrites = 2
    MaxNonces = 2
    MaxCrashes = 2
INVARIANTS TypeOK NothingBeforeBoundary EvidenceTrue
PROPERTIES OneHandover ForwardOnly ForwardRepair
