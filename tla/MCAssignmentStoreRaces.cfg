\* Two programs, two issues, three deliverables, three publications.
SPECIFICATION Spec
CONSTANTS
    Actors = {a1, a2}
    Issues = {i1, i2}
    Keys = {k1, k2, k3}
    MaxIds = 3
    MaxRows = 3
    Bound = 1
    None = None
INVARIANTS TypeOK IssueUnique FenceHolds
SYMMETRY Symmetry
PROPERTIES IssueSticks TargetKept StaleStays
