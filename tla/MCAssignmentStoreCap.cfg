\* As many deliverables as rows are allowed, and one more.
SPECIFICATION Spec
CONSTANTS
    Actors = {a1}
    Issues = {i1}
    Keys = {k1, k2}
    MaxIds = 2
    MaxRows = 1
    Bound = 0
    None = None
INVARIANT CapHolds
CHECK_DEADLOCK FALSE
