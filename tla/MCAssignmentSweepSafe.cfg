\* Sends that are taken or refused; the deliverable is published twice, its
\* worker leaves and comes back.
SPECIFICATION SweepSpec
CONSTANTS
    Actors = {s, a1}
    Sweeper = s
    Issues = {i1}
    Keys = {k1}
    MaxIds = 2
    MaxRows = 1
    Bound = 2
    None = None
    Answers = {"ok", "refused"}
    MaxCrashes = 0
    MaxMoves = 3
PROPERTIES StoreKept Justified Consecutive
