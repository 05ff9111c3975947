\* A fair scheduler over assignments without issues: sends that are refused, one
\* death, a worker that leaves and may come back.
SPECIFICATION FairSpec
CONSTANTS
    Actors = {s, a1}
    Sweeper = s
    Issues = {}
    Keys = {k1}
    MaxIds = 1
    MaxRows = 1
    Bound = 1
    None = None
    Answers = {"ok", "refused"}
    MaxCrashes = 1
    MaxMoves = 2
INVARIANTS SweepTypeOK MailOnce
PROPERTIES SweepEnds DeadRetired
