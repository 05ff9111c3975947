\* A run and its successor, a kill, a drift, a reset; two failures or stalls in a row end a run.
SPECIFICATION FairSpec
CONSTANTS
    MaxRuns = 2
    Limit = 2
    Patience = 1
    MaxKills = 1
    MaxDrifts = 1
    MaxResets = 1
INVARIANTS SupervisorTypeOK OneTick OperationalTrue
PROPERTIES StopIsFinal GivesUp StopEnds DriftEnds StatusHeals
CHECK_DEADLOCK FALSE
