CONSTANTS
    Worker = {w1, w2}
    Action = {1, 2}
    Risky = {2}
    NoAction = NoAction
    MaxRuns = 3
    MaxSteps = 1
    MaxFaults = 1
    StaleReads = FALSE
    LostResults = TRUE
    SlowDispatch = FALSE
    LateEffects = TRUE
SPECIFICATION FairSpec
CHECK_DEADLOCK FALSE
INVARIANTS ExecutedOnce  ApprovedFirst AskedIffBlocked
PROPERTY TaskRests
