CONSTANTS
    Turn = {1, 2}
    Request = {r1, r2, r3}
    Decision = {d1}
    Handler = {h1}
    NoOwner = NoOwner
    NoProcess = NoProcess
    Overlap = TRUE
    MaxCrashes = 1
    MaxStalls = 1
SPECIFICATION FairSpec
INVARIANT TurnRunsOnce
 
CHECK_DEADLOCK FALSE
