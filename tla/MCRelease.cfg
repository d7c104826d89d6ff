CONSTANTS
    Pid = {1, 2, 3, 4}
    Null = Null
    RequestId = {r1}
    MaxRestarts = 1
    MaxBreaks = 1
    MaxFaults = 2
SPECIFICATION FairSpec
CHECK_DEADLOCK FALSE
INVARIANTS  OneVersionServes
PROPERTY RequestsAnswered
