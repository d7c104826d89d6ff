CONSTANTS
    Job = {1, 2}
    Worker = {w1, w2}
    NoJob = NoJob
    NoWorker = NoWorker
    NoToken = NoToken
    MaxRetries = 3
    MaxDefers = 1
    MaxFaults = 1
SPECIFICATION FairSpec
INVARIANT TypeOK
PROPERTIES OnlyHolderSettles  EventuallyTerminal
CHECK_DEADLOCK FALSE
