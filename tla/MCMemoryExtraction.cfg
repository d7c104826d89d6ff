CONSTANTS
    Job = {1}
    Worker = {w1, w2, w3}
    NoJob = NoJob
    NoWorker = NoWorker
    NoToken = NoToken
    MaxRetries = 2
    MaxDefers = 2
    MaxFaults = 2
SPECIFICATION MXFairSpec
INVARIANTS WrittenAtMostOnce CompletedMeansSucceeded BuriedTogether
PROPERTIES NoWriteAfterShield ExtractionEnds
CHECK_DEADLOCK FALSE
