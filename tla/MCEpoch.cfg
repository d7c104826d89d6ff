CONSTANTS
    Turn = {1, 2}
    Segment = {1, 2, 3, 4, 5, 6}
    EpochNo = {1, 2, 3, 4}
    Worker = {w1}
    NoJob = NoJob
    MaxSegments = 1
    MinTurns = 1
    MaxTurns = 2
    MaxRetries = 2
    Forgettable = {1}
    MaxRare = 1
SPECIFICATION FairSpec
INVARIANTS OneFront NothingFallsBetween CheckpointWhole
PROPERTIES SealingEnds EpochEnds
CHECK_DEADLOCK FALSE
