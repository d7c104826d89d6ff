CONSTANTS
    Turn = {1, 2}
    Request = {r1, r2, r3}
    Decision = {d1}
    Handler = {h1, h2}
    NoOwner = NoOwner
    NoProcess = NoProcess
    Overlap = FALSE
    MaxCrashes = 2
    MaxStalls = 0
SPECIFICATION Spec
INVARIANTS OneCaller  SnapshotIsLatest
SYMMETRY Symmetry
CHECK_DEADLOCK FALSE
