CONSTANTS
    e1 = e1  e2 = e2  m1 = m1  m2 = m2
    Event = {e1, e2}
    Memory = {m1, m2}
    Op = {o1}
    Worker = {w1, w2}
    Provenance <- OneOrBoth
    Requests <- AnyRequest
    MaxRetries = 1
    MaxFaults = 1
    MaxVersions = 3
    SlowRebuild = FALSE
SPECIFICATION FairSpec
INVARIANTS StaysHidden NotRelearned NoEmptyShell VerifiedIsGone
PROPERTY OperationsSettle
CHECK_DEADLOCK FALSE
