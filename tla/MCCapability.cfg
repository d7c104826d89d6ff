CONSTANTS
    Version = {1, 2}
    Catalog = 1
    Base = Base
    Upgrades = {1, 2}
    Request = {r1, r2}
    None = None
    MaxRequests = 5
    MaxFailures = 2
SPECIFICATION Spec
INVARIANTS IndexFollowsState ArtifactsKept
SYMMETRY Symmetry
CHECK_DEADLOCK FALSE
