SPECIFICATION Spec
CONSTANTS
  Step = {1, 2, 3}
  NoStep = 0
  Autonomous = {1}
  Approval = {3}
  Deps <- Chain
  Timed = {3}
  Weekly = {3}
  Ruled = {2}
  MaxOps = 4
  MaxFires = 2
INVARIANTS QueuedHasWake ApprovedFirst OrderKept
CHECK_DEADLOCK FALSE
