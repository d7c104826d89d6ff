CONSTANTS
    Action = {1, 2}
    NoAction = NoAction
    MaxDrops = 2
    MaxCrashes = 2
SPECIFICATION Spec
CHECK_DEADLOCK FALSE
INVARIANTS ExecutedOnce SucceededIsCommitted UnknownStopsTask
