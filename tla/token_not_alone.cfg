SPECIFICATION Spec
CONSTANTS
    MaxReqs = 4
    MaxRows = 3
    MaxFaults = 2
    MaxDeletes = 0
    MaxRefresh = 0
INVARIANT OnlyNewTokenValid
CHECK_DEADLOCK FALSE
