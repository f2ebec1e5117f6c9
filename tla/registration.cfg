SPECIFICATION FairSpec
CONSTANTS
    MaxReqs = 6
    MaxRows = 3
    MaxFaults = 1
    MaxDeletes = 1
    MaxRefresh = 1
INVARIANT TypeOK RequestsBounded
PROPERTY EventuallyOnline StaysRevoked
CHECK_DEADLOCK FALSE
