SPECIFICATION Spec
CONSTANTS
    Senders = {s1, s2}
    MaxMsgs = 3
    Cap = 2
INVARIANT TypeOK NoGap
PROPERTY SendReturns StopReturns IsChannel
CHECK_DEADLOCK FALSE
