SPECIFICATION FairSpec
CONSTANTS
    p1 = p1
    p2 = p2
    NoPlaybook = none
    Playbooks = {p1}
    NSteps <- RebootNSteps
    RebootSteps <- RebootReboots
    TolerantSteps <- RebootTolerant
    MaxConns = 2
    MaxDeps = 2
    MaxRuns = 2
    MaxAssigns = 0
    OutboxCap = 2
    Env = {}
PROPERTY EventuallySettled
CHECK_DEADLOCK FALSE
