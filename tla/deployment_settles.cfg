SPECIFICATION FairSpec
CONSTANTS
    p1 = p1
    p2 = p2
    NoPlaybook = none
    Playbooks = {p1, p2}
    NSteps <- PlainNSteps
    RebootSteps <- PlainReboots
    TolerantSteps <- PlainTolerant
    MaxConns = 1
    MaxDeps = 2
    MaxRuns = 2
    MaxAssigns = 1
    OutboxCap = 2
    Env = {"step_error"}
INVARIANT IndInv
PROPERTY EventuallySettled
CHECK_DEADLOCK FALSE
