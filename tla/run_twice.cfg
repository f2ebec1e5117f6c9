SPECIFICATION Spec
CONSTANTS
    p1 = p1
    p2 = p2
    NoPlaybook = none
    Playbooks = {p1}
    NSteps <- PlainNSteps
    RebootSteps <- PlainReboots
    TolerantSteps <- PlainTolerant
    MaxConns = 2
    MaxDeps = 2
    MaxRuns = 2
    MaxAssigns = 0
    OutboxCap = 2
    Env = {"netdrop"}
INVARIANT StepsSequential
CHECK_DEADLOCK FALSE
