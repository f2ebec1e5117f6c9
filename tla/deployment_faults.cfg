SPECIFICATION Spec
CONSTANTS
    p1 = p1
    p2 = p2
    NoPlaybook = none
    Playbooks = {p1}
    NSteps <- RebootNSteps
    RebootSteps <- RebootReboots
    TolerantSteps <- RebootTolerant
    MaxConns = 2
    MaxDeps = 2
    MaxRuns = 2
    MaxAssigns = 0
    OutboxCap = 1
    Env = {"netdrop", "crash", "restart", "step_error", "reboot_error", "delete"}
INVARIANT TypeOK ResumeSound CompletedSound FailedSound
PROPERTY InOrder KeepsPromise
CHECK_DEADLOCK FALSE
