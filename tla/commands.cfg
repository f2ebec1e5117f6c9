SPECIFICATION Spec
CONSTANTS
    Cmds = {m1, m2}
    MaxLines = 2
    MaxConns = 2
    OutboxCap = 1
INVARIANT TypeOK OutputExact
PROPERTY AcceptedCompletes
CHECK_DEADLOCK FALSE
