SPECIFICATION Spec
CONSTANTS
    A = A
    B = B
    word = word
    NoPlaybook = none
    Tokens = {A, B, word, prefix, suffix}
    Prefix = prefix
    Suffix = suffix
    Contents <- TwoPlaybooks
    SecretNames = {A, B}
    SecretValues <- Values
    SeedSecrets <- Seed
    MaxAssigns = 1
    MaxDeps = 2
    MaxConns = 2
    MaxRuns = 1
    MaxDepth = 3
    MaxIncidents = 1
INVARIANT TypeOK NothingSkipped EnvRight
PROPERTY RunsEnd
CHECK_DEADLOCK FALSE
