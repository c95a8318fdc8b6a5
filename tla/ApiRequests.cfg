CONSTANTS
    gated = gated
    plain = plain
    Calls = {gated, plain}
    Gated = {gated}
    Enveloped = {gated}
    Identities = {i}
    NoIdentity = nobody
    Answers <- MCAnswers
    MaxRetries = 1
    InitialBackoff = 1
    MaxBackoff = 3
    BackoffFactor = 2
SPECIFICATION FairSpec
INVARIANTS NeverAReplay ResultIsTrue
PROPERTIES RequestsReturn
CHECK_DEADLOCK FALSE
