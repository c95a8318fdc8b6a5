CONSTANTS
    a = a
    b = b
    c = c
    DIDs = {a}
    Score <- MCScore
    Registries <- MCRegistries
    Callers = {sub}
    CacheTTL = 1
    Explicit = {TRUE, FALSE}
    Override = override
    Sub = sub
    Shared = TRUE
    Options <- MCOptions
    MaxReconnectAttempts = 1
    ReconnectBackoff = 1
    MaxReconnectBackoff = 4
    MaxInt64 = 100
    Capacity = 1
    NoDID = none
    MaxSent = 2
    MaxAttempts = 4
SPECIFICATION FairSpec
INVARIANTS InOrder NoneLost ErrTellsWhy AttemptsBounded
PROPERTIES FinalOnceDone UnsubscribeReturns GivesUp
CHECK_DEADLOCK FALSE
