CONSTANTS
    a = a
    b = b
    c = c
    DIDs = {a, b, c}
    Score <- MCScore
    Registries <- MCThree
    Callers = {sub}
    CacheTTL = 2
    Explicit = {FALSE}
    Override = override
    Sub = sub
    Shared = FALSE
    Options <- MCAlways
    MaxReconnectAttempts = 0
    ReconnectBackoff = 1
    MaxReconnectBackoff = 4
    MaxInt64 = 7
    Capacity = 1
    NoDID = none
    MaxSent = 0
    MaxAttempts = 5
SPECIFICATION Spec
PROPERTIES BackoffNeverShrinks
CHECK_DEADLOCK FALSE
