CONSTANTS
    a = a
    b = b
    c = c
    DIDs = {a, b, c}
    Score <- MCScore
    Registries <- MCRegistries
    Callers = {q1, q2}
    CacheTTL = 1
    Explicit = {TRUE, FALSE}
    Override = override
    MaxIndexerCandidates = 2
    Sources = {"validator", "indexer", "auto"}
    Nobody = nobody
SPECIFICATION FairSpec
INVARIANTS AtMostTheBest TooLargeIsFinal FallbackIsTrue
PROPERTIES QueriesReturn
CHECK_DEADLOCK FALSE
