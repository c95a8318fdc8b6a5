CONSTANTS
    ChainID = "willow"
    ValidatorEndpoints = 2
    Blocks <- MCFew
    Pins <- MCPins
    Callers = {c1}
    TrustingPeriod = 1
    MaxClockDrift = 1
    Numerator = 2
    Denominator = 3
    MaxStarts = 1
    MaxTime = 2
SPECIFICATION FairSpec
INVARIANTS NeverBelowItsAnchor
PROPERTIES QuietAfterStop CallsReturn
CHECK_DEADLOCK FALSE
