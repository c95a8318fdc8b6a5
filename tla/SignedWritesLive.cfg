CONSTANTS
    w1 = w1
    w2 = w2
    NonceWindow = 2
    NonceHold = 1
    MaxUint64 = 5
    Writes = {w1}
    Others = {o}
    FileWrites = {}
    CallerNonces = {0, 1, 2, 5}
    HasRPC = TRUE
    Retried = {}
    MaxAttempts <- MCMaxAttempts
SPECIFICATION FairSpec
PROPERTIES ClaimsLapse WaitReturns
CHECK_DEADLOCK FALSE
