CONSTANTS
    w1 = w1
    w2 = w2
    NonceWindow = 2
    NonceHold = 1
    MaxUint64 = 5
    Writes = {w1, w2}
    Others = {}
    FileWrites = {w2}
    CallerNonces = {}
    HasRPC = TRUE
    Retried = {}
    MaxAttempts <- MCMaxAttempts
SPECIFICATION Spec
INVARIANTS ExclusiveInFlight HandedOutInWindow
PROPERTY KeepsLedger
CHECK_DEADLOCK FALSE
