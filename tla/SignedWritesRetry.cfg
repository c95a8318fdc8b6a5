CONSTANTS
    w1 = w1
    w2 = w2
    NonceWindow = 2
    NonceHold = 2
    MaxUint64 = 6
    Writes = {w1}
    Others = {o}
    FileWrites = {}
    CallerNonces = {0, 1, 2, 3, 4, 6}
    HasRPC = TRUE
    Retried = {w1}
    MaxAttempts <- MCMaxAttempts
SPECIFICATION Spec
INVARIANTS HeldWhilePending RefusedNeverRuns ReportsAreTrue
PROPERTY KeepsLedger
CHECK_DEADLOCK FALSE
