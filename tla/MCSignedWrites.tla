--------------------------- MODULE MCSignedWrites ---------------------------
(***************************************************************************)
(* TLC instances of SignedWrites.                                          *)
(***************************************************************************)
EXTENDS SignedWrites, TLC

CONSTANTS
    w1, w2,     \* model values: the writes
    Retried     \* the writes that may be submitted twice

\* Every write is submitted once, and the retried ones once more.
MCMaxAttempts == [w \in Writes |-> IF w \in Retried THEN 2 ELSE 1]
=============================================================================
