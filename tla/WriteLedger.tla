---------------------------- MODULE WriteLedger ----------------------------
(***************************************************************************)
(* What signed writes promise their callers, without claims, holds, reads, *)
(* submissions, answers or a mempool: every write is an entry of a ledger. *)
(*                                                                         *)
(* A write is clear while nothing sent of it can run, open while something *)
(* may, and closed once its caller was told that its nonce is used.  It    *)
(* runs at most once, at an instant when it is open, under the nonce it is *)
(* signed under, which no transaction used before.  Its nonce changes only *)
(* while it is clear, and it is cleared again only if it has not run.      *)
(* What the client knows used is used and stays known, and a write is      *)
(* closed only when the client knows its nonce used.                       *)
(***************************************************************************)
EXTENDS Naturals

CONSTANTS
    Writes,    \* the writes of one DID
    Nonces     \* the nonces of its account

VARIABLES
    used,      \* the nonces used on the chain
    known,     \* those of them the client knows used
    phase,     \* of each write: "clear", "open" or "closed"
    under,     \* the nonce each write is signed under
    runs       \* how often each write took effect

ledgerVars == <<used, known, phase, under, runs>>

Init ==
    /\ used \in SUBSET Nonces
    /\ known \in SUBSET used
    /\ phase = [w \in Writes |-> "clear"]
    /\ under \in [Writes -> Nonces]
    /\ runs = [w \in Writes |-> 0]

(***************************************************************************)
(* The client's steps.  Any of them may learn of used nonces.              *)
(***************************************************************************)
Learns ==
    /\ known \subseteq known'
    /\ known' \subseteq used
    /\ UNCHANGED <<used, runs>>

Learn == Learns /\ UNCHANGED <<phase, under>>

Moves(w, from, to) == phase[w] = from /\ phase' = [phase EXCEPT ![w] = to]

\* The write is given a nonce to be signed under.
Sign(w, n) ==
    /\ phase[w] = "clear"
    /\ under' = [under EXCEPT ![w] = n]
    /\ Learns /\ UNCHANGED phase

Send(w) == Moves(w, "clear", "open") /\ Learns /\ UNCHANGED under

\* By all its caller was told, nothing of the write can run.
Refuse(w) == Moves(w, "open", "clear") /\ runs[w] = 0 /\ Learns /\ UNCHANGED under

\* The caller is told that the nonce is used.
Close(w) == Moves(w, "open", "closed") /\ Learns /\ under[w] \in known' /\ UNCHANGED under

(***************************************************************************)
(* The chain's steps.                                                      *)
(***************************************************************************)
Uses(n) ==
    /\ n \in Nonces \ used
    /\ used' = used \cup {n}
    /\ UNCHANGED <<known, phase, under>>

Run(w) ==
    /\ phase[w] = "open" /\ runs[w] = 0
    /\ runs' = [runs EXCEPT ![w] = 1]
    /\ Uses(under[w])

\* A write refused in its block, or a transaction of another client.
Consume(n) == Uses(n) /\ UNCHANGED runs

Next ==
    \/ \E w \in Writes :
        \/ \E n \in Nonces : Sign(w, n)
        \/ Send(w) \/ Refuse(w) \/ Close(w) \/ Run(w)
    \/ \E n \in Nonces : Consume(n)
    \/ Learn

Spec == Init /\ [][Next]_ledgerVars
=============================================================================
