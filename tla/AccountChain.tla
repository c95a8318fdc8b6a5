---------------------------- MODULE AccountChain ----------------------------
(***************************************************************************)
(* The chain as nonces.go sees it, for one signing DID.  The node is not   *)
(* part of the repository: this module states what the SDK's code and      *)
(* comments take for granted of it (nonces.go, the comment that opens the  *)
(* file; NonceHold; refusalOutcome; WaitUntilLanded; WithNonce).           *)
(*                                                                         *)
(*  - A nonce in base+1 .. base+NonceWindow below the limit and not used   *)
(*    is accepted, unless a pending transaction holds it.                  *)
(*  - A pending transaction holds its nonce for at most NonceHold from its *)
(*    admission; it may land after that, or be dropped.                    *)
(*  - A transaction refused in its block uses its nonce too, except a      *)
(*    DeregisterSubgrove, whose refusal leaves the nonce unused.           *)
(***************************************************************************)
EXTENDS NonceAllocator

CONSTANTS
    Writes,    \* the writes the Client's callers make
    Others     \* transactions the DID signs with some other client

ASSUME OthersAssumption == Writes \cap Others = {}

VARIABLES
    base,      \* the account nonce
    spent,     \* the nonces used above it
    pending,   \* the mempool: [write, nonce, hold, late]
    applied    \* how often each write took effect

chainVars == <<base, spent, pending, applied>>

\* A pending transaction: hold is what is left of its hold on its nonce, and
\* late says that it was admitted after its submission had returned.
PendingTx == [write : Writes \cup Others, nonce : Nonces, hold : 0..NonceHold, late : BOOLEAN]

WithHold(t, h) == [write |-> t.write, nonce |-> t.nonce, hold |-> h, late |-> t.late]

UsedOnChain(n) == n <= base \/ n \in spent

InWindow(n) == n > base /\ n <= base + NonceWindow /\ n < NonceLimit

\* The answers to the ABCI query and to the API's /account/{did}/nonce.
RPCState == [Base |-> base, Used |-> {i \in 0..(NonceWindow - 1) : (base + 1 + i) \in spent}]

APIState == [Base |-> base, Used |-> {}]

(***************************************************************************)
(* CheckTx: the verdicts open to a transaction of write w under nonce n.   *)
(* "duplicate" is CometBFT refusing a transaction it has already seen,     *)
(* "refused" a refusal for a reason that has nothing to do with the nonce  *)
(* or for a nonce out of the window.                                       *)
(***************************************************************************)
CheckTx(w, n) ==
    IF UsedOnChain(n) THEN {"used"}
    ELSE IF \E t \in pending : t.write = w /\ t.nonce = n THEN {"duplicate"}
    ELSE IF \E t \in pending : t.nonce = n /\ t.hold > 0 THEN {"held"}
    ELSE IF InWindow(n) THEN {"accepted", "refused"}
    ELSE {"refused"}

Admitted(w, n, late) ==
    pending \cup {[write |-> w, nonce |-> n, hold |-> NonceHold, late |-> late]}

(***************************************************************************)
(* Actions of the chain.                                                   *)
(***************************************************************************)
AdvanceBase(n) ==
    \E b \in base..(NonceLimit - 1) :
        /\ \A m \in (base + 1)..b : m \in spent \cup {n}
        /\ (b + 1) \notin spent \cup {n}
        /\ base' = b
        /\ spent' = {m \in spent \cup {n} : m > b}

\* The nonce n is used, the base advances over used nonces with no gap, and
\* the mempool's recheck drops the other transactions under n.
UseNonce(n) ==
    /\ pending' = {t \in pending : t.nonce # n}
    /\ AdvanceBase(n)

\* A pending transaction is executed in a block and takes effect.
Apply(t) ==
    /\ t \in pending /\ InWindow(t.nonce) /\ t.nonce \notin spent
    /\ UseNonce(t.nonce)
    /\ applied' = IF t.write \in Writes THEN [applied EXCEPT ![t.write] = @ + 1] ELSE applied

\* A pending transaction is refused in its block, which still uses its nonce.
RefuseInBlock(t) ==
    /\ t \in pending /\ InWindow(t.nonce) /\ t.nonce \notin spent
    /\ UseNonce(t.nonce)
    /\ UNCHANGED applied

\* A pending transaction leaves without using its nonce: it is dropped from
\* the mempool, or was a DeregisterSubgrove refused in its block.
Drop(t) ==
    /\ t \in pending
    /\ pending' = pending \ {t}
    /\ UNCHANGED <<base, spent, applied>>

\* Three blocks have passed: the node no longer holds the nonce.
Release(t) ==
    /\ t \in pending /\ t.hold > 0
    /\ pending' = (pending \ {t}) \cup {WithHold(t, 0)}
    /\ UNCHANGED <<base, spent, applied>>

\* Another client of the same DID has a transaction admitted.
OtherSubmits(o, n) ==
    /\ "accepted" \in CheckTx(o, n)
    /\ pending' = Admitted(o, n, TRUE)
    /\ UNCHANGED <<base, spent, applied>>

ChainInit ==
    /\ base = 0
    /\ spent = {}
    /\ pending = {}
    /\ applied = [w \in Writes |-> 0]

ChainStep ==
    \/ \E t \in pending : Apply(t) \/ RefuseInBlock(t) \/ Drop(t) \/ Release(t)
    \/ \E o \in Others, n \in Nonces : OtherSubmits(o, n)

\* Pending transactions age with the clock.
Aged(txs) == {WithHold(t, Less(t.hold)) : t \in txs}
=============================================================================
