------------------------- MODULE SignedWrites_proofs -------------------------
(***************************************************************************)
(* Proofs about SignedWrites, for every set of writes and of other         *)
(* clients, every window, hold and uint64 bound: nonces are exclusive and  *)
(* stay held, a write sent as the documentation says runs at most once,    *)
(* and what the client knows of the chain is true and never forgotten.     *)
(***************************************************************************)
EXTENDS SignedWrites, TLAPS

USE WindowAssumption, HoldAssumption, MaxAssumption

(***************************************************************************)
(* What each operation of the allocator returns, for every window, hold    *)
(* and uint64 bound.  The proofs about the composed system cite these      *)
(* lemmas and never expand the operations.                                 *)
(***************************************************************************)
\* An account of a DID not seen before has the type of an account.
LEMMA NewAccountType == NewAccount \in Account
  BY DEF NewAccount, Account, NoClaim, Claim, Nonces

\* merge returns an account.
LEMMA MergeType ==
  ASSUME NEW a \in Account, NEW s \in AccountNonceState
  PROVE  merge(a, s) \in Account
<1>1. MergedBase(a, s) \in Nonces
  BY DEF MergedBase, Account, AccountNonceState, Nonces, NonceLimit
<1>2. MergedUsed(a, s) \in SUBSET Nonces
  BY DEF MergedUsed
<1>3. NoClaim \in Claim
  BY DEF NoClaim, Claim
<1>4. merge(a, s).claims \in [Nonces -> Claim]
  BY <1>3 DEF merge, Account
<1> QED
  BY <1>1, <1>2, <1>4 DEF merge, Account

\* After a merge the client knows used exactly what it knew and what the state
\* shows: a stale answer clears nothing.
LEMMA MergeKnown ==
  ASSUME NEW a \in Account, NEW s \in AccountNonceState, NEW n \in Nonces
  PROVE  KnownUsed(merge(a, s), n) <=> KnownUsed(a, n) \/ IsUsed(s, n)
  BY DEF KnownUsed, IsUsed, merge, MergedBase, MergedUsed, Account, AccountNonceState, Nonces, NonceLimit

\* The base after a merge is the larger of the two.
LEMMA MergeBase ==
  ASSUME NEW a \in Account, NEW s \in AccountNonceState
  PROVE  merge(a, s).base = a.base \/ merge(a, s).base = s.Base
  BY DEF merge, MergedBase

\* merge keeps a live claim of a nonce not known used, and drops every other.
LEMMA MergeClaims ==
  ASSUME NEW a \in Account, NEW s \in AccountNonceState, NEW n \in Nonces
  PROVE  merge(a, s).claims[n] =
           IF KnownUsed(merge(a, s), n) \/ ~live(a.claims[n]) THEN NoClaim ELSE a.claims[n]
  BY DEF merge, KnownUsed

\* What view shows used is known used.
LEMMA ViewKnown ==
  ASSUME NEW a \in Account, NEW n \in Nonces, IsUsed(view(a), n)
  PROVE  KnownUsed(a, n)
  BY DEF view, IsUsed, KnownUsed, Account, Nonces

\* A free nonce is one of the chain's nonces, unclaimed and not known used.
LEMMA FreeNonce ==
  ASSUME NEW a \in Account, NEW n \in Free(a)
  PROVE  n \in Nonces /\ n < NonceLimit /\ ~a.claims[n].present /\ ~KnownUsed(a, n)
  BY DEF Free, KnownUsed, Account, Nonces, NonceLimit

\* take claims the nonce for one submission and leaves the rest alone.
LEMMA TakeClaims ==
  ASSUME NEW a \in Account, NEW n \in Nonces
  PROVE  /\ take(a, n) \in Account
         /\ take(a, n).base = a.base /\ take(a, n).used = a.used
         /\ take(a, n).claims[n] = [present |-> TRUE, inFlight |-> 1, reserved |-> 0, held |-> 0]
         /\ \A m \in Nonces : m # n => take(a, n).claims[m] = a.claims[m]
<1> DEFINE c == [present |-> TRUE, inFlight |-> 1, reserved |-> 0, held |-> 0]
<1>1. c \in Claim
  BY DEF Claim
<1>2. take(a, n) = [a EXCEPT !.claims[n] = c]
  BY DEF take, ClaimOf
<1>3. take(a, n) \in Account
  <2> HIDE DEF c
  <2> QED BY <1>1, <1>2 DEF Account
<1>4. /\ take(a, n).base = a.base /\ take(a, n).used = a.used
      /\ take(a, n).claims = [a.claims EXCEPT ![n] = c]
  BY <1>2 DEF Account
<1> QED
  BY <1>3, <1>4 DEF Account

\* reserve claims the nonce for NonceHold without a submission.
LEMMA ReserveClaims ==
  ASSUME NEW a \in Account, NEW n \in Nonces
  PROVE  /\ reserve(a, n) \in Account
         /\ reserve(a, n).base = a.base /\ reserve(a, n).used = a.used
         /\ reserve(a, n).claims[n] = [present |-> TRUE, inFlight |-> 0, reserved |-> NonceHold, held |-> 0]
         /\ \A m \in Nonces : m # n => reserve(a, n).claims[m] = a.claims[m]
<1> DEFINE c == [present |-> TRUE, inFlight |-> 0, reserved |-> NonceHold, held |-> 0]
<1>1. c \in Claim
  BY DEF Claim
<1>2. reserve(a, n) = [a EXCEPT !.claims[n] = c]
  BY DEF reserve, ClaimOf
<1>3. reserve(a, n) \in Account
  <2> HIDE DEF c
  <2> QED BY <1>1, <1>2 DEF Account
<1>4. /\ reserve(a, n).base = a.base /\ reserve(a, n).used = a.used
      /\ reserve(a, n).claims = [a.claims EXCEPT ![n] = c]
  BY <1>2 DEF Account
<1> QED
  BY <1>3, <1>4 DEF Account

\* begin adds one submission to the nonce's claim.
LEMMA BeginClaims ==
  ASSUME NEW a \in Account, NEW n \in Nonces
  PROVE  /\ begin(a, n) \in Account
         /\ begin(a, n).base = a.base /\ begin(a, n).used = a.used
         /\ begin(a, n).claims[n] = [present |-> TRUE, inFlight |-> a.claims[n].inFlight + 1,
                                     reserved |-> 0, held |-> a.claims[n].held]
         /\ \A m \in Nonces : m # n => begin(a, n).claims[m] = a.claims[m]
<1> DEFINE c == [present |-> TRUE, inFlight |-> a.claims[n].inFlight + 1,
                 reserved |-> 0, held |-> a.claims[n].held]
<1>1. c \in Claim
  BY DEF Account, Claim
<1>2. begin(a, n) = [a EXCEPT !.claims[n] = c]
  BY DEF begin, ClaimOf
<1>3. begin(a, n) \in Account
  <2> HIDE DEF c
  <2> QED BY <1>1, <1>2 DEF Account
<1>4. /\ begin(a, n).base = a.base /\ begin(a, n).used = a.used
      /\ begin(a, n).claims = [a.claims EXCEPT ![n] = c]
  BY <1>2 DEF Account
<1> QED
  BY <1>3, <1>4 DEF Account

\* begin leaves everything but the nonce's own claim alone.
LEMMA BeginFrame ==
  ASSUME NEW a \in Account, NEW n \in Nonces
  PROVE  /\ begin(a, n) \in Account
         /\ begin(a, n).base = a.base /\ begin(a, n).used = a.used
         /\ \A m \in Nonces : m # n => begin(a, n).claims[m] = a.claims[m]
  BY BeginClaims, Zenon

\* settle takes one submission off the claim, and leaves no count on a claim
\* that counted one.
LEMMA SettledClaimType ==
  ASSUME NEW c \in Claim, NEW outcome
  PROVE  /\ SettledClaim(c, outcome) \in Claim
         /\ c.inFlight <= 1 /\ (c.present \/ c.inFlight = 0) => SettledClaim(c, outcome).inFlight = 0
<1>1. /\ Uncounted(c) \in Claim
      /\ c.inFlight <= 1 /\ (c.present \/ c.inFlight = 0) => Uncounted(c).inFlight = 0
  BY DEF Uncounted, ClaimOf, Claim
<1>2. NoClaim \in Claim /\ NoClaim.inFlight = 0
  BY DEF NoClaim, Claim
<1>3. CASE outcome \in HoldingOutcomes
  BY <1>1, <1>3 DEF SettledClaim, ClaimOf, Claim
<1>4. CASE outcome \notin HoldingOutcomes
  BY <1>1, <1>2, <1>4 DEF SettledClaim
<1> QED
  BY <1>3, <1>4

\* settle knows the nonce used if it did or the outcome says so, and nothing
\* else; it leaves the base and the claims of the other nonces alone, and no
\* in-flight count on a nonce that had at most one.
LEMMA SettleClaims ==
  ASSUME NEW a \in Account, NEW n \in Nonces, NEW outcome
  PROVE  /\ settle(a, n, outcome) \in Account
         /\ settle(a, n, outcome).base = a.base
         /\ \A m \in Nonces : KnownUsed(settle(a, n, outcome), m)
                <=> KnownUsed(a, m) \/ (m = n /\ outcome = "nonceUsed")
         /\ \A m \in Nonces : m # n => settle(a, n, outcome).claims[m] = a.claims[m]
         /\ a.claims[n].inFlight <= 1 /\ (a.claims[n].present \/ a.claims[n].inFlight = 0) =>
                settle(a, n, outcome).claims[n].inFlight = 0
<1> DEFINE z == settle(a, n, outcome)
<1>0. a.claims[n] \in Claim /\ NoClaim \in Claim /\ NoClaim.inFlight = 0
  BY DEF Account, NoClaim, Claim
<1>1. CASE KnownUsed(a, n) \/ outcome = "nonceUsed"
  <2> DEFINE u == IF n > a.base THEN a.used \cup {n} ELSE a.used
             d == [a.claims EXCEPT ![n] = NoClaim]
  <2>1. z = [a EXCEPT !.used = u, !.claims = d]
    BY <1>1 DEF settle
  <2>2. z.base = a.base /\ z.used = u /\ z.claims = d
    BY <2>1 DEF Account
  <2>a. u \in SUBSET Nonces /\ d \in [Nonces -> Claim]
    BY <1>0 DEF Account
  <2>3. z \in Account
    <3> HIDE DEF u, d
    <3> QED BY <2>1, <2>a DEF Account
  <2> QED
    BY <1>0, <1>1, <2>2, <2>3 DEF KnownUsed, Account, Nonces
<1>2. CASE ~(KnownUsed(a, n) \/ outcome = "nonceUsed")
  <2>1. z = [a EXCEPT !.claims[n] = SettledClaim(a.claims[n], outcome)]
    BY <1>2 DEF settle
  <2>2. z.base = a.base /\ z.used = a.used
        /\ z.claims = [a.claims EXCEPT ![n] = SettledClaim(a.claims[n], outcome)]
    BY <2>1 DEF Account
  <2>3. z \in Account
    BY <2>1, <1>0, SettledClaimType DEF Account
  <2> QED
    BY <1>0, <1>2, <2>2, <2>3, SettledClaimType DEF KnownUsed, Account
<1> QED
  BY <1>1, <1>2

\* The passage of time changes no count and no knowledge.
LEMMA ElapseClaims ==
  ASSUME NEW a \in Account
  PROVE  /\ Elapse(a) \in Account
         /\ Elapse(a).base = a.base /\ Elapse(a).used = a.used
         /\ \A n \in Nonces : /\ Elapse(a).claims[n].inFlight = a.claims[n].inFlight
                              /\ Elapse(a).claims[n].present = a.claims[n].present
<1> DEFINE c(n) == OlderClaim(a.claims[n])
<1>1. ASSUME NEW n \in Nonces
      PROVE  c(n) \in Claim /\ c(n).inFlight = a.claims[n].inFlight /\ c(n).present = a.claims[n].present
  BY DEF Account, Claim, Less, OlderClaim
<1>2. Elapse(a).claims = [n \in Nonces |-> c(n)] /\ Elapse(a).base = a.base /\ Elapse(a).used = a.used
  BY DEF Elapse, Account
<1>3. Elapse(a) \in Account
  BY <1>1 DEF Elapse, Account
<1> QED
  BY <1>1, <1>2, <1>3

\* A hold survives the settling of a submission under the same nonce that does
\* not find the nonce used, and an outcome that holds the nonce starts it anew.
LEMMA SettleHolds ==
  ASSUME NEW a \in Account, NEW n \in Nonces, NEW outcome, ~KnownUsed(a, n), outcome # "nonceUsed"
  PROVE  /\ a.claims[n].present /\ a.claims[n].held > 0 =>
              /\ settle(a, n, outcome).claims[n].present
              /\ settle(a, n, outcome).claims[n].held >= a.claims[n].held
         /\ outcome \in HoldingOutcomes =>
              /\ settle(a, n, outcome).claims[n].present
              /\ settle(a, n, outcome).claims[n].held = NonceHold
<1> DEFINE c == a.claims[n]
<1>0. c \in Claim
  BY DEF Account
<1>1. /\ c \in Claim /\ Uncounted(c) \in Claim
      /\ Uncounted(c).held = c.held /\ (c.present => Uncounted(c).present)
  <2> HIDE DEF c
  <2> QED BY <1>0 DEF Uncounted, ClaimOf, Claim
<1>2. settle(a, n, outcome) = [a EXCEPT !.claims[n] = SettledClaim(c, outcome)]
  BY DEF settle
<1>3. settle(a, n, outcome).claims[n] = SettledClaim(c, outcome)
  BY <1>2 DEF Account
<1> HIDE DEF c
<1>4. CASE outcome \in HoldingOutcomes
  <2>1. SettledClaim(c, outcome).present /\ SettledClaim(c, outcome).held = NonceHold
    BY <1>4 DEF SettledClaim, ClaimOf
  <2> QED BY <1>1, <1>3, <2>1 DEF Claim, c
<1>5. CASE outcome \notin HoldingOutcomes
  <2>1. c.held > 0 => SettledClaim(c, outcome) = Uncounted(c)
    BY <1>1, <1>5 DEF SettledClaim, live
  <2> QED BY <1>1, <1>3, <1>5, <2>1 DEF Claim, c
<1> QED BY <1>4, <1>5

\* A hold on a nonce that is not known used survives a merge.
LEMMA MergeHolds ==
  ASSUME NEW a \in Account, NEW s \in AccountNonceState, NEW n \in Nonces,
         ~KnownUsed(merge(a, s), n), a.claims[n].held > 0
  PROVE  merge(a, s).claims[n] = a.claims[n]
  BY MergeClaims DEF live

\* A tick takes one off every hold.
LEMMA ElapseHolds ==
  ASSUME NEW a \in Account, NEW n \in Nonces
  PROVE  Elapse(a).claims[n].held = Less(a.claims[n].held)
  BY DEF Elapse, OlderClaim, Account

USE FileAssumption, CallerAssumption, RPCAssumption, AttemptsAssumption, OthersAssumption

(***************************************************************************)
(* Type correctness.                                                       *)
(***************************************************************************)
\* The states the RPC endpoint and the API answer are account nonce states.
LEMMA StatesType ==
  ASSUME TypeOK
  PROVE  RPCState \in AccountNonceState /\ APIState \in AccountNonceState
  BY DEF TypeOK, RPCState, APIState, AccountNonceState

\* A submission, the account and a call that merges what it read keep types.
LEMMA MergeReadType ==
  ASSUME TypeOK, NEW w \in Writes, read[w] # NoState
  PROVE  merge(acct, read[w]) \in Account
  BY MergeType DEF TypeOK

\* Every step of a write's goroutine keeps the types.
LEMMA TypeStep ==
  ASSUME TypeOK, NEW w \in Writes, Calls(w) \/ Steps(w)
  PROVE  TypeOK'
<1> USE DEF TypeOK
<1>1. CASE CallWrite(w)
  BY <1>1 DEF CallWrite, Enter, chainVars, Reading
<1>2. CASE CallWithNonce(w)
  BY <1>2 DEF CallWithNonce, Enter, chainVars, Reading
<1>3. CASE CallNextNonce(w)
  BY <1>3 DEF CallNextNonce, Enter, chainVars, Reading
<1>4. CASE CallWaitUntilLanded(w)
  BY <1>4 DEF CallWaitUntilLanded, Enter, chainVars, Reading
<1>5. CASE ReadRPC(w)
  BY <1>5, StatesType DEF ReadRPC, chainVars
<1>6. CASE ReadAPI(w)
  BY <1>6, StatesType DEF ReadAPI, chainVars
<1>7. CASE ReadFails(w)
  BY <1>7 DEF ReadFails, chainVars
<1>8. CASE Take(w)
  <2> DEFINE mg == merge(acct, read[w])
  <2>1. mg \in Account
    BY <1>8, MergeReadType DEF Take, Use
  <2>a. \/ \E n \in Free(mg) : acct' = take(mg, n) /\ nonce' = [nonce EXCEPT ![w] = n]
        \/ acct' = mg /\ nonce' = nonce
    BY <1>8 DEF Take
  <2>2. acct' \in Account /\ nonce' \in [Writes -> Nonces]
    <3>1. ASSUME NEW n \in Free(mg)
          PROVE  n \in Nonces /\ take(mg, n) \in Account
      <4>1. n \in Nonces
        BY <2>1, FreeNonce
      <4> QED BY <2>1, <4>1, TakeClaims
    <3> QED BY <2>1, <2>a, <3>1
  <2> QED
    BY <1>8, <2>2 DEF Take, Use, chainVars, Sending
<1>9. CASE Reserve(w)
  <2> DEFINE mg == merge(acct, read[w])
  <2>1. mg \in Account
    BY <1>9, MergeReadType DEF Reserve, Use
  <2>a. \/ \E n \in Free(mg) : acct' = reserve(mg, n) /\ nonce' = [nonce EXCEPT ![w] = n]
        \/ acct' = mg /\ nonce' = nonce
    BY <1>9 DEF Reserve
  <2>2. acct' \in Account /\ nonce' \in [Writes -> Nonces]
    <3>1. ASSUME NEW n \in Free(mg)
          PROVE  n \in Nonces /\ reserve(mg, n) \in Account
      <4>1. n \in Nonces
        BY <2>1, FreeNonce
      <4> QED BY <2>1, <4>1, ReserveClaims
    <3> QED BY <2>1, <2>a, <3>1
  <2> QED
    BY <1>9, <2>2 DEF Reserve, Use, chainVars, Statuses
<1>10. CASE Under(w)
  <2> DEFINE mg == merge(acct, read[w])
  <2>1. mg \in Account
    BY <1>10, MergeReadType DEF Under, Use
  <2>a. acct' = mg \/ acct' = begin(mg, nonce[w])
    BY <1>10 DEF Under
  <2>2. acct' \in Account
    <3>1. nonce[w] \in Nonces
      OBVIOUS
    <3>2. begin(mg, nonce[w]) \in Account
      BY <2>1, <3>1, BeginClaims
    <3> QED BY <2>1, <2>a, <3>2
  <2> QED
    BY <1>10, <2>2 DEF Under, Use, chainVars, Sending, Statuses
<1>11. CASE SubmitSigned(w)
  BY <1>11, BeginFrame DEF SubmitSigned, chainVars, Sending
<1>12. CASE Observe(w)
  BY <1>12, MergeReadType DEF Observe, Use, chainVars, Statuses
<1>13. CASE BuildFails(w)
  BY <1>13, SettleClaims DEF BuildFails, chainVars
<1>14. CASE Post(w)
  <2>1. attempt' \in [Writes -> Nat]
    BY <1>14 DEF Post
  <2>2. [write |-> w, nonce |-> nonce[w], attempt |-> attempt'[w], forwarded |-> FALSE] \in Submission
    BY <2>1 DEF Submission
  <2>3. net' \in SUBSET Submission
    BY <1>14, <2>2 DEF Post
  <2> QED
    BY <1>14, <2>1, <2>3 DEF Post, chainVars, Sending
<1>15. CASE Settle(w)
  BY <1>15, SettleClaims DEF Settle, Remembers, Report, Reports, chainVars, Statuses, Answers
<1>16. CASE Fail(w)
  BY <1>16 DEF Fail, chainVars, Answers
<1> QED
  BY <1>1, <1>2, <1>3, <1>4, <1>5, <1>6, <1>7, <1>8, <1>9, <1>10, <1>11, <1>12, <1>13,
     <1>14, <1>15, <1>16 DEF Calls, Steps

\* The network keeps the types.
LEMMA TypeNetwork ==
  ASSUME TypeOK, NEW m \in net, Network(m)
  PROVE  TypeOK'
<1> USE DEF TypeOK
<1>0. m \in Submission /\ m.write \in Writes /\ m.nonce \in Nonces
  BY DEF Submission
<1>a. ASSUME NEW late \in BOOLEAN
      PROVE  Admitted(m.write, m.nonce, late) \in SUBSET PendingTx
  BY <1>0 DEF Admitted, PendingTx
<1>1. CASE RefuseBody(m)
  BY <1>0, <1>1 DEF RefuseBody, chainVars, Answers
<1>2. CASE Forward(m)
  <2>1. pending' \in SUBSET PendingTx
    BY <1>2, <1>a DEF Forward, Awaited
  <2>2. answer' \in [Writes -> Answers]
    BY <1>0, <1>2 DEF Forward, AnswerTo, Answers
  <2> QED BY <1>2, <2>1, <2>2 DEF Forward
<1>3. CASE ForwardUnanswered(m)
  <2>1. pending' \in SUBSET PendingTx
    BY <1>3, <1>a DEF ForwardUnanswered, Awaited
  <2>2. [m EXCEPT !.forwarded = TRUE] \in Submission
    BY <1>0 DEF Submission
  <2> QED BY <1>3, <2>1, <2>2 DEF ForwardUnanswered
<1> QED
  BY <1>1, <1>2, <1>3 DEF Network

\* Using a nonce keeps the types of the chain's variables.
LEMMA TypeUseNonce ==
  ASSUME TypeOK, NEW n \in Nonces, UseNonce(n)
  PROVE  base' \in 0..(NonceLimit - 1) /\ spent' \in SUBSET Nonces /\ pending' \in SUBSET PendingTx
  BY DEF TypeOK, UseNonce, AdvanceBase, NonceLimit

\* The chain keeps the types.
LEMMA TypeChain ==
  ASSUME TypeOK, ChainStep, UNCHANGED clientVars
  PROVE  TypeOK'
<1> USE DEF TypeOK, clientVars
<1>1. ASSUME NEW t \in pending, Apply(t) PROVE TypeOK'
  BY <1>1, TypeUseNonce DEF Apply, PendingTx
<1>2. ASSUME NEW t \in pending, RefuseInBlock(t) PROVE TypeOK'
  BY <1>2, TypeUseNonce DEF RefuseInBlock, PendingTx
<1>3. ASSUME NEW t \in pending, Drop(t) PROVE TypeOK'
  BY <1>3 DEF Drop
<1>4. ASSUME NEW t \in pending, Release(t) PROVE TypeOK'
  <2>1. WithHold(t, 0) \in PendingTx
    BY DEF PendingTx, WithHold
  <2> QED BY <1>4, <2>1 DEF Release
<1>5. ASSUME NEW o \in Others, NEW n \in Nonces, OtherSubmits(o, n) PROVE TypeOK'
  <2>1. [write |-> o, nonce |-> n, hold |-> NonceHold, late |-> TRUE] \in PendingTx
    BY DEF PendingTx
  <2>2. pending' \in SUBSET PendingTx
    BY <1>5, <2>1 DEF OtherSubmits, Admitted
  <2> QED BY <1>5, <2>2 DEF OtherSubmits
<1> QED
  BY <1>1, <1>2, <1>3, <1>4, <1>5 DEF ChainStep

\* Time keeps the types.
LEMMA TypeTick ==
  ASSUME TypeOK, Tick
  PROVE  TypeOK'
<1> USE DEF TypeOK
<1>1. ASSUME NEW t \in PendingTx PROVE WithHold(t, Less(t.hold)) \in PendingTx
  BY DEF PendingTx, Less, WithHold
<1>2. Aged(pending) \in SUBSET PendingTx
  BY <1>1 DEF Aged
<1> QED
  BY <1>2, ElapseClaims DEF Tick

\* Every step keeps the types.
LEMMA TypeNext ==
  ASSUME TypeOK, [Next]_vars
  PROVE  TypeOK'
<1>1. CASE UNCHANGED vars
  BY <1>1 DEF vars, chainVars, clientVars, TypeOK
<1> QED
  BY <1>1, TypeStep, TypeNetwork, TypeChain, TypeTick DEF Next

\* TypeOK is an invariant: the account, the mempool and the goroutines keep
\* their types in every reachable state (nonces.go, client.go postTx).
THEOREM TypeCorrect == Spec => []TypeOK
<1>1. Init => TypeOK
  BY NewAccountType DEF Init, ChainInit, TypeOK, Statuses, Answers, Nonces, NonceLimit
<1>2. TypeOK /\ [Next]_vars => TypeOK'
  BY TypeNext
<1> QED
  BY <1>1, <1>2, PTL DEF Spec

(***************************************************************************)
(* No two submissions in flight share a nonce, and no count is leaked.     *)
(***************************************************************************)
ClaimInv == ClaimsCountOne /\ ExclusiveInFlight /\ NoLeakedCount

\* A step that changes neither the account nor what is being submitted.
LEMMA ClaimsSame ==
  ASSUME ClaimInv, acct' = acct,
         \A w \in Writes, n \in Nonces : Submitting(w, n)' <=> Submitting(w, n)
  PROVE  ClaimInv'
  BY DEF ClaimInv, ClaimsCountOne, ExclusiveInFlight, NoLeakedCount, KnownUsed

\* The claim invariant of an account, whatever is being submitted.
ClaimInvOf(a) ==
    /\ \A n \in Nonces : a.claims[n].inFlight <= 1 /\ (a.claims[n].present \/ a.claims[n].inFlight = 0)
    /\ \A n \in Nonces : ~KnownUsed(a, n) =>
        \A w \in Writes : Submitting(w, n) =>
            /\ a.claims[n].present /\ a.claims[n].inFlight = 1
            /\ \A v \in Writes : Submitting(v, n) => v = w
    /\ \A n \in Nonces : a.claims[n].inFlight > 0 => \E w \in Writes : Submitting(w, n)

\* The claim invariant is that of the client's account.
LEMMA ClaimInvOfAcct == ClaimInv <=> ClaimInvOf(acct)
  BY DEF ClaimInv, ClaimInvOf, ClaimsCountOne, ExclusiveInFlight, NoLeakedCount

\* Folding in a state the chain reported keeps the claim invariant: the claim
\* of a submission in flight is dropped only with a nonce seen used.
LEMMA MergeClaimInv ==
  ASSUME TypeOK, ClaimInv, NEW s \in AccountNonceState
  PROVE  ClaimInvOf(merge(acct, s))
<1>1. acct \in Account
  BY DEF TypeOK
<1>2. \A n \in Nonces : KnownUsed(acct, n) => KnownUsed(merge(acct, s), n)
  BY <1>1, MergeKnown
<1>3. NoClaim.inFlight = 0 /\ \A c \in Claim : c.inFlight > 0 => live(c)
  BY DEF NoClaim, live
<1>4. \A n \in Nonces : /\ acct.claims[n] \in Claim
                        /\ merge(acct, s).claims[n] =
                             IF KnownUsed(merge(acct, s), n) \/ ~live(acct.claims[n])
                             THEN NoClaim ELSE acct.claims[n]
  BY <1>1, MergeClaims DEF Account
<1>5. ClaimInvOf(acct)
  BY ClaimInvOfAcct
<1> QED
  BY <1>2, <1>3, <1>4, <1>5 DEF ClaimInvOf

\* A step of a goroutine that leaves the account as merge returned it.
LEMMA MergedClaimInv ==
  ASSUME TypeOK, ClaimInv, NEW w \in Writes, read[w] # NoState, acct' = merge(acct, read[w]),
         \A v \in Writes, n \in Nonces : Submitting(v, n)' <=> Submitting(v, n)
  PROVE  ClaimInv'
<1>1. ClaimInvOf(merge(acct, read[w]))
  BY MergeClaimInv DEF TypeOK
<1> QED
  BY <1>1 DEF ClaimInv, ClaimInvOf, ClaimsCountOne, ExclusiveInFlight, NoLeakedCount

\* A submission begins under a nonce nobody submits under, or known used.
LEMMA BegunClaimInv ==
  ASSUME TypeOK, NEW w \in Writes, NEW a \in Account, NEW n \in Nonces, ClaimInvOf(a),
         acct' \in Account, acct'.base = a.base, acct'.used = a.used,
         acct'.claims[n].present, acct'.claims[n].inFlight = 1,
         \A m \in Nonces : m # n => acct'.claims[m] = a.claims[m],
         ~InFlight(a, n), pc[w] \notin Sending,
         pc' = [pc EXCEPT ![w] = "claimed"],
         nonce'[w] = n, \A v \in Writes : v # w => nonce'[v] = nonce[v]
  PROVE  ClaimInv'
<1>1. \A v \in Writes, m \in Nonces : Submitting(v, m)' <=> IF v = w THEN m = n ELSE Submitting(v, m)
  BY DEF Submitting, Sending, TypeOK
<1>2. \A m \in Nonces : KnownUsed(acct, m)' <=> KnownUsed(a, m)
  BY DEF KnownUsed
<1>3. ~KnownUsed(a, n) => \A v \in Writes : ~Submitting(v, n)
  BY DEF ClaimInvOf, InFlight
<1>4. ClaimsCountOne'
  BY DEF ClaimInvOf, ClaimsCountOne
<1>5. NoLeakedCount'
  <2> SUFFICES ASSUME NEW m \in Nonces, (acct'.claims)[m].inFlight > 0
               PROVE  \E v \in Writes : Submitting(v, m)'
    BY DEF NoLeakedCount
  <2>1. CASE m = n
    BY <1>1, <2>1
  <2>2. CASE m # n
    <3>1. PICK v \in Writes : Submitting(v, m)
      BY <2>2 DEF ClaimInvOf
    <3>2. v # w
      BY <3>1 DEF Submitting
    <3> QED BY <1>1, <3>1, <3>2
  <2> QED BY <2>1, <2>2
<1>6. ExclusiveInFlight'
  <2> SUFFICES ASSUME NEW m \in Nonces, ~KnownUsed(acct, m)', NEW v \in Writes, Submitting(v, m)'
               PROVE  /\ (acct'.claims)[m].present /\ (acct'.claims)[m].inFlight = 1
                      /\ \A u \in Writes : Submitting(u, m)' => u = v
    BY DEF ExclusiveInFlight
  <2>1. CASE m = n
    BY <1>1, <1>2, <1>3, <2>1
  <2>2. CASE m # n
    BY <1>1, <1>2, <2>2 DEF ClaimInvOf
  <2> QED BY <2>1, <2>2
<1> QED
  BY <1>4, <1>5, <1>6 DEF ClaimInv

\* A submission settles: its count goes, and the others' stay.
LEMMA SettledClaimInv ==
  ASSUME TypeOK, ClaimInv, NEW w \in Writes, NEW outcome, pc[w] \in Sending,
         acct' = settle(acct, nonce[w], outcome),
         pc' = [pc EXCEPT ![w] = "rest"], nonce' = nonce
  PROVE  ClaimInv'
<1> DEFINE n == nonce[w]
<1>1. acct \in Account /\ n \in Nonces
  BY DEF TypeOK
<1>2. \A v \in Writes, m \in Nonces : Submitting(v, m)' <=> v # w /\ Submitting(v, m)
  BY DEF Submitting, Sending, TypeOK
<1>3. \A m \in Nonces : KnownUsed(acct, m) => KnownUsed(acct, m)'
  BY <1>1, SettleClaims DEF KnownUsed
<1>4. ClaimInvOf(acct) /\ Submitting(w, n)
  BY ClaimInvOfAcct DEF Submitting
<1>5. acct'.claims[n].inFlight = 0 /\ \A m \in Nonces : m # n => acct'.claims[m] = acct.claims[m]
  BY <1>1, <1>4, SettleClaims DEF ClaimInvOf
<1>6. ASSUME NEW m \in Nonces, ~KnownUsed(acct, m)', NEW v \in Writes, Submitting(v, m)'
      PROVE  m # n
  BY <1>2, <1>3, <1>4, <1>6 DEF ClaimInvOf
<1>7. ASSUME NEW m \in Nonces, NEW v \in Writes, Submitting(v, m), m # n PROVE v # w
  BY <1>7 DEF Submitting
<1> QED
  BY <1>1, <1>2, <1>3, <1>4, <1>5, <1>6, <1>7
  DEF ClaimInvOf, ClaimInv, ClaimsCountOne, ExclusiveInFlight, NoLeakedCount

\* Every step keeps the claim invariant.
LEMMA ClaimStep ==
  ASSUME TypeOK, ClaimInv, NEW w \in Writes, Calls(w) \/ Steps(w)
  PROVE  ClaimInv'
<1>0. acct \in Account /\ pc \in [Writes -> {"rest"} \cup Reading \cup Sending]
      /\ nonce \in [Writes -> Nonces]
  BY DEF TypeOK
<1>1. ASSUME NEW call \in Reading \cup {"rest"}, pc[w] \notin Sending, acct' = acct,
             pc' = [pc EXCEPT ![w] = call], \A v \in Writes : v # w => nonce'[v] = nonce[v]
      PROVE  ClaimInv'
  <2>1. \A v \in Writes, n \in Nonces : Submitting(v, n)' <=> Submitting(v, n)
    BY <1>0, <1>1 DEF Submitting, Sending, Reading
  <2> QED BY <1>1, <2>1, ClaimsSame
<1>2. CASE Calls(w)
  BY <1>0, <1>1, <1>2
  DEF Calls, CallWrite, CallWithNonce, CallNextNonce, CallWaitUntilLanded, Enter, Reading, Sending
<1>3. CASE ReadRPC(w) \/ ReadAPI(w) \/ Fail(w)
  BY <1>3, ClaimsSame DEF ReadRPC, ReadAPI, Fail, Submitting
<1>4. CASE ReadFails(w)
  BY <1>0, <1>1, <1>4 DEF ReadFails, Reading, Sending
<1>5. CASE Post(w)
  <2>1. \A v \in Writes, n \in Nonces : Submitting(v, n)' <=> Submitting(v, n)
    BY <1>0, <1>5 DEF Post, Submitting, Sending
  <2> QED BY <1>5, <2>1, ClaimsSame DEF Post
<1>6. CASE BuildFails(w)
  <2>1. /\ pc[w] \in Sending /\ acct' = settle(acct, nonce[w], "nonceFree")
        /\ pc' = [pc EXCEPT ![w] = "rest"] /\ nonce' = nonce
    BY <1>6 DEF BuildFails, Sending
  <2> QED BY <2>1, SettledClaimInv
<1>7. CASE Settle(w)
  <2> DEFINE o == postTx(answer[w])
  <2>1. /\ pc[w] \in Sending /\ acct' = settle(acct, nonce[w], o)
        /\ pc' = [pc EXCEPT ![w] = "rest"] /\ nonce' = nonce
    BY <1>7 DEF Settle, Sending
  <2> HIDE DEF o
  <2> QED BY <2>1, SettledClaimInv
<1>8. CASE SubmitSigned(w)
  <2>1. nonce[w] \in Nonces /\ ClaimInvOf(acct)
    BY <1>0, ClaimInvOfAcct
  <2>2. acct.claims[nonce[w]].inFlight = 0
    BY <1>0, <1>8, <2>1 DEF SubmitSigned, InFlight, ClaimInvOf, Account, Claim
  <2>3. pc[w] \notin Sending
    BY <1>8 DEF SubmitSigned, Sending
  <2>4. begin(acct, nonce[w]).claims[nonce[w]] =
          [present |-> TRUE, inFlight |-> acct.claims[nonce[w]].inFlight + 1,
           reserved |-> 0, held |-> acct.claims[nonce[w]].held]
    BY <1>0, <2>1, BeginClaims
  <2>5. acct' = begin(acct, nonce[w]) /\ ~InFlight(acct, nonce[w])
        /\ pc' = [pc EXCEPT ![w] = "claimed"] /\ nonce' = nonce
    BY <1>8 DEF SubmitSigned
  <2>6. /\ acct' \in Account /\ acct'.base = acct.base /\ acct'.used = acct.used
        /\ \A m \in Nonces : m # nonce[w] => acct'.claims[m] = acct.claims[m]
    BY <1>0, <2>1, <2>5, BeginFrame
  <2>7. acct'.claims[nonce[w]].present /\ acct'.claims[nonce[w]].inFlight = 1
    BY <2>2, <2>4, <2>5
  <2> QED
    BY <1>0, <2>1, <2>3, <2>5, <2>6, <2>7, BegunClaimInv
<1>9. ASSUME read[w] # NoState, pc[w] \in Reading
      PROVE  /\ merge(acct, read[w]) \in Account
             /\ ClaimInvOf(merge(acct, read[w]))
             /\ pc[w] \notin Sending
  BY <1>9, MergeReadType, MergeClaimInv DEF TypeOK, Reading, Sending
<1>10. ASSUME read[w] # NoState, pc[w] \in Reading, acct' = merge(acct, read[w]), nonce' = nonce,
              pc' = pc \/ pc' = [pc EXCEPT ![w] = "rest"]
       PROVE  ClaimInv'
  <2>1. \A v \in Writes, n \in Nonces : Submitting(v, n)' <=> Submitting(v, n)
    BY <1>0, <1>10 DEF Submitting, Sending, Reading
  <2> QED BY <1>10, <2>1, MergedClaimInv
<1>11. CASE Observe(w)
  BY <1>10, <1>11 DEF Observe, Use, Reading
<1>12. CASE Take(w)
  <2> DEFINE mg == merge(acct, read[w])
  <2>1. mg \in Account /\ ClaimInvOf(mg) /\ pc[w] \notin Sending
    BY <1>9, <1>12 DEF Take, Use, Reading
  <2>2. ASSUME NEW n \in Free(mg), acct' = take(mg, n), nonce' = [nonce EXCEPT ![w] = n],
               pc' = [pc EXCEPT ![w] = "claimed"]
        PROVE  ClaimInv'
    <3>1. n \in Nonces /\ ~mg.claims[n].present
      BY <2>1, FreeNonce
    <3>2. /\ acct' \in Account /\ acct'.base = mg.base /\ acct'.used = mg.used
          /\ acct'.claims[n].present /\ acct'.claims[n].inFlight = 1
          /\ \A m \in Nonces : m # n => acct'.claims[m] = mg.claims[m]
      BY <2>1, <2>2, <3>1, TakeClaims
    <3>3. ~InFlight(mg, n) /\ nonce'[w] = n /\ \A v \in Writes : v # w => nonce'[v] = nonce[v]
      BY <1>0, <2>2, <3>1 DEF InFlight
    <3> QED
      BY <2>1, <2>2, <3>1, <3>2, <3>3, BegunClaimInv
  <2>3. CASE acct' = mg /\ pc' = [pc EXCEPT ![w] = "rest"] /\ nonce' = nonce
    BY <1>10, <1>12, <2>3 DEF Take, Use, Reading
  <2> QED
    BY <1>12, <2>2, <2>3 DEF Take
<1>13. CASE Reserve(w)
  <2> DEFINE mg == merge(acct, read[w])
  <2>1. mg \in Account /\ ClaimInvOf(mg) /\ pc[w] \notin Sending
    BY <1>9, <1>13 DEF Reserve, Use, Reading
  <2>2. ASSUME NEW n \in Free(mg), acct' = reserve(mg, n), nonce' = [nonce EXCEPT ![w] = n],
               pc' = [pc EXCEPT ![w] = "rest"]
        PROVE  ClaimInv'
    <3>1. n \in Nonces /\ ~mg.claims[n].present
      BY <2>1, FreeNonce
    <3>2. /\ acct'.base = mg.base /\ acct'.used = mg.used
          /\ acct'.claims[n].present /\ acct'.claims[n].inFlight = 0
          /\ \A m \in Nonces : m # n => acct'.claims[m] = mg.claims[m]
      BY <2>1, <2>2, <3>1, ReserveClaims
    <3>3. \A v \in Writes, m \in Nonces : Submitting(v, m)' <=> Submitting(v, m)
      BY <1>0, <2>1, <2>2 DEF Submitting, Sending
    <3>4. \A m \in Nonces : KnownUsed(acct, m)' <=> KnownUsed(mg, m)
      BY <3>2 DEF KnownUsed
    <3>5. ~KnownUsed(mg, n) => \A v \in Writes : ~Submitting(v, n)
      BY <2>1, <3>1 DEF ClaimInvOf
    <3> QED
      BY <2>1, <3>1, <3>2, <3>3, <3>4, <3>5
      DEF ClaimInvOf, ClaimInv, ClaimsCountOne, ExclusiveInFlight, NoLeakedCount
  <2>3. CASE acct' = mg /\ pc' = [pc EXCEPT ![w] = "rest"] /\ nonce' = nonce
    BY <1>10, <1>13, <2>3 DEF Reserve, Use, Reading
  <2> QED
    BY <1>13, <2>2, <2>3 DEF Reserve
<1>14. CASE Under(w)
  <2> DEFINE mg == merge(acct, read[w])
             n == nonce[w]
  <2>1. mg \in Account /\ ClaimInvOf(mg) /\ pc[w] \notin Sending /\ n \in Nonces
    BY <1>0, <1>9, <1>14 DEF Under, Use, Reading
  <2>2. CASE ~InFlight(mg, n) /\ acct' = begin(mg, n) /\ pc' = [pc EXCEPT ![w] = "claimed"]
    <3>1. mg.claims[n].inFlight = 0
      BY <2>1, <2>2 DEF InFlight, ClaimInvOf, Account, Claim
    <3>a. begin(mg, n).claims[n] = [present |-> TRUE, inFlight |-> mg.claims[n].inFlight + 1,
                                    reserved |-> 0, held |-> mg.claims[n].held]
      BY <2>1, BeginClaims
    <3>b. /\ acct' \in Account /\ acct'.base = mg.base /\ acct'.used = mg.used
          /\ \A m \in Nonces : m # n => acct'.claims[m] = mg.claims[m]
      BY <2>1, <2>2, BeginFrame
    <3>2. acct'.claims[n].present /\ acct'.claims[n].inFlight = 1
      BY <2>2, <3>1, <3>a
    <3>3. nonce'[w] = n /\ \A v \in Writes : v # w => nonce'[v] = nonce[v]
      BY <1>14 DEF Under
    <3> QED
      BY <2>1, <2>2, <3>2, <3>b, <3>3, BegunClaimInv
  <2>3. CASE acct' = mg /\ pc' = [pc EXCEPT ![w] = "rest"]
    BY <1>10, <1>14, <2>3 DEF Under, Use, Reading
  <2> QED
    BY <1>14, <2>2, <2>3 DEF Under
<1> QED
  BY <1>2, <1>3, <1>4, <1>5, <1>6, <1>7, <1>8, <1>11, <1>12, <1>13, <1>14 DEF Steps

\* ExclusiveInFlight and NoLeakedCount hold in every reachable state: no two
\* submissions of the client are in flight under a nonce not seen used, and
\* every in-flight count is that of a submission (nonceAllocator).
THEOREM NoncesAreExclusive == Spec => [](ExclusiveInFlight /\ NoLeakedCount)
<1>1. Init => ClaimInv
  BY DEF Init, ClaimInv, ClaimsCountOne, ExclusiveInFlight, NoLeakedCount, NewAccount, NoClaim,
         Submitting, Sending
<1>2. TypeOK /\ ClaimInv /\ [Next]_vars => ClaimInv'
  <2> SUFFICES ASSUME TypeOK, ClaimInv, [Next]_vars PROVE ClaimInv' OBVIOUS
  <2>1. CASE UNCHANGED vars
    BY <2>1, ClaimsSame DEF vars, clientVars, Submitting
  <2>2. CASE \E m \in net : Network(m)
    BY <2>2, ClaimsSame DEF Network, RefuseBody, Forward, ForwardUnanswered, Submitting
  <2>3. CASE UNCHANGED clientVars
    BY <2>3, ClaimsSame DEF clientVars, Submitting
  <2>4. CASE Tick
    <3>1. \A n \in Nonces : /\ acct'.claims[n].inFlight = acct.claims[n].inFlight
                            /\ acct'.claims[n].present = acct.claims[n].present
                            /\ KnownUsed(acct, n)' <=> KnownUsed(acct, n)
      BY <2>4, ElapseClaims DEF Tick, TypeOK, KnownUsed
    <3>2. \A v \in Writes, m \in Nonces : Submitting(v, m)' <=> Submitting(v, m)
      BY <2>4 DEF Tick, Submitting
    <3> QED
      BY <3>1, <3>2 DEF ClaimInv, ClaimsCountOne, ExclusiveInFlight, NoLeakedCount
  <2> QED
    BY <2>1, <2>2, <2>3, <2>4, ClaimStep DEF Next
<1>3. ClaimInv => ExclusiveInFlight /\ NoLeakedCount
  BY DEF ClaimInv
<1> QED
  BY <1>1, <1>2, <1>3, TypeCorrect, PTL DEF Spec

(***************************************************************************)
(* Calls are made in the states the documentation allows.                  *)
(***************************************************************************)
\* A step of a goroutine follows the documentation.
LEMMA DocsStep ==
  ASSUME TypeOK, CallsFollowDocs, NEW w \in Writes, Calls(w) \/ Steps(w)
  PROVE  CallsFollowDocs'
<1> USE DEF CallsFollowDocs, TypeOK
<1>1. CASE Calls(w)
  BY <1>1 DEF Calls, CallWrite, CallWithNonce, CallNextNonce, CallWaitUntilLanded, Enter
<1>2. CASE ReadRPC(w) \/ ReadAPI(w) \/ ReadFails(w)
  BY <1>2 DEF ReadRPC, ReadAPI, ReadFails, Reading
<1>3. CASE Take(w)
  BY <1>3 DEF Take, Use
<1>4. CASE Reserve(w)
  BY <1>4 DEF Reserve, Use
<1>5. CASE Under(w)
  BY <1>5 DEF Under, Use
<1>6. CASE SubmitSigned(w)
  BY <1>6 DEF SubmitSigned
<1>7. CASE Observe(w)
  BY <1>7 DEF Observe, Use
<1>8. CASE BuildFails(w) \/ Post(w) \/ Settle(w) \/ Fail(w)
  BY <1>8 DEF BuildFails, Post, Settle, Fail
<1> QED
  BY <1>1, <1>2, <1>3, <1>4, <1>5, <1>6, <1>7, <1>8 DEF Steps

\* Every step follows the documentation.
LEMMA DocsNext ==
  ASSUME TypeOK, CallsFollowDocs, [Next]_vars
  PROVE  CallsFollowDocs'
<1>1. CASE \E m \in net : Network(m)
  <2>1. PICK m \in net : Network(m)
    BY <1>1
  <2>2. m.write \in Writes
    BY DEF TypeOK, Submission
  <2>3. CASE RefuseBody(m)
    BY <2>2, <2>3 DEF RefuseBody, Awaited, CallsFollowDocs, TypeOK
  <2>4. CASE Forward(m)
    BY <2>2, <2>4 DEF Forward, Awaited, CallsFollowDocs, TypeOK
  <2>5. CASE ForwardUnanswered(m)
    BY <2>5 DEF ForwardUnanswered, CallsFollowDocs
  <2> QED BY <2>1, <2>3, <2>4, <2>5 DEF Network
<1>2. CASE UNCHANGED clientVars
  BY <1>2 DEF clientVars, CallsFollowDocs
<1>3. CASE Tick
  BY <1>3 DEF Tick, CallsFollowDocs
<1>4. CASE UNCHANGED vars
  BY <1>4 DEF vars, clientVars, CallsFollowDocs
<1> QED
  BY <1>1, <1>2, <1>3, <1>4, DocsStep DEF Next

(***************************************************************************)
(* The chain only ever uses more nonces.                                   *)
(***************************************************************************)
\* Using a nonce uses it, and undoes no other.
LEMMA UseNonceGrows ==
  ASSUME TypeOK, NEW n \in Nonces, UseNonce(n)
  PROVE  /\ base <= base' /\ UsedOnChain(n)'
         /\ \A k \in Nonces : UsedOnChain(k) => UsedOnChain(k)'
  BY DEF UseNonce, AdvanceBase, UsedOnChain, TypeOK, Nonces, NonceLimit

\* No step unuses a nonce.
LEMMA ChainGrows ==
  ASSUME TypeOK, [Next]_vars
  PROVE  base <= base' /\ \A k \in Nonces : UsedOnChain(k) => UsedOnChain(k)'
<1>1. CASE base' = base /\ spent' = spent
  BY <1>1 DEF UsedOnChain, TypeOK, NonceLimit
<1>2. CASE \E t \in pending : Apply(t) \/ RefuseInBlock(t)
  BY <1>2, UseNonceGrows DEF Apply, RefuseInBlock, TypeOK, PendingTx
<1>3. CASE \E w \in Writes : Calls(w)
  BY <1>1, <1>3 DEF Calls, CallWrite, CallWithNonce, CallNextNonce, CallWaitUntilLanded, Enter, chainVars
<1>4. CASE \E w \in Writes : Steps(w)
  BY <1>1, <1>4 DEF Steps, ReadRPC, ReadAPI, ReadFails, Take, Reserve, Under, SubmitSigned, Observe,
     BuildFails, Post, Settle, Fail, chainVars
<1>5. CASE \E m \in net : Network(m)
  BY <1>1, <1>5 DEF Network, RefuseBody, Forward, ForwardUnanswered, chainVars
<1>6. CASE ChainStep
  BY <1>1, <1>2, <1>6 DEF ChainStep, Drop, Release, OtherSubmits
<1>7. CASE Tick \/ UNCHANGED vars
  BY <1>1, <1>7 DEF Tick, vars, chainVars
<1> QED
  BY <1>3, <1>4, <1>5, <1>6, <1>7 DEF Next

(***************************************************************************)
(* At most once.  The caller's rule ties everything of a write that may    *)
(* land to one nonce, and the chain uses a nonce once.                     *)
(***************************************************************************)
OnceParts ==
    /\ OneNoncePerWrite /\ OneSubmissionPerAttempt
    /\ AppliedUsedItsNonce /\ AtMostOnce
    /\ UnreportedNeverRuns /\ FirstAttempt

OnceInv == TypeOK /\ CallsFollowDocs /\ OnceParts

\* Whether the caller is told that nothing it sent can land.
Unsent(w) == status[w] \in {"new", "reserved"}

\* A step that adds nothing of a write to the network or the mempool keeps the
\* invariant, provided it changes the nonce of a write, or tells its caller
\* that nothing can land, only when nothing can.
LEMMA OnceQuiet ==
  ASSUME OnceInv, [Next]_vars,
         applied' = applied, net' = net, attempt' = attempt,
         \A t \in pending' : t.write \in Writes =>
            \E u \in pending : u.write = t.write /\ u.nonce = t.nonce,
         \A w \in Writes : nonce'[w] # nonce[w] => NothingCanLand(w),
         \A w \in Writes : Unsent(w)' /\ pc'[w] # "sent" => NothingCanLand(w),
         \A w \in Writes : Unsent(w)' /\ pc'[w] = "sent" =>
            Unsent(w) /\ pc[w] = "sent" /\ answer'[w] \in {answer[w], "failure"}
  PROVE  OnceParts'
<1>1. \A w \in Writes : NothingCanLand(w) => NothingCanLand(w)'
  BY DEF NothingCanLand
<1>2. OneNoncePerWrite'
  <2>1. ASSUME NEW t \in pending', t.write \in Writes PROVE t.nonce = nonce'[t.write]
    BY <2>1 DEF OnceInv, OnceParts, OneNoncePerWrite, NothingCanLand
  <2>2. ASSUME NEW m \in net PROVE m.nonce = nonce'[m.write]
    BY <2>2 DEF OnceInv, OnceParts, OneNoncePerWrite, NothingCanLand, TypeOK, Submission
  <2> QED BY <2>1, <2>2 DEF OneNoncePerWrite
<1>3. OneSubmissionPerAttempt' /\ AtMostOnce'
  BY DEF OnceInv, OnceParts, OneSubmissionPerAttempt, AtMostOnce
<1>4. AppliedUsedItsNonce'
  <2> SUFFICES ASSUME NEW w \in Writes, applied[w] > 0 PROVE UsedOnChain(nonce[w])' 
    BY DEF AppliedUsedItsNonce
  <2>1. nonce'[w] = nonce[w] /\ nonce[w] \in Nonces /\ UsedOnChain(nonce[w])
    BY DEF OnceInv, OnceParts, TypeOK, NothingCanLand, AppliedUsedItsNonce
  <2>2. base <= base' /\ \A k \in Nonces : UsedOnChain(k) => UsedOnChain(k)'
    BY ChainGrows DEF OnceInv, OnceParts
  <2> QED BY <2>1, <2>2 DEF UsedOnChain
<1>5. UnreportedNeverRuns'
  BY <1>1 DEF UnreportedNeverRuns, Unsent
<1>6. FirstAttempt'
  BY <1>1 DEF OnceInv, OnceParts, FirstAttempt, Unsent, NothingCanLand
<1> QED BY <1>2, <1>3, <1>4, <1>5, <1>6 DEF OnceParts

\* A goroutine's step keeps the invariant.
LEMMA OnceStep ==
  ASSUME OnceInv, NEW w \in Writes, Calls(w) \/ Steps(w)
  PROVE  OnceParts'
<1> USE DEF Unsent
<1>0. Next /\ TypeOK /\ CallsFollowDocs
  BY DEF Next, OnceInv, OnceParts
<1>1. ASSUME NEW v \in Writes, Unsent(v), pc[v] # "sent" PROVE NothingCanLand(v)
  BY <1>1 DEF OnceInv, OnceParts, UnreportedNeverRuns
<1>2. CASE Calls(w)
  <2>1. /\ pending' = pending /\ applied' = applied /\ net' = net /\ attempt' = attempt
        /\ status' = status /\ pc[w] = "rest" /\ pc'[w] # "sent"
        /\ \A v \in Writes : v # w => pc'[v] = pc[v] /\ nonce'[v] = nonce[v]
        /\ nonce'[w] # nonce[w] => Unsent(w)
        /\ answer' = answer
    BY <1>0, <1>2 DEF Calls, CallWrite, CallWithNonce, CallNextNonce, CallWaitUntilLanded,
       Enter, TypeOK, chainVars
  <2>2. \A v \in Writes : nonce'[v] # nonce[v] => NothingCanLand(v)
    BY <1>1, <2>1
  <2>3. \A v \in Writes : Unsent(v)' /\ pc'[v] # "sent" => NothingCanLand(v)
    BY <1>1, <2>1
  <2> QED BY <1>0, <2>1, <2>2, <2>3, OnceQuiet
<1>3. CASE ReadRPC(w) \/ ReadAPI(w) \/ ReadFails(w)
  <2>1. /\ pending' = pending /\ applied' = applied /\ net' = net /\ attempt' = attempt
        /\ status' = status /\ nonce' = nonce /\ answer' = answer /\ pc[w] # "sent" /\ pc'[w] # "sent"
        /\ \A v \in Writes : v # w => pc'[v] = pc[v]
    BY <1>0, <1>3 DEF ReadRPC, ReadAPI, ReadFails, Reading, TypeOK, chainVars
  <2> QED BY <1>0, <1>1, <2>1, OnceQuiet
<1>4. CASE Take(w) \/ Reserve(w)
  <2>1. /\ pending' = pending /\ applied' = applied /\ net' = net /\ attempt' = attempt
        /\ answer' = answer /\ pc[w] # "sent" /\ pc'[w] # "sent" /\ Unsent(w)
        /\ \A v \in Writes : v # w => pc'[v] = pc[v] /\ nonce'[v] = nonce[v] /\ status'[v] = status[v]
    BY <1>0, <1>4 DEF Take, Reserve, Use, TypeOK, CallsFollowDocs, chainVars
  <2> QED BY <1>0, <1>1, <2>1, OnceQuiet
<1>5. CASE Under(w) \/ SubmitSigned(w) \/ Observe(w) \/ BuildFails(w)
  <2>1. /\ pending' = pending /\ applied' = applied /\ net' = net /\ attempt' = attempt
        /\ nonce' = nonce /\ answer' = answer /\ pc[w] # "sent" /\ pc'[w] # "sent"
        /\ Unsent(w)' => Unsent(w)
        /\ \A v \in Writes : v # w => pc'[v] = pc[v] /\ status'[v] = status[v]
    BY <1>0, <1>5 DEF Under, SubmitSigned, Observe, BuildFails, Use, TypeOK, chainVars
  <2>2. \A v \in Writes : Unsent(v)' /\ pc'[v] # "sent" => NothingCanLand(v)
    BY <1>1, <2>1
  <2> QED BY <1>0, <2>1, <2>2, OnceQuiet
<1>6. CASE Settle(w)
  <2>1. /\ pending' = pending /\ applied' = applied /\ net' = net /\ attempt' = attempt
        /\ nonce' = nonce /\ pc[w] = "sent" /\ pc'[w] = "rest"
        /\ \A v \in Writes : v # w =>
              pc'[v] = pc[v] /\ status'[v] = status[v] /\ answer'[v] = answer[v]
    BY <1>0, <1>6 DEF Settle, TypeOK, chainVars
  <2>2. Unsent(w)' => Unsent(w) /\ answer[w] \in {"refused", "badRequest", "refusedHeld"}
    BY <1>0, <1>6 DEF Settle, Remembers, Report, postTx, refusalOutcome, TypeOK, Answers
  <2>3. Unsent(w)' => NothingCanLand(w)
    BY <2>1, <2>2 DEF OnceInv, OnceParts, FirstAttempt
  <2> QED BY <1>0, <1>1, <2>1, <2>3, OnceQuiet
<1>7. CASE Fail(w)
  <2>1. /\ pending' = pending /\ applied' = applied /\ net' = net /\ attempt' = attempt
        /\ nonce' = nonce /\ pc' = pc /\ status' = status /\ answer'[w] = "failure"
        /\ \A v \in Writes : v # w => answer'[v] = answer[v]
    BY <1>0, <1>7 DEF Fail, TypeOK, chainVars
  <2> QED BY <1>0, <1>1, <2>1, OnceQuiet
<1>8. CASE Post(w)
  <2> DEFINE s == [write |-> w, nonce |-> nonce[w], attempt |-> attempt[w] + 1, forwarded |-> FALSE]
  <2>1. /\ pending' = pending /\ applied' = applied /\ base' = base /\ spent' = spent
        /\ status' = status /\ nonce' = nonce /\ answer' = answer
        /\ net' = net \cup {s} /\ pc[w] = "claimed" /\ pc'[w] = "sent"
        /\ attempt'[w] = attempt[w] + 1 /\ attempt[w] \in Nat
        /\ \A v \in Writes : v # w => pc'[v] = pc[v] /\ attempt'[v] = attempt[v]
    BY <1>0, <1>8 DEF Post, TypeOK, chainVars
  <2>2. \A m \in net : m.write \in Writes /\ m.attempt \in Nat /\ attempt[m.write] \in Nat
    BY <1>0 DEF TypeOK, Submission
  <2>3. OneNoncePerWrite' /\ AppliedUsedItsNonce' /\ AtMostOnce'
    BY <2>1 DEF OnceInv, OnceParts, OneNoncePerWrite, AppliedUsedItsNonce, AtMostOnce, UsedOnChain
  <2>4. OneSubmissionPerAttempt'
    <3>1. \A m \in net : m.attempt <= attempt[m.write] /\ m.attempt <= attempt'[m.write]
      BY <2>1, <2>2 DEF OnceInv, OnceParts, OneSubmissionPerAttempt
    <3>2. \A m \in net : m.write = w => m.attempt # s.attempt
      BY <2>1, <2>2, <3>1
    <3>3. s.write = w /\ s.attempt = attempt'[w] /\ attempt'[w] \in Nat
      BY <2>1
    <3>4. \A m, k \in net : k.write = m.write /\ k.attempt = m.attempt => k = m
      BY DEF OnceInv, OnceParts, OneSubmissionPerAttempt
    <3>5. \A m \in net' : m.attempt <= attempt'[m.write]
      BY <2>1, <3>1, <3>3
    <3> HIDE DEF s
    <3>6. \A m, k \in net' : k.write = m.write /\ k.attempt = m.attempt => k = m
      BY <2>1, <3>2, <3>3, <3>4
    <3> QED BY <3>5, <3>6 DEF OneSubmissionPerAttempt
  <2>5. \A v \in Writes : v # w => (NothingCanLand(v)' <=> NothingCanLand(v))
    BY <2>1 DEF NothingCanLand
  <2>6. UnreportedNeverRuns'
    BY <1>1, <2>1, <2>5 DEF UnreportedNeverRuns
  <2>7. answer[w] = "none"
    BY <1>0, <2>1 DEF CallsFollowDocs
  <2>8. Unsent(w) => NothingCanLand(w)
    BY <1>1, <2>1
  <2>9. FirstAttempt'
    <3> SUFFICES ASSUME NEW v \in Writes, pc'[v] = "sent", Unsent(v)
                 PROVE  /\ \A m \in net' : m.write = v => m.attempt = attempt'[v]
                        /\ \A m \in net' : m.write = v /\ ~m.forwarded =>
                              applied'[v] = 0 /\ \A t \in pending' : t.write # v
                        /\ answer'[v] \in {"refused", "badRequest", "refusedHeld"} => NothingCanLand(v)'
      BY <2>1 DEF FirstAttempt
    <3>1. CASE v = w
      BY <2>1, <2>7, <2>8, <3>1 DEF NothingCanLand
    <3>2. CASE v # w
      BY <2>1, <2>5, <3>2 DEF OnceInv, OnceParts, FirstAttempt
    <3> QED BY <3>1, <3>2
  <2> QED BY <2>3, <2>4, <2>6, <2>9 DEF OnceParts
<1> QED
  BY <1>2, <1>3, <1>4, <1>5, <1>6, <1>7, <1>8 DEF Steps

\* A step of the network or the API keeps the invariant.  A submission is
\* refused, or refused as held, only when nothing of its write is pending (it
\* would be a duplicate) and none took effect (its nonce would be used).
LEMMA OnceNetwork ==
  ASSUME OnceInv, NEW m \in net, Network(m)
  PROVE  OnceParts'
<1>0. /\ TypeOK /\ m \in Submission /\ m.write \in Writes
      /\ m.nonce = nonce[m.write] /\ m.attempt <= attempt[m.write]
  BY DEF OnceInv, OnceParts, TypeOK, Submission, OneNoncePerWrite, OneSubmissionPerAttempt
<1>1. /\ applied' = applied /\ base' = base /\ spent' = spent /\ status' = status
      /\ nonce' = nonce /\ pc' = pc /\ attempt' = attempt
  BY DEF Network, RefuseBody, Forward, ForwardUnanswered, chainVars
<1>2. \A w \in Writes : w # m.write => answer'[w] = answer[w]
  BY <1>0 DEF Network, RefuseBody, Forward, ForwardUnanswered, TypeOK
<1>3. \A t \in pending' : t \in pending \/ (t.write = m.write /\ t.nonce = m.nonce)
  BY DEF Network, RefuseBody, Forward, ForwardUnanswered, Admitted, chainVars
<1>4. \/ net' = net \ {m}
      \/ net' = (net \ {m}) \cup {[write |-> m.write, nonce |-> m.nonce, attempt |-> m.attempt, forwarded |-> TRUE]}
  BY <1>0 DEF Network, RefuseBody, Forward, ForwardUnanswered, Submission
<1>5. \A w \in Writes : w # m.write => (NothingCanLand(w) => NothingCanLand(w)')
  BY <1>1, <1>3, <1>4 DEF NothingCanLand
<1>6. ~NothingCanLand(m.write)
  BY DEF NothingCanLand
<1>7. OneNoncePerWrite'
  BY <1>0, <1>1, <1>3, <1>4 DEF OnceInv, OnceParts, OneNoncePerWrite
<1>8. OneSubmissionPerAttempt'
  <2> DEFINE f == [write |-> m.write, nonce |-> m.nonce, attempt |-> m.attempt, forwarded |-> TRUE]
  <2>1. /\ \A j, k \in net : k.write = j.write /\ k.attempt = j.attempt => k = j
        /\ \A k \in net : k.attempt <= attempt[k.write]
    BY DEF OnceInv, OnceParts, OneSubmissionPerAttempt
  <2>2. f.write = m.write /\ f.attempt = m.attempt
    OBVIOUS
  <2>3. net' \subseteq (net \ {m}) \cup {f}
    BY <1>4
  <2> HIDE DEF f
  <2>4. \A j, k \in (net \ {m}) \cup {f} : k.write = j.write /\ k.attempt = j.attempt => k = j
    BY <2>1, <2>2
  <2>5. \A k \in net' : k.attempt <= attempt[k.write]
    BY <1>0, <2>1, <2>2, <2>3
  <2> QED BY <1>1, <2>3, <2>4, <2>5 DEF OneSubmissionPerAttempt
<1>9. AppliedUsedItsNonce' /\ AtMostOnce'
  BY <1>1 DEF OnceInv, OnceParts, AppliedUsedItsNonce, AtMostOnce, UsedOnChain
<1>10. UnreportedNeverRuns'
  BY <1>1, <1>5, <1>6 DEF OnceInv, OnceParts, UnreportedNeverRuns
<1>11. FirstAttempt'
  <2> SUFFICES ASSUME NEW w \in Writes, pc[w] = "sent", Unsent(w)
               PROVE  /\ \A k \in net' : k.write = w => k.attempt = attempt[w]
                      /\ \A k \in net' : k.write = w /\ ~k.forwarded =>
                            applied[w] = 0 /\ \A t \in pending' : t.write # w
                      /\ answer'[w] \in {"refused", "badRequest", "refusedHeld"} => NothingCanLand(w)'
    BY <1>1 DEF FirstAttempt, Unsent
  <2>0. /\ \A k \in net : k.write = w => k.attempt = attempt[w]
        /\ \A k \in net : k.write = w /\ ~k.forwarded =>
              applied[w] = 0 /\ \A t \in pending : t.write # w
        /\ answer[w] \in {"refused", "badRequest", "refusedHeld"} => NothingCanLand(w)
    BY DEF OnceInv, OnceParts, FirstAttempt, Unsent
  <2>1. CASE w # m.write
    BY <1>1, <1>2, <1>3, <1>4, <1>5, <2>0, <2>1
  <2>2. CASE w = m.write
    <3>1. \A k \in net : k.write = w => k = m
      BY <2>0, <2>2 DEF OnceInv, OnceParts, OneSubmissionPerAttempt
    <3>2. \A k \in net' : k.write = w => k.attempt = attempt[w] /\ k.forwarded
      BY <1>4, <2>0, <2>2, <3>1
    <3>3. answer[w] \notin {"refused", "badRequest", "refusedHeld"}
      BY <1>6, <2>0, <2>2
    <3>4. CASE RefuseBody(m)
      <4>1. applied[w] = 0 /\ (\A t \in pending : t.write # w) /\ pending' = pending /\ net' = net \ {m}
        BY <2>0, <2>2, <3>4 DEF RefuseBody, chainVars
      <4> QED BY <1>1, <3>1, <3>2, <4>1 DEF NothingCanLand
    <3>5. CASE Forward(m)
      <4>1. PICK verdict \in CheckTx(m.write, m.nonce) :
              /\ pending' = IF verdict = "accepted" THEN Admitted(m.write, m.nonce, ~Awaited(m)) ELSE pending
              /\ net' = net \ {m}
              /\ answer' = IF Awaited(m) THEN [answer EXCEPT ![m.write] = AnswerTo(verdict)] ELSE answer
        BY <3>5 DEF Forward
      <4>2. ASSUME answer'[w] \in {"refused", "badRequest", "refusedHeld"}
            PROVE  verdict \in {"refused", "held"}
        BY <1>0, <2>2, <3>3, <4>1, <4>2 DEF AnswerTo, TypeOK, CheckTx
      <4>3. ASSUME verdict \in {"refused", "held"}
            PROVE  applied[w] = 0 /\ \A t \in pending : t.write # w
        <5>1. ~UsedOnChain(m.nonce) /\ ~\E t \in pending : t.write = w /\ t.nonce = m.nonce
          BY <2>2, <4>3 DEF CheckTx
        <5>2. \A t \in pending : t.write = w => t.nonce = m.nonce
          BY <1>0, <2>2 DEF OnceInv, OnceParts, OneNoncePerWrite
        <5>3. applied[w] \in Nat /\ ~(applied[w] > 0)
          BY <1>0, <2>2, <5>1 DEF OnceInv, OnceParts, AppliedUsedItsNonce, TypeOK
        <5> QED BY <5>1, <5>2, <5>3
      <4>4. ASSUME answer'[w] \in {"refused", "badRequest", "refusedHeld"} PROVE NothingCanLand(w)'
        BY <1>1, <3>1, <4>1, <4>2, <4>3, <4>4 DEF NothingCanLand
      <4> QED BY <3>2, <4>4
    <3>6. CASE ForwardUnanswered(m)
      BY <3>2, <3>3, <3>6 DEF ForwardUnanswered
    <3> QED BY <3>4, <3>5, <3>6 DEF Network
  <2> QED BY <2>1, <2>2
<1> QED BY <1>7, <1>8, <1>9, <1>10, <1>11 DEF OnceParts

\* A step of the chain keeps the invariant: the nonce of a transaction it
\* executes was not used, so no attempt of its write took effect before.
LEMMA OnceChain ==
  ASSUME OnceInv, ChainStep, UNCHANGED clientVars
  PROVE  OnceParts'
<1>0. /\ Next /\ TypeOK /\ net' = net /\ attempt' = attempt /\ nonce' = nonce
      /\ status' = status /\ pc' = pc /\ answer' = answer
  BY DEF Next, OnceInv, OnceParts, clientVars
<1>1. \A w \in Writes : Unsent(w) /\ pc[w] # "sent" => NothingCanLand(w)
  BY DEF OnceInv, OnceParts, UnreportedNeverRuns, Unsent
<1>2. ASSUME applied' = applied,
             \A t \in pending' : t.write \in Writes =>
                \E u \in pending : u.write = t.write /\ u.nonce = t.nonce
      PROVE  OnceParts'
  BY <1>0, <1>1, <1>2, OnceQuiet DEF Unsent
<1>3. ASSUME NEW t \in pending, RefuseInBlock(t) \/ Drop(t) \/ Release(t) PROVE OnceParts'
  BY <1>2, <1>3 DEF RefuseInBlock, UseNonce, Drop, Release, WithHold
<1>4. ASSUME NEW o \in Others, NEW n \in Nonces, OtherSubmits(o, n) PROVE OnceParts'
  BY <1>2, <1>4 DEF OtherSubmits, Admitted
<1>5. ASSUME NEW t \in pending, Apply(t) PROVE OnceParts'
  <2>1. CASE t.write \notin Writes
    BY <1>2, <1>5, <2>1 DEF Apply, UseNonce
  <2>2. CASE t.write \in Writes
    <3> DEFINE w == t.write
    <3>1. /\ pending' = {u \in pending : u.nonce # t.nonce}
          /\ applied'[w] = applied[w] + 1
          /\ \A v \in Writes : v # w => applied'[v] = applied[v]
          /\ ~UsedOnChain(t.nonce) /\ UseNonce(t.nonce)
      BY <1>0, <1>5, <2>2 DEF Apply, UseNonce, InWindow, UsedOnChain, TypeOK, NonceLimit, PendingTx, Nonces
    <3>2. t.nonce = nonce[w] /\ t.nonce \in Nonces /\ ~NothingCanLand(w)
      BY <1>0, <2>2 DEF OnceInv, OnceParts, OneNoncePerWrite, NothingCanLand, TypeOK, PendingTx
    <3>3. applied[w] = 0
      BY <1>0, <2>2, <3>1, <3>2 DEF OnceInv, OnceParts, AppliedUsedItsNonce, TypeOK
    <3>4. UsedOnChain(t.nonce)' /\ \A k \in Nonces : UsedOnChain(k) => UsedOnChain(k)'
      BY <1>0, <3>1, <3>2, UseNonceGrows
    <3>5. \A v \in Writes : v # w /\ NothingCanLand(v) => NothingCanLand(v)'
      BY <1>0, <3>1 DEF NothingCanLand
    <3>6. OneNoncePerWrite' /\ OneSubmissionPerAttempt'
      BY <1>0, <3>1 DEF OnceInv, OnceParts, OneNoncePerWrite, OneSubmissionPerAttempt
    <3>7. AppliedUsedItsNonce'
      <4> SUFFICES ASSUME NEW v \in Writes, applied'[v] > 0 PROVE UsedOnChain(nonce[v])'
        BY DEF AppliedUsedItsNonce
      <4>1. CASE v = w
        BY <1>0, <3>2, <3>4, <4>1 DEF UsedOnChain
      <4>2. CASE v # w
        <5>1. UsedOnChain(nonce[v]) /\ nonce[v] \in Nonces
          BY <1>0, <3>1, <4>2 DEF OnceInv, OnceParts, AppliedUsedItsNonce, TypeOK
        <5> QED BY <1>0, <3>4, <5>1 DEF UsedOnChain
      <4> QED BY <4>1, <4>2
    <3>8. AtMostOnce'
      BY <3>1, <3>3 DEF OnceInv, OnceParts, AtMostOnce
    <3>9. UnreportedNeverRuns'
      BY <1>0, <1>1, <3>2, <3>5 DEF UnreportedNeverRuns, Unsent
    <3>10. FirstAttempt'
      BY <1>0, <2>2, <3>1, <3>2, <3>5 DEF OnceInv, OnceParts, FirstAttempt
    <3> QED BY <3>6, <3>7, <3>8, <3>9, <3>10 DEF OnceParts
  <2> QED BY <2>1, <2>2
<1> QED BY <1>3, <1>4, <1>5 DEF ChainStep

\* The invariant holds: calls follow the documentation, and so everything of a
\* write that may land is under one nonce.
LEMMA OnceAlways == Spec => [](CallsFollowDocs /\ OnceParts)
<1>1. Init => CallsFollowDocs /\ OnceParts
  BY DEF Init, ChainInit, CallsFollowDocs, OnceParts, OneNoncePerWrite, OneSubmissionPerAttempt,
     AppliedUsedItsNonce, AtMostOnce, UnreportedNeverRuns, FirstAttempt, NothingCanLand
<1>2. TypeOK /\ CallsFollowDocs /\ OnceParts /\ [Next]_vars => CallsFollowDocs' /\ OnceParts'
  <2> SUFFICES ASSUME OnceInv, [Next]_vars PROVE CallsFollowDocs' /\ OnceParts'
    BY DEF OnceInv
  <2>1. CallsFollowDocs'
    BY DocsNext DEF OnceInv
  <2>2. ASSUME applied' = applied, net' = net, attempt' = attempt, nonce' = nonce,
               status' = status, pc' = pc, answer' = answer,
               \A t \in pending' : \E u \in pending : u.write = t.write /\ u.nonce = t.nonce
        PROVE  OnceParts'
    BY <2>2, OnceQuiet DEF Unsent, OnceInv, OnceParts, UnreportedNeverRuns
  <2>3. CASE Tick
    BY <2>1, <2>2, <2>3 DEF Tick, Aged, WithHold
  <2>4. CASE UNCHANGED vars
    BY <2>1, <2>2, <2>4 DEF vars, chainVars, clientVars
  <2> QED BY <2>1, <2>3, <2>4, OnceStep, OnceNetwork, OnceChain DEF Next
<1> QED BY <1>1, <1>2, TypeCorrect, PTL DEF Spec

\* AtMostOnce: a write sent again as WriteError and WithNonce say takes effect at
\* most once.
THEOREM WritesRunAtMostOnce == Spec => []AtMostOnce
<1>1. OnceParts => AtMostOnce
  BY DEF OnceParts
<1> QED BY <1>1, OnceAlways, PTL

\* What the caller remembers, the code has reported.
LEMMA MemoryAlways == Spec => []MemoryOfReports
<1>1. Init => MemoryOfReports
  BY DEF Init, MemoryOfReports
<1>2. TypeOK /\ CallsFollowDocs /\ MemoryOfReports /\ [Next]_vars => MemoryOfReports'
  <2> SUFFICES ASSUME TypeOK, CallsFollowDocs, MemoryOfReports, [Next]_vars PROVE MemoryOfReports'
    OBVIOUS
  <2>1. ASSUME NEW w \in Writes, status'[w] \notin {"new", "reserved"},
               status'[w] = status[w] \/ status[w] \in {"mayLand", "accepted"},
               reports'[w] = reports[w]
        PROVE  ~(reports'[w] \subseteq {"refused"})
    BY <2>1 DEF MemoryOfReports
  <2>2. ASSUME status' = status, reports' = reports PROVE MemoryOfReports'
    BY <2>2 DEF MemoryOfReports
  <2>3. ASSUME NEW w \in Writes, Calls(w) PROVE MemoryOfReports'
    BY <2>2, <2>3 DEF Calls, CallWrite, CallWithNonce, CallNextNonce, CallWaitUntilLanded, Enter
  <2>4. ASSUME NEW w \in Writes, Steps(w) PROVE MemoryOfReports'
    <3>1. CASE ReadRPC(w) \/ ReadAPI(w) \/ ReadFails(w) \/ Take(w) \/ SubmitSigned(w)
               \/ BuildFails(w) \/ Post(w) \/ Fail(w)
      BY <2>2, <3>1 DEF ReadRPC, ReadAPI, ReadFails, Take, SubmitSigned, BuildFails, Post, Fail
    <3>2. CASE Reserve(w)
      BY <3>2 DEF Reserve, TypeOK, MemoryOfReports
    <3>3. CASE Under(w) \/ Observe(w)
      <4>1. /\ reports' = reports
            /\ \A v \in Writes : status'[v] = status[v] \/ status[v] \in {"mayLand", "accepted"}
        BY <3>3 DEF Under, Observe, Use, TypeOK, CallsFollowDocs
      <4> QED BY <2>1, <4>1 DEF MemoryOfReports
    <3>4. CASE Settle(w)
      <4> DEFINE r == Report(postTx(answer[w]))
      <4>1. /\ reports'[w] = reports[w] \cup {r} /\ status'[w] = Remembers(w, r)
            /\ \A v \in Writes : v # w => reports'[v] = reports[v] /\ status'[v] = status[v]
        BY <3>4 DEF Settle, TypeOK
      <4> HIDE DEF r
      <4>2. ASSUME r # "refused" PROVE MemoryOfReports'
        BY <4>1, <4>2 DEF MemoryOfReports
      <4>3. ASSUME r = "refused" PROVE MemoryOfReports'
        BY <4>1, <4>3 DEF MemoryOfReports, Remembers
      <4> QED BY <4>2, <4>3
    <3> QED BY <2>4, <3>1, <3>2, <3>3, <3>4 DEF Steps
  <2>5. ASSUME NEW m \in net, Network(m) PROVE MemoryOfReports'
    BY <2>2, <2>5 DEF Network, RefuseBody, Forward, ForwardUnanswered
  <2>6. CASE (ChainStep /\ UNCHANGED clientVars) \/ Tick \/ UNCHANGED vars
    BY <2>2, <2>6 DEF Tick, vars, clientVars
  <2> QED BY <2>3, <2>4, <2>5, <2>6 DEF Next
<1> QED BY <1>1, <1>2, TypeCorrect, OnceAlways, PTL DEF Spec

\* RefusedNeverRuns: nothing of a write all of whose submissions were reported
\* refused is pending or on its way, and nothing of it ran.
THEOREM RefusedWritesNeverRun == Spec => []RefusedNeverRuns
<1>1. OnceParts /\ MemoryOfReports => RefusedNeverRuns
  BY DEF OnceParts, UnreportedNeverRuns, MemoryOfReports, RefusedNeverRuns
<1> QED BY <1>1, OnceAlways, MemoryAlways, PTL

(***************************************************************************)
(* What the client knows used stays known.                                 *)
(***************************************************************************)
\* merge and the operations on the account it returns forget nothing.
LEMMA MergedGrows ==
  ASSUME TypeOK, NEW w \in Writes, read[w] # NoState, NEW n \in Nonces, KnownUsed(acct, n)
  PROVE  KnownUsed(merge(acct, read[w]), n)
  BY MergeKnown DEF TypeOK

\* No step makes the client forget that a nonce is used.
LEMMA KnowledgeStep ==
  ASSUME TypeOK, Next, NEW n \in Nonces, KnownUsed(acct, n)
  PROVE  KnownUsed(acct, n)'
<1>0. acct \in Account /\ nonce \in [Writes -> Nonces]
  BY DEF TypeOK
<1>1. CASE acct' = acct
  BY <1>1 DEF KnownUsed
<1>2. ASSUME NEW w \in Writes, read[w] # NoState, NEW k \in Nonces,
             \/ acct' = merge(acct, read[w])
             \/ acct' = take(merge(acct, read[w]), k)
             \/ acct' = reserve(merge(acct, read[w]), k)
             \/ acct' = begin(merge(acct, read[w]), k)
      PROVE  KnownUsed(acct, n)'
  <2> DEFINE mg == merge(acct, read[w])
  <2>1. mg \in Account /\ KnownUsed(mg, n)
    BY <1>2, MergeReadType, MergedGrows
  <2> HIDE DEF mg
  <2>2. take(mg, k).base = mg.base /\ take(mg, k).used = mg.used
    BY <1>2, <2>1, TakeClaims
  <2>3. reserve(mg, k).base = mg.base /\ reserve(mg, k).used = mg.used
    BY <1>2, <2>1, ReserveClaims
  <2>4. begin(mg, k).base = mg.base /\ begin(mg, k).used = mg.used
    BY <1>2, <2>1, BeginClaims
  <2>5. acct' = mg \/ acct' = take(mg, k) \/ acct' = reserve(mg, k) \/ acct' = begin(mg, k)
    BY <1>2 DEF mg
  <2>6. acct'.base = mg.base /\ acct'.used = mg.used
    BY <2>2, <2>3, <2>4, <2>5
  <2> QED BY <2>1, <2>6 DEF KnownUsed
<1>3. ASSUME NEW w \in Writes, acct' = begin(acct, nonce[w]) PROVE KnownUsed(acct, n)'
  BY <1>0, <1>3, BeginClaims DEF KnownUsed
<1>4. ASSUME NEW w \in Writes, NEW o, acct' = settle(acct, nonce[w], o) PROVE KnownUsed(acct, n)'
  BY <1>0, <1>4, SettleClaims DEF KnownUsed
<1>5. CASE Tick
  BY <1>0, <1>5, ElapseClaims DEF Tick, KnownUsed
<1>6. ASSUME NEW w \in Writes, Take(w) PROVE KnownUsed(acct, n)'
  <2>1. merge(acct, read[w]) \in Account /\ read[w] # NoState
    BY <1>6, MergeReadType DEF Take, Use
  <2>2. ASSUME NEW k \in Free(merge(acct, read[w])) PROVE k \in Nonces
    BY <2>1, FreeNonce
  <2> QED BY <1>2, <1>6, <2>1, <2>2 DEF Take
<1>7. ASSUME NEW w \in Writes, Reserve(w) PROVE KnownUsed(acct, n)'
  <2>1. merge(acct, read[w]) \in Account /\ read[w] # NoState
    BY <1>7, MergeReadType DEF Reserve, Use
  <2>2. ASSUME NEW k \in Free(merge(acct, read[w])) PROVE k \in Nonces
    BY <2>1, FreeNonce
  <2> QED BY <1>2, <1>7, <2>1, <2>2 DEF Reserve
<1>8. ASSUME NEW w \in Writes, Under(w) PROVE KnownUsed(acct, n)'
  BY <1>0, <1>2, <1>8 DEF Under, Use
<1>9. ASSUME NEW w \in Writes, Observe(w) PROVE KnownUsed(acct, n)'
  BY <1>0, <1>2, <1>9 DEF Observe, Use
<1>10. ASSUME NEW w \in Writes, SubmitSigned(w) \/ BuildFails(w) \/ Settle(w)
       PROVE  KnownUsed(acct, n)'
  BY <1>3, <1>4, <1>10 DEF SubmitSigned, BuildFails, Settle
<1>11. ASSUME NEW w \in Writes, Calls(w) PROVE acct' = acct
  BY <1>11 DEF Calls, CallWrite, CallWithNonce, CallNextNonce, CallWaitUntilLanded, Enter
<1>12. ASSUME NEW w \in Writes, ReadRPC(w) \/ ReadAPI(w) \/ ReadFails(w) \/ Post(w) \/ Fail(w)
       PROVE  acct' = acct
  BY <1>12 DEF ReadRPC, ReadAPI, ReadFails, Post, Fail
<1>13. ASSUME NEW m \in net, Network(m) PROVE acct' = acct
  BY <1>13 DEF Network, RefuseBody, Forward, ForwardUnanswered
<1>14. ASSUME UNCHANGED clientVars PROVE acct' = acct
  BY <1>14 DEF clientVars
<1>15. ASSUME NEW w \in Writes, Steps(w) PROVE KnownUsed(acct, n)'
  BY <1>1, <1>6, <1>7, <1>8, <1>9, <1>10, <1>12, <1>15 DEF Steps
<1> QED
  BY <1>1, <1>5, <1>11, <1>13, <1>14, <1>15 DEF Next

\* KnowledgeGrows holds: no step, whatever old answer it merges, makes the
\* client forget that a nonce is used (merge, settle).
THEOREM KnowledgeIsKept == Spec => KnowledgeGrows
<1>1. TypeOK /\ [Next]_vars => [\A n \in Nonces : KnownUsed(acct, n) => KnownUsed(acct, n)']_vars
  BY KnowledgeStep
<1> QED
  BY <1>1, TypeCorrect, PTL DEF Spec, KnowledgeGrows

(***************************************************************************)
(* What the client knows used is used on the chain.                        *)
(***************************************************************************)
SoundParts == KnowledgeIsSound /\ ReadIsSound /\ AnswerIsSound /\ LandedIsTrue

\* What an account record claims to be used is used.
Sound(a) == a.base <= base /\ \A n \in Nonces : KnownUsed(a, n) => UsedOnChain(n)

\* KnowledgeIsSound in terms of what is known used.
LEMMA SoundKnown ==
  ASSUME TypeOK
  PROVE  KnowledgeIsSound <=> Sound(acct)
  BY DEF TypeOK, KnowledgeIsSound, Sound, KnownUsed, UsedOnChain, Account, Nonces, NonceLimit

\* Folding in an answer that was true when it was given adds nothing untrue.
LEMMA SoundMerge ==
  ASSUME TypeOK, SoundParts, NEW w \in Writes, read[w] # NoState
  PROVE  Sound(merge(acct, read[w]))
<1>1. acct \in Account /\ read[w] \in AccountNonceState /\ base \in Nat
  BY DEF TypeOK, NonceLimit
<1>2. read[w].Base <= base /\ \A n \in Nonces : IsUsed(read[w], n) => UsedOnChain(n)
  BY <1>1 DEF SoundParts, ReadIsSound, IsUsed, UsedOnChain, AccountNonceState, Nonces, NonceLimit
<1>3. Sound(acct)
  BY SoundKnown DEF SoundParts
<1>4. \A n \in Nonces : KnownUsed(merge(acct, read[w]), n) <=> KnownUsed(acct, n) \/ IsUsed(read[w], n)
  BY <1>1, MergeKnown
<1>5. merge(acct, read[w]).base = acct.base \/ merge(acct, read[w]).base = read[w].Base
  BY <1>1, MergeBase
<1> QED BY <1>2, <1>3, <1>4, <1>5 DEF Sound

\* A step that changes neither the chain nor what is waited for keeps the
\* invariant, if the account it leaves is sound and so is what it reports.
LEMMA SoundQuiet ==
  ASSUME TypeOK, TypeOK', SoundParts, base' = base, spent' = spent,
         Sound(acct'),
         \A w \in Writes : read'[w] \in {read[w], NoState},
         \A w \in Writes : answer'[w] = "refusedUsed" =>
            answer[w] = "refusedUsed" /\ nonce'[w] = nonce[w],
         \A w \in Writes : status'[w] \in {"landed", "used"} =>
            nonce'[w] = nonce[w] /\ (status[w] \in {"landed", "used"} \/ UsedOnChain(nonce[w]))
  PROVE  SoundParts'
<1>1. KnowledgeIsSound'
  BY DEF Sound, KnowledgeIsSound, KnownUsed, UsedOnChain, TypeOK, Account
<1>2. ReadIsSound'
  BY DEF SoundParts, ReadIsSound, UsedOnChain
<1>3. AnswerIsSound'
  BY DEF SoundParts, AnswerIsSound, UsedOnChain
<1>4. LandedIsTrue'
  BY DEF SoundParts, LandedIsTrue, UsedOnChain
<1> QED BY <1>1, <1>2, <1>3, <1>4 DEF SoundParts

\* A goroutine's step keeps the invariant.
LEMMA SoundStep ==
  ASSUME TypeOK, CallsFollowDocs, SoundParts, NEW w \in Writes, Calls(w) \/ Steps(w)
  PROVE  SoundParts'
<1>0. /\ TypeOK' /\ Sound(acct) /\ acct \in Account /\ nonce[w] \in Nonces
      /\ \A v \in Writes : status[v] \in {"landed", "used"} => UsedOnChain(nonce[v])
  BY TypeStep, SoundKnown DEF SoundParts, LandedIsTrue, TypeOK
<1>1. base' = base /\ spent' = spent
  BY DEF Calls, CallWrite, CallWithNonce, CallNextNonce, CallWaitUntilLanded, Enter, Steps, ReadRPC,
     ReadAPI, ReadFails, Take, Reserve, Under, SubmitSigned, Observe, BuildFails, Post, Settle, Fail, chainVars
<1>2. ASSUME NEW a, NEW b \in Account, Sound(b), a.base = b.base, a.used = b.used PROVE Sound(a)
  BY <1>2 DEF Sound, KnownUsed
<1>3. CASE Calls(w)
  <2>1. /\ acct' = acct /\ read' = read /\ answer' = answer /\ status' = status /\ pc[w] = "rest"
        /\ \A v \in Writes : v # w => nonce'[v] = nonce[v]
        /\ status[w] \in {"landed", "used"} => nonce'[w] = nonce[w]
    BY <1>3 DEF Calls, CallWrite, CallWithNonce, CallNextNonce, CallWaitUntilLanded, Enter, TypeOK
  <2>2. answer[w] = "none"
    BY <2>1 DEF CallsFollowDocs
  <2> QED BY <1>0, <1>1, <2>1, <2>2, SoundQuiet
<1>4. CASE ReadRPC(w) \/ ReadAPI(w)
  <2>1. /\ acct' = acct /\ answer' = answer /\ status' = status /\ nonce' = nonce
        /\ read'[w] \in {RPCState, APIState}
        /\ \A v \in Writes : v # w => read'[v] = read[v]
    BY <1>4 DEF ReadRPC, ReadAPI, TypeOK
  <2>2. /\ read'[w].Base = base
        /\ \A i \in read'[w].Used : (base + 1 + i) \in spent
    BY <2>1 DEF RPCState, APIState
  <2>3. ReadIsSound'
    BY <1>1, <2>1, <2>2 DEF SoundParts, ReadIsSound, UsedOnChain, TypeOK, NonceLimit
  <2> QED BY <1>1, <2>1, <2>3 DEF SoundParts, KnowledgeIsSound, AnswerIsSound, LandedIsTrue, UsedOnChain
<1>5. CASE ReadFails(w) \/ Post(w)
  <2>1. acct' = acct /\ answer' = answer /\ status' = status /\ nonce' = nonce /\ read' = read
    BY <1>5 DEF ReadFails, Post
  <2> QED BY <1>0, <1>1, <2>1, SoundQuiet
<1>6. CASE Fail(w)
  <2>1. /\ acct' = acct /\ status' = status /\ nonce' = nonce /\ read' = read
        /\ answer'[w] = "failure" /\ \A v \in Writes : v # w => answer'[v] = answer[v]
    BY <1>6 DEF Fail, TypeOK
  <2> QED BY <1>0, <1>1, <2>1, SoundQuiet
<1>7. CASE Take(w) \/ Reserve(w)
  <2> DEFINE mg == merge(acct, read[w])
  <2>1. mg \in Account /\ Sound(mg)
    BY <1>7, MergeReadType, SoundMerge DEF Take, Reserve, Use
  <2>2. \A n \in Free(mg) : n \in Nonces
    BY <2>1, FreeNonce
  <2>3. /\ \A n \in Nonces : take(mg, n).base = mg.base /\ take(mg, n).used = mg.used
        /\ \A n \in Nonces : reserve(mg, n).base = mg.base /\ reserve(mg, n).used = mg.used
    BY <2>1, TakeClaims, ReserveClaims
  <2>4. acct'.base = mg.base /\ acct'.used = mg.used
    BY <1>7, <2>2, <2>3 DEF Take, Reserve
  <2>5. Sound(acct')
    BY <1>2, <2>1, <2>4
  <2>6. /\ answer' = answer /\ pc[w] # "sent" /\ status'[w] \notin {"landed", "used"}
        /\ \A v \in Writes : read'[v] \in {read[v], NoState}
        /\ \A v \in Writes : v # w => nonce'[v] = nonce[v] /\ status'[v] = status[v]
    BY <1>7 DEF Take, Reserve, Use, TypeOK, CallsFollowDocs
  <2>7. answer[w] = "none"
    BY <2>6 DEF CallsFollowDocs
  <2> QED BY <1>0, <1>1, <2>5, <2>6, <2>7, SoundQuiet
<1>8. CASE Under(w) \/ Observe(w)
  <2> DEFINE mg == merge(acct, read[w])
  <2>1. mg \in Account /\ Sound(mg)
    BY <1>8, MergeReadType, SoundMerge DEF Under, Observe, Use
  <2>2. begin(mg, nonce[w]).base = mg.base /\ begin(mg, nonce[w]).used = mg.used
    BY <1>0, <2>1, BeginClaims
  <2>3. acct'.base = mg.base /\ acct'.used = mg.used
    BY <1>8, <2>2 DEF Under, Observe
  <2>4. Sound(acct')
    BY <1>2, <2>1, <2>3
  <2>5. IsUsed(view(mg), nonce[w]) => UsedOnChain(nonce[w])
    BY <1>0, <2>1, ViewKnown DEF Sound
  <2>6. /\ answer' = answer /\ nonce' = nonce
        /\ \A v \in Writes : read'[v] \in {read[v], NoState}
        /\ \A v \in Writes : v # w => status'[v] = status[v]
        /\ status'[w] = status[w] \/ IsUsed(view(mg), nonce[w])
    BY <1>8 DEF Under, Observe, Use, TypeOK
  <2> QED BY <1>0, <1>1, <2>4, <2>5, <2>6, SoundQuiet
<1>9. CASE SubmitSigned(w) \/ BuildFails(w)
  <2>1. /\ answer' = answer /\ nonce' = nonce /\ read' = read /\ status' = status
        /\ acct' = begin(acct, nonce[w]) \/ acct' = settle(acct, nonce[w], "nonceFree")
    BY <1>9 DEF SubmitSigned, BuildFails
  <2>2. Sound(begin(acct, nonce[w]))
    BY <1>0, <1>2, BeginClaims
  <2>3. Sound(settle(acct, nonce[w], "nonceFree"))
    BY <1>0, SettleClaims DEF Sound
  <2> QED BY <1>0, <1>1, <2>1, <2>2, <2>3, SoundQuiet
<1>10. CASE Settle(w)
  <2> DEFINE o == postTx(answer[w])
  <2>1. o = "nonceUsed" => UsedOnChain(nonce[w])
    BY DEF postTx, refusalOutcome, SoundParts, AnswerIsSound
  <2>2. acct' = settle(acct, nonce[w], o)
    BY <1>10 DEF Settle
  <2>3. Sound(acct')
    BY <1>0, <2>1, <2>2, SettleClaims DEF Sound
  <2>4. /\ nonce' = nonce /\ read' = read /\ answer'[w] = "none"
        /\ \A v \in Writes : v # w => status'[v] = status[v] /\ answer'[v] = answer[v]
        /\ status'[w] \in {"landed", "used"} => status[w] = status'[w] \/ o = "nonceUsed"
    BY <1>10 DEF Settle, Remembers, Report, TypeOK
  <2> QED BY <1>0, <1>1, <2>1, <2>3, <2>4, SoundQuiet
<1> QED
  BY <1>3, <1>4, <1>5, <1>6, <1>7, <1>8, <1>9, <1>10 DEF Steps

\* The invariant holds: knowledge, stored answers and reports are true.
LEMMA SoundAlways == Spec => []SoundParts
<1>1. Init => SoundParts
  BY DEF Init, ChainInit, NewAccount, SoundParts, KnowledgeIsSound, ReadIsSound, AnswerIsSound, LandedIsTrue
<1>2. TypeOK /\ CallsFollowDocs /\ OnceParts /\ SoundParts /\ [Next]_vars => SoundParts'
  <2> SUFFICES ASSUME TypeOK, CallsFollowDocs, OnceParts, SoundParts, [Next]_vars PROVE SoundParts' OBVIOUS
  <2>1. /\ base \in Nat /\ base <= base'
        /\ \A k \in Nonces : UsedOnChain(k) => UsedOnChain(k)'
    BY ChainGrows DEF TypeOK, NonceLimit
  <2>2. ASSUME read' = read, answer' = answer, status' = status, nonce' = nonce,
               acct'.base = acct.base, acct'.used = acct.used
        PROVE  SoundParts'
    <3>1. KnowledgeIsSound'
      <4>1. acct.base \in Nat /\ acct.used \subseteq Nonces /\ base' \in Int
        BY <2>1, TypeNext DEF TypeOK, Account, Nonces, NonceLimit
      <4> QED BY <2>1, <2>2, <4>1 DEF SoundParts, KnowledgeIsSound, UsedOnChain
    <3>2. ReadIsSound'
      <4> SUFFICES ASSUME NEW w \in Writes, read[w] # NoState
                   PROVE  read[w].Base <= base' /\ \A i \in read[w].Used : UsedOnChain(read[w].Base + 1 + i)'
        BY <2>2 DEF ReadIsSound, UsedOnChain
      <4>1. read[w] \in AccountNonceState /\ base' \in Int
        BY TypeNext DEF TypeOK, NonceLimit
      <4>2. \A i \in read[w].Used : (read[w].Base + 1 + i) \in Nonces /\ UsedOnChain(read[w].Base + 1 + i)
        BY <4>1 DEF AccountNonceState, Nonces, NonceLimit, SoundParts, ReadIsSound
      <4>3. read[w].Base <= base'
        BY <2>1, <4>1 DEF AccountNonceState, NonceLimit, SoundParts, ReadIsSound
      <4> QED BY <2>1, <2>2, <4>2, <4>3 DEF UsedOnChain
    <3>3. AnswerIsSound' /\ LandedIsTrue'
      <4>1. \A w \in Writes : nonce[w] \in Nonces
        BY DEF TypeOK
      <4> QED BY <2>1, <2>2, <4>1 DEF SoundParts, AnswerIsSound, LandedIsTrue, UsedOnChain
    <3> QED BY <3>1, <3>2, <3>3 DEF SoundParts
  <2>3. CASE \E m \in net : Network(m)
    <3>1. PICK m \in net : Network(m)
      BY <2>3
    <3>2. m.write \in Writes /\ m.nonce = nonce[m.write]
      BY DEF TypeOK, Submission, OnceParts, OneNoncePerWrite
    <3>3. /\ acct' = acct /\ read' = read /\ status' = status /\ nonce' = nonce
          /\ base' = base /\ spent' = spent
      BY <3>1 DEF Network, RefuseBody, Forward, ForwardUnanswered, chainVars
    <3>4. /\ \A v \in Writes : v # m.write => answer'[v] = answer[v]
          /\ answer'[m.write] = "refusedUsed" =>
                answer[m.write] = "refusedUsed" \/ UsedOnChain(m.nonce)
      BY <3>1, <3>2 DEF Network, RefuseBody, Forward, ForwardUnanswered, AnswerTo, CheckTx, TypeOK
    <3>5. AnswerIsSound'
      BY <3>2, <3>3, <3>4 DEF SoundParts, AnswerIsSound, UsedOnChain
    <3> QED BY <3>3, <3>5 DEF SoundParts, KnowledgeIsSound, ReadIsSound, LandedIsTrue, UsedOnChain
  <2>4. CASE ChainStep /\ UNCHANGED clientVars
    BY <2>2, <2>4 DEF clientVars
  <2>5. CASE Tick
    BY <2>2, <2>5, ElapseClaims DEF Tick, TypeOK
  <2>6. CASE UNCHANGED vars
    BY <2>2, <2>6 DEF vars, clientVars
  <2> QED BY <2>3, <2>4, <2>5, <2>6, SoundStep DEF Next
<1> QED BY <1>1, <1>2, TypeCorrect, OnceAlways, PTL DEF Spec

\* ReportsAreTrue holds: the client takes no nonce for used that the chain has
\* not used, and no report that a write landed, or that its nonce is used, is
\* premature (merge, settle, WaitUntilLanded, writeUnder).
THEOREM KnowledgeIsTrue == Spec => []ReportsAreTrue
<1>1. SoundParts => ReportsAreTrue
  BY DEF SoundParts, ReportsAreTrue
<1> QED BY <1>1, SoundAlways, PTL

(***************************************************************************)
(* The nonces handed out are ones the chain takes.                         *)
(***************************************************************************)
\* A write's nonce is in or below the chain's window, and a write without one
\* is new and not about to use it.
WindowInv ==
    \A w \in Writes :
        /\ nonce[w] <= base + NonceWindow /\ nonce[w] < NonceLimit
        /\ nonce[w] = 0 => status[w] = "new" /\ pc[w] \notin Sending \cup {"under", "wait"}

\* The nonce pick finds free is in the chain's window, though the state it was
\* picked from is old.
LEMMA FreeInWindow ==
  ASSUME TypeOK, SoundParts, NEW w \in Writes, read[w] # NoState, NEW n \in Free(merge(acct, read[w]))
  PROVE  n \in 1..(base + NonceWindow) /\ n < NonceLimit
<1> DEFINE mg == merge(acct, read[w])
<1>1. mg \in Account /\ mg.base <= base /\ base \in Nat
  BY MergeReadType, SoundMerge DEF Sound, TypeOK, NonceLimit
<1> HIDE DEF mg
<1>2. n \in Free(mg)
  BY DEF mg
<1> QED BY <1>1, <1>2, WindowAssumption, MaxAssumption DEF Free, Account, Nonces, NonceLimit

\* A goroutine's step keeps the window.
LEMMA WindowStep ==
  ASSUME TypeOK, SoundParts, WindowInv, CallerNonces = {}, NEW w \in Writes, Calls(w) \/ Steps(w)
  PROVE  WindowInv'
<1>0. base' = base /\ nonce \in [Writes -> Nonces] /\ pc \in [Writes -> {"rest"} \cup Reading \cup Sending]
      /\ status \in [Writes -> Statuses]
  BY DEF Calls, CallWrite, CallWithNonce, CallNextNonce, CallWaitUntilLanded, Enter, Steps, ReadRPC,
     ReadAPI, ReadFails, Take, Reserve, Under, SubmitSigned, Observe, BuildFails, Post, Settle, Fail, chainVars, TypeOK
<1>1. CASE Calls(w)
  BY <1>0, <1>1 DEF WindowInv, Calls, CallWrite, CallWithNonce, CallNextNonce, CallWaitUntilLanded, Enter, Sending
<1>2. CASE ReadRPC(w) \/ ReadAPI(w) \/ ReadFails(w) \/ Fail(w) \/ Post(w) \/ BuildFails(w)
  BY <1>0, <1>2 DEF WindowInv, ReadRPC, ReadAPI, ReadFails, Fail, Post, BuildFails, Sending
<1>3. CASE SubmitSigned(w) \/ Under(w) \/ Observe(w)
  BY <1>0, <1>3 DEF WindowInv, SubmitSigned, Under, Observe, Use, Sending
<1>4. CASE Settle(w)
  BY <1>0, <1>4 DEF WindowInv, Settle, Sending
<1>5. CASE Take(w)
  BY <1>0, <1>5, FreeInWindow DEF WindowInv, Take, Use, Sending
<1>6. CASE Reserve(w)
  BY <1>0, <1>6, FreeInWindow DEF WindowInv, Reserve, Use, Sending
<1> QED BY <1>1, <1>2, <1>3, <1>4, <1>5, <1>6 DEF Steps

\* HandedOutInWindow holds for every window and range of nonces: no write of a
\* caller who leaves the nonce to the client is signed under one the chain
\* refuses as too far ahead or too large (pick, take, reserve).
THEOREM NoncesAreInWindow == Spec => []HandedOutInWindow
<1> DEFINE Inv == CallerNonces = {} => WindowInv
<1>1. Init => Inv
  BY WindowAssumption, MaxAssumption DEF Init, ChainInit, WindowInv, Sending, NonceLimit
<1>2. TypeOK /\ SoundParts /\ Inv /\ [Next]_vars => Inv'
  <2> SUFFICES ASSUME TypeOK, SoundParts, CallerNonces = {}, WindowInv, [Next]_vars PROVE WindowInv'
    OBVIOUS
  <2>1. base \in Nat /\ base' \in Nat /\ base <= base' /\ nonce \in [Writes -> Nonces]
    BY ChainGrows, TypeNext DEF TypeOK, NonceLimit
  <2>2. ASSUME nonce' = nonce, status' = status, pc' = pc PROVE WindowInv'
    BY <2>1, <2>2, WindowAssumption, MaxAssumption DEF WindowInv, Nonces
  <2>3. CASE \E m \in net : Network(m)
    BY <2>2, <2>3 DEF Network, RefuseBody, Forward, ForwardUnanswered
  <2>4. CASE ChainStep /\ UNCHANGED clientVars
    BY <2>2, <2>4 DEF clientVars
  <2>5. CASE Tick
    BY <2>2, <2>5 DEF Tick
  <2>6. CASE UNCHANGED vars
    BY <2>2, <2>6 DEF vars, clientVars
  <2> QED BY <2>3, <2>4, <2>5, <2>6, WindowStep DEF Next
<1>3. TypeOK /\ Inv => HandedOutInWindow
  BY DEF WindowInv, HandedOutInWindow, TypeOK, Nonces, NonceLimit
<1> HIDE DEF Inv
<1> QED BY <1>1, <1>2, <1>3, TypeCorrect, SoundAlways, PTL DEF Spec

(***************************************************************************)
(* A nonce the node holds for the client stays taken by the client.        *)
(***************************************************************************)
\* The submission t was admitted from has not returned, and its answer will
\* hold the nonce or say that it is used: what is left of it in the network was
\* forwarded, so its body can no longer be refused.
Answerable(t) ==
    /\ pc[t.write] = "sent" /\ nonce[t.write] = t.nonce
    /\ answer[t.write] \in {"none", "ok", "failure", "refusedUsed"}
    /\ \A m \in net : m.write = t.write /\ m.attempt = attempt[t.write] => m.forwarded

\* The account a holds the nonce of t at least as long as the node does.
HeldBy(a, t) == a.claims[t.nonce].present /\ a.claims[t.nonce].held >= t.hold

\* The transactions HeldWhilePending is about.
Holding(t) == t.write \in Writes /\ ~t.late /\ t.hold > 0 /\ ~KnownUsed(acct, t.nonce)

HeldInv == \A t \in pending : Holding(t) => Answerable(t) \/ HeldBy(acct, t)

\* The operations on the account keep a hold on a nonce not known used.
LEMMA HeldOps ==
  ASSUME NEW a \in Account, NEW t \in PendingTx, t.hold > 0, HeldBy(a, t), NEW k \in Nonces
  PROVE  /\ \A s \in AccountNonceState : ~KnownUsed(merge(a, s), t.nonce) => HeldBy(merge(a, s), t)
         /\ k \in Free(a) => HeldBy(take(a, k), t) /\ HeldBy(reserve(a, k), t)
         /\ HeldBy(begin(a, k), t)
         /\ \A o : ~KnownUsed(settle(a, k, o), t.nonce) => HeldBy(settle(a, k, o), t)
<1>0. t.nonce \in Nonces /\ t.hold \in Nat /\ a.claims[t.nonce] \in Claim
  BY DEF PendingTx, Account
<1>1. a.claims[t.nonce].held \in Nat /\ a.claims[t.nonce].held > 0 /\ a.claims[t.nonce].present
  BY <1>0 DEF Claim, HeldBy
<1>2. ASSUME NEW s \in AccountNonceState, ~KnownUsed(merge(a, s), t.nonce)
      PROVE  HeldBy(merge(a, s), t)
  BY <1>0, <1>1, <1>2, MergeHolds DEF HeldBy
<1>3. ASSUME k \in Free(a)
      PROVE  HeldBy(take(a, k), t) /\ HeldBy(reserve(a, k), t)
  <2>1. k # t.nonce
    BY <1>1, <1>3, FreeNonce
  <2>2. take(a, k).claims[t.nonce] = a.claims[t.nonce] /\ reserve(a, k).claims[t.nonce] = a.claims[t.nonce]
    BY ZenonT(60), <1>0, <2>1, TakeClaims, ReserveClaims
  <2> QED BY <2>2 DEF HeldBy
<1>4. HeldBy(begin(a, k), t)
  <2>1. CASE k = t.nonce
    <3>1. begin(a, k).claims[k] = [present |-> TRUE, inFlight |-> a.claims[k].inFlight + 1,
                                   reserved |-> 0, held |-> a.claims[k].held]
      BY BeginClaims
    <3>2. begin(a, k).claims[k].present /\ begin(a, k).claims[k].held = a.claims[k].held
      BY <3>1
    <3> QED BY <2>1, <3>2 DEF HeldBy
  <2>2. CASE k # t.nonce
    <3>1. begin(a, k).claims[t.nonce] = a.claims[t.nonce]
      BY <1>0, <2>2, BeginFrame
    <3> QED BY <3>1 DEF HeldBy
  <2> QED BY <2>1, <2>2
<1>5. ASSUME NEW o, ~KnownUsed(settle(a, k, o), t.nonce)
      PROVE  HeldBy(settle(a, k, o), t)
  <2>1. CASE k = t.nonce
    <3>1. ~KnownUsed(a, k) /\ o # "nonceUsed" /\ settle(a, k, o) \in Account
      BY <1>0, <1>5, <2>1, SettleClaims
    <3>2. settle(a, k, o).claims[k].present /\ settle(a, k, o).claims[k].held >= a.claims[k].held
      BY <1>1, <2>1, <3>1, SettleHolds
    <3>3. settle(a, k, o).claims[k].held \in Nat
      BY <3>1 DEF Account, Claim
    <3> QED BY <1>0, <1>1, <2>1, <3>2, <3>3 DEF HeldBy
  <2>2. CASE k # t.nonce
    <3>1. settle(a, k, o).claims[t.nonce] = a.claims[t.nonce]
      BY <1>0, <2>2, SettleClaims
    <3> QED BY <3>1 DEF HeldBy
  <2> QED BY <2>1, <2>2
<1> QED BY <1>2, <1>3, <1>4, <1>5

\* A goroutine's step keeps the hold of a nonce that it does not find used.
LEMMA HeldByStep ==
  ASSUME TypeOK, NEW w \in Writes, Calls(w) \/ Steps(w), NEW t \in PendingTx, t.hold > 0,
         HeldBy(acct, t), ~KnownUsed(acct', t.nonce)
  PROVE  HeldBy(acct', t)
<1>0. acct \in Account /\ t.nonce \in Nonces /\ nonce[w] \in Nonces
  BY DEF TypeOK, PendingTx
<1>1. CASE acct' = acct
  BY <1>1
<1>2. CASE Calls(w) \/ ReadRPC(w) \/ ReadAPI(w) \/ ReadFails(w) \/ Post(w) \/ Fail(w)
  BY <1>1, <1>2 DEF Calls, CallWrite, CallWithNonce, CallNextNonce, CallWaitUntilLanded, Enter,
     ReadRPC, ReadAPI, ReadFails, Post, Fail
<1>3. ASSUME read[w] # NoState, NEW mg, mg = merge(acct, read[w]), mg.base = acct'.base, mg.used = acct'.used
      PROVE  mg \in Account /\ HeldBy(mg, t)
  <2>1. mg \in Account /\ read[w] \in AccountNonceState
    BY <1>3, MergeReadType DEF TypeOK
  <2>2. ~KnownUsed(mg, t.nonce)
    BY <1>3 DEF KnownUsed
  <2> QED BY <1>0, <1>3, <2>1, <2>2, HeldOps
<1>4. CASE Take(w) \/ Reserve(w)
  <2> DEFINE mg == merge(acct, read[w])
  <2>1. read[w] # NoState /\ mg \in Account
    BY <1>4, MergeReadType DEF Take, Reserve, Use
  <2>2. CASE acct' = mg
    BY <1>3, <2>1, <2>2
  <2>3. ASSUME NEW n \in Free(mg), acct' = take(mg, n) \/ acct' = reserve(mg, n)
        PROVE  HeldBy(acct', t)
    <3>1. n \in Nonces
      BY <2>1, FreeNonce
    <3>2. mg.base = acct'.base /\ mg.used = acct'.used
      BY <2>1, <2>3, <3>1, TakeClaims, ReserveClaims
    <3>3. HeldBy(mg, t)
      BY <1>3, <2>1, <3>2
    <3> HIDE DEF mg
    <3> QED BY <2>1, <2>3, <3>1, <3>3, HeldOps
  <2> QED BY <1>4, <2>2, <2>3 DEF Take, Reserve
<1>5. CASE Under(w) \/ Observe(w)
  <2> DEFINE mg == merge(acct, read[w])
  <2>1. read[w] # NoState /\ mg \in Account
    BY <1>5, MergeReadType DEF Under, Observe, Use
  <2>2. CASE acct' = mg
    BY <1>3, <2>1, <2>2
  <2>3. CASE acct' = begin(mg, nonce[w])
    <3>1. mg.base = acct'.base /\ mg.used = acct'.used
      BY <1>0, <2>1, <2>3, BeginFrame
    <3>2. HeldBy(mg, t)
      BY <1>3, <2>1, <3>1
    <3> HIDE DEF mg
    <3> QED BY <1>0, <2>1, <2>3, <3>2, HeldOps
  <2> QED BY <1>5, <2>2, <2>3 DEF Under, Observe
<1>6. CASE SubmitSigned(w)
  BY <1>0, <1>6, HeldOps DEF SubmitSigned
<1>7. CASE BuildFails(w) \/ Settle(w)
  <2>1. \E o : acct' = settle(acct, nonce[w], o)
    BY <1>7 DEF BuildFails, Settle
  <2> QED BY <1>0, <2>1, HeldOps
<1> QED BY <1>2, <1>4, <1>5, <1>6, <1>7 DEF Steps

\* A goroutine's step that ends the submission of t holds the nonce; any other
\* leaves the submission answerable.
LEMMA AnswerableStep ==
  ASSUME TypeOK, NEW w \in Writes, Calls(w) \/ Steps(w), NEW t \in PendingTx, t.write \in Writes,
         Answerable(t), ~KnownUsed(acct', t.nonce)
  PROVE  Answerable(t)' \/ HeldBy(acct', t)
<1> DEFINE v == t.write
<1>0. /\ acct \in Account /\ t.nonce \in Nonces /\ t.hold \in 0..NonceHold
      /\ pc \in [Writes -> {"rest"} \cup Reading \cup Sending] /\ nonce \in [Writes -> Nonces]
      /\ answer \in [Writes -> Answers] /\ attempt \in [Writes -> Nat]
  BY DEF TypeOK, PendingTx
<1>1. CASE w # v
  <2>1. pc'[v] = pc[v] /\ nonce'[v] = nonce[v] /\ answer'[v] = answer[v] /\ attempt'[v] = attempt[v]
    BY <1>0, <1>1 DEF Calls, CallWrite, CallWithNonce, CallNextNonce, CallWaitUntilLanded, Enter,
       Steps, ReadRPC, ReadAPI, ReadFails, Take, Reserve, Under, SubmitSigned, Observe, Use, BuildFails,
       Post, Settle, Fail
  <2>2. \A m \in net' : m \in net \/ m.write = w
    BY DEF Calls, CallWrite, CallWithNonce, CallNextNonce, CallWaitUntilLanded, Enter,
       Steps, ReadRPC, ReadAPI, ReadFails, Take, Reserve, Under, SubmitSigned, Observe, Use, BuildFails,
       Post, Settle, Fail
  <2> QED BY <1>1, <2>1, <2>2 DEF Answerable
<1>2. CASE w = v
  <2>1. Settle(w) \/ Fail(w)
    BY <1>2 DEF Answerable, Calls, CallWrite, CallWithNonce, CallNextNonce, CallWaitUntilLanded, Enter,
       Steps, ReadRPC, ReadAPI, ReadFails, Take, Reserve, Under, SubmitSigned, Observe, Use, BuildFails,
       Post, Reading
  <2>2. CASE Fail(w)
    BY <1>0, <1>2, <2>2 DEF Fail, Answerable
  <2>3. CASE Settle(w)
    <3>1. answer[w] \in {"ok", "failure", "refusedUsed"} /\ nonce[w] = t.nonce
      BY <1>2, <2>3 DEF Settle, Answerable
    <3>2. postTx(answer[w]) \in {"nonceAccepted", "nonceUnknown", "nonceUsed"}
      BY <3>1 DEF postTx, refusalOutcome
    <3>3. PICK o : o \in {"nonceAccepted", "nonceUnknown", "nonceUsed"} /\ acct' = settle(acct, t.nonce, o)
      BY <2>3, <3>1, <3>2 DEF Settle
    <3>4. o # "nonceUsed" /\ ~KnownUsed(acct, t.nonce)
      BY <1>0, <3>3, SettleClaims
    <3>5. acct'.claims[t.nonce].present /\ acct'.claims[t.nonce].held = NonceHold
      BY <1>0, <3>3, <3>4, SettleHolds DEF HoldingOutcomes
    <3> QED BY <1>0, <3>5 DEF HeldBy
  <2> QED BY <2>1, <2>2, <2>3
<1> QED BY <1>1, <1>2

\* A goroutine's step keeps the nonces of pending transactions taken.
LEMMA HeldStep ==
  ASSUME TypeOK, HeldInv, NEW w \in Writes, Calls(w) \/ Steps(w)
  PROVE  HeldInv'
<1>1. pending' = pending
  BY DEF Calls, CallWrite, CallWithNonce, CallNextNonce, CallWaitUntilLanded, Enter,
     Steps, ReadRPC, ReadAPI, ReadFails, Take, Reserve, Under, SubmitSigned, Observe, BuildFails,
     Post, Settle, Fail, chainVars
<1> SUFFICES ASSUME NEW t \in pending, Holding(t)' PROVE Answerable(t)' \/ HeldBy(acct', t)
  BY <1>1 DEF HeldInv, HeldBy
<1>2. t \in PendingTx /\ t.nonce \in Nonces
  BY DEF TypeOK, PendingTx
<1>3. t.write \in Writes /\ t.hold > 0 /\ ~t.late /\ ~KnownUsed(acct', t.nonce)
  BY DEF Holding, KnownUsed
<1>4. ~KnownUsed(acct, t.nonce)
  <2>1. Next
    BY DEF Next
  <2> QED BY <1>2, <1>3, <2>1, KnowledgeStep DEF KnownUsed
<1>5. Answerable(t) \/ HeldBy(acct, t)
  BY <1>3, <1>4 DEF HeldInv, Holding
<1> QED BY <1>2, <1>3, <1>5, HeldByStep, AnswerableStep

\* A step of the network or the API keeps them taken: a transaction admitted in
\* time is that of the attempt its write waits for, and once one of a write is
\* pending, CheckTx has no other answer to that write than "used" or a failure.
LEMMA HeldNetwork ==
  ASSUME TypeOK, OnceParts, HeldInv, NEW m \in net, Network(m)
  PROVE  HeldInv'
<1>0. m.write \in Writes /\ m.nonce = nonce[m.write] /\ m \in Submission
  BY DEF TypeOK, Submission, OnceParts, OneNoncePerWrite
<1>1. acct' = acct /\ nonce' = nonce /\ pc' = pc /\ attempt' = attempt
  BY DEF Network, RefuseBody, Forward, ForwardUnanswered
<1>2. \A v \in Writes : v # m.write => answer'[v] = answer[v]
  BY <1>0 DEF Network, RefuseBody, Forward, ForwardUnanswered, TypeOK
<1>3. \A k \in net' : k \in net \ {m} \/ (k.write = m.write /\ k.forwarded)
  BY <1>0 DEF Network, RefuseBody, Forward, ForwardUnanswered, Submission
<1>4. ASSUME NEW t \in pending, t.write \in Writes, Answerable(t) PROVE Answerable(t)'
  <2>1. \A k \in net' : k.write = t.write /\ k.attempt = attempt[t.write] => k.forwarded
    BY <1>3, <1>4 DEF Answerable
  <2>2. answer'[t.write] \in {"none", "ok", "failure", "refusedUsed"}
    <3>1. CASE t.write # m.write
      BY <1>2, <1>4, <3>1 DEF Answerable
    <3>2. CASE t.write = m.write
      <4>1. ~RefuseBody(m)
        BY <1>4, <3>2 DEF RefuseBody, Awaited, Answerable
      <4>2. CheckTx(m.write, m.nonce) \subseteq {"used", "duplicate"}
        BY <1>0, <1>4, <3>2 DEF CheckTx, Answerable
      <4>3. answer'[m.write] \in {answer[m.write], "refusedUsed", "failure"}
        BY <1>0, <4>1, <4>2 DEF Network, Forward, ForwardUnanswered, AnswerTo, TypeOK
      <4> QED BY <1>4, <3>2, <4>3 DEF Answerable
    <3> QED BY <3>1, <3>2
  <2> QED BY <1>1, <1>4, <2>1, <2>2 DEF Answerable
<1>5. ASSUME NEW t \in pending' \ pending, ~t.late PROVE Answerable(t)'
  <2>1. ~RefuseBody(m)
    BY <1>5 DEF RefuseBody, chainVars
  <2>2. t.write = m.write /\ t.nonce = m.nonce /\ Awaited(m)
    <3>1. t = [write |-> m.write, nonce |-> m.nonce, hold |-> NonceHold, late |-> ~Awaited(m)]
      BY <1>5, <2>1 DEF Network, Forward, ForwardUnanswered, Admitted
    <3> QED BY <1>5, <3>1
  <2>3. answer'[m.write] \in {"none", "ok"}
    <3>1. CASE ForwardUnanswered(m)
      BY <2>2, <3>1 DEF ForwardUnanswered, Awaited
    <3>2. CASE Forward(m)
      <4>1. PICK verdict \in CheckTx(m.write, m.nonce) :
                /\ verdict # "accepted" => pending' = pending
                /\ answer' = [answer EXCEPT ![m.write] = AnswerTo(verdict)]
        BY <2>2, <3>2 DEF Forward
      <4> QED BY <1>0, <1>5, <4>1 DEF AnswerTo, TypeOK
    <3> QED BY <2>1, <3>1, <3>2 DEF Network
  <2>4. \A k \in net : k.write = m.write /\ k.attempt = attempt[m.write] => k = m
    BY <2>2 DEF Awaited, OnceParts, OneSubmissionPerAttempt
  <2> QED BY <1>0, <1>1, <1>3, <2>2, <2>4, <2>3 DEF Answerable, Awaited
<1>6. ASSUME NEW t \in pending', Holding(t)' PROVE Answerable(t)' \/ HeldBy(acct', t)
  <2>1. t.write \in Writes /\ ~t.late /\ Holding(t)
    BY <1>1, <1>6 DEF Holding, KnownUsed
  <2> QED BY <1>1, <1>4, <1>5, <2>1 DEF HeldInv
<1> QED BY <1>6 DEF HeldInv, HeldBy

\* Time takes as much from the client's hold as from the node's.
LEMMA HeldTick ==
  ASSUME TypeOK, HeldInv, Tick
  PROVE  HeldInv'
<1> SUFFICES ASSUME NEW u \in pending', Holding(u)' PROVE Answerable(u)' \/ HeldBy(acct', u)
  BY DEF HeldInv, HeldBy
<1>1. PICK t \in pending : u = WithHold(t, Less(t.hold))
  BY DEF Tick, Aged
<1>2. /\ u.write = t.write /\ u.nonce = t.nonce /\ u.hold = Less(t.hold) /\ (u.late <=> t.late)
      /\ t \in PendingTx /\ t.nonce \in Nonces /\ t.hold \in Nat
  BY <1>1 DEF WithHold, TypeOK, PendingTx
<1>3. /\ acct \in Account /\ acct' = Elapse(acct) /\ pc' = pc /\ nonce' = nonce /\ answer' = answer
      /\ net' = net /\ attempt' = attempt
  BY DEF Tick, TypeOK
<1>4. acct'.base = acct.base /\ acct'.used = acct.used
  BY <1>3, ElapseClaims
<1>5. Holding(t)
  BY <1>2, <1>4 DEF Holding, KnownUsed, Less
<1>6. CASE Answerable(t)
  BY <1>2, <1>3, <1>6 DEF Answerable
<1>7. CASE HeldBy(acct, t)
  <2>1. acct.claims[t.nonce] \in Claim /\ acct.claims[t.nonce].held \in Nat
    BY <1>2, <1>3 DEF Account, Claim
  <2>2. acct'.claims[t.nonce].held = Less(acct.claims[t.nonce].held)
    BY <1>2, <1>3, ElapseHolds
  <2>3. acct'.claims[t.nonce].present <=> acct.claims[t.nonce].present
    BY <1>2, <1>3, ElapseClaims
  <2> QED BY <1>2, <1>7, <2>1, <2>2, <2>3 DEF HeldBy, Less
<1> QED BY <1>5, <1>6, <1>7 DEF HeldInv

\* The chain only shortens its holds, or holds a nonce for another client.
LEMMA HeldChain ==
  ASSUME TypeOK, HeldInv, ChainStep, UNCHANGED clientVars
  PROVE  HeldInv'
<1>1. ASSUME NEW t \in pending' PROVE t \in pending \/ t.hold = 0 \/ t.late
  BY <1>1 DEF ChainStep, Apply, RefuseInBlock, UseNonce, Drop, Release, OtherSubmits, Admitted, WithHold
<1> QED BY <1>1 DEF HeldInv, HeldBy, Holding, Answerable, KnownUsed, clientVars

\* HeldWhilePending holds for every window and hold: as long as the node may
\* hold a nonce for a transaction the client submitted, the client gives the
\* nonce to no other write, whatever a later attempt under it was answered
\* (settle, NonceHold).
THEOREM HeldNoncesStayTaken == Spec => []HeldWhilePending
<1>1. Init => HeldInv
  BY DEF Init, ChainInit, HeldInv
<1>2. TypeOK /\ OnceParts /\ HeldInv /\ [Next]_vars => HeldInv'
  <2> SUFFICES ASSUME TypeOK, OnceParts, HeldInv, [Next]_vars PROVE HeldInv'
    OBVIOUS
  <2>1. CASE UNCHANGED vars
    BY <2>1 DEF vars, clientVars, chainVars, HeldInv, HeldBy, Holding, Answerable, KnownUsed
  <2> QED BY <2>1, HeldStep, HeldNetwork, HeldChain, HeldTick DEF Next
<1>3. TypeOK /\ ExclusiveInFlight /\ HeldInv => HeldWhilePending
  <2> SUFFICES ASSUME TypeOK, ExclusiveInFlight, HeldInv, NEW t \in pending, Holding(t)
               PROVE  acct.claims[t.nonce].present /\ live(acct.claims[t.nonce])
    BY DEF HeldWhilePending, Holding
  <2>1. /\ t.nonce \in Nonces /\ t.hold \in Nat /\ t.hold > 0 /\ t.write \in Writes
        /\ ~KnownUsed(acct, t.nonce) /\ acct.claims[t.nonce] \in Claim
    BY DEF TypeOK, PendingTx, Account, Holding
  <2>2. CASE Answerable(t)
    <3>1. Submitting(t.write, t.nonce)
      BY <2>2 DEF Answerable, Submitting, Sending
    <3> QED BY <2>1, <3>1 DEF ExclusiveInFlight, live
  <2>3. CASE HeldBy(acct, t)
    BY <2>1, <2>3 DEF HeldBy, live, Claim
  <2> QED BY <2>2, <2>3 DEF HeldInv
<1> QED BY <1>1, <1>2, <1>3, TypeCorrect, OnceAlways, NoncesAreExclusive, PTL DEF Spec

(***************************************************************************)
(* Signed writes implement the ledger of WriteLedger.                      *)
(***************************************************************************)
LedgerInv == OnceInv /\ SoundParts

\* What a step of the ledger takes for granted: the client forgets nothing,
\* and the invariant holds after it.
LedgerStep ==
    /\ LedgerInv /\ LedgerInv'
    /\ \A n \in Nonces : KnownUsed(acct, n) => KnownUsed(acct, n)'

ChainSame == base' = base /\ spent' = spent /\ applied' = applied

PhasesSame == \A v \in Writes : PhaseOf(v)' = PhaseOf(v)

\* What is known used is used.
LEMMA KnownAreUsed ==
  ASSUME TypeOK, SoundParts, NEW n \in Nonces, KnownUsed(acct, n)
  PROVE  UsedOnChain(n)
  BY SoundKnown DEF SoundParts, Sound

\* A step that leaves the chain alone only learns.
LEMMA LearnsMaps ==
  ASSUME LedgerStep, ChainSame
  PROVE  Ledger!Learns
<1>1. \A n \in Nonces : UsedOnChain(n)' <=> UsedOnChain(n)
  BY DEF ChainSame, UsedOnChain
<1>2. \A n \in Nonces : KnownUsed(acct, n)' => UsedOnChain(n)'
  BY DEF LedgerStep, LedgerInv, OnceInv, SoundParts, KnowledgeIsSound, KnownUsed, UsedOnChain,
     TypeOK, Account, Nonces, NonceLimit
<1> QED BY <1>1, <1>2 DEF LedgerStep, ChainSame, Ledger!Learns

\* A step that changes neither phase nor nonce of a write is no more than that.
LEMMA QuietMaps ==
  ASSUME LedgerStep, ChainSame, PhasesSame, nonce' = nonce
  PROVE  Ledger!Next
<1>1. Ledger!Learn
  BY LearnsMaps DEF Ledger!Learn, PhasesSame
<1> QED BY <1>1 DEF Ledger!Next

\* A write without an attempt that may run is given a nonce.
LEMMA SignMaps ==
  ASSUME LedgerStep, ChainSame, PhasesSame, NEW w \in Writes, NEW n \in Nonces,
         PhaseOf(w) = "clear", nonce' = [nonce EXCEPT ![w] = n]
  PROVE  Ledger!Next
<1>1. Ledger!Sign(w, n)
  BY LearnsMaps DEF Ledger!Sign, PhasesSame
<1> QED BY <1>1 DEF Ledger!Next

\* A write goes from one phase to another: it is sent, refused, or closed under
\* a nonce the client knows used.
LEMMA PhaseMaps ==
  ASSUME LedgerStep, ChainSame, NEW w \in Writes, nonce' = nonce,
         \A v \in Writes : v # w => PhaseOf(v)' = PhaseOf(v),
         \/ PhaseOf(w) = "clear" /\ PhaseOf(w)' = "open"
         \/ PhaseOf(w) = "open" /\ PhaseOf(w)' = "clear" /\ applied[w] = 0
         \/ PhaseOf(w) = "open" /\ PhaseOf(w)' = "closed" /\ KnownUsed(acct, nonce[w])'
  PROVE  Ledger!Next
<1> DEFINE to == PhaseOf(w)'
<1>0. nonce[w] \in Nonces
  BY DEF LedgerStep, LedgerInv, OnceInv, TypeOK
<1>1. Ledger!Moves(w, PhaseOf(w), to)
  BY DEF Ledger!Moves
<1>2. CASE PhaseOf(w) = "clear" /\ to = "open"
  <2>1. Ledger!Send(w)
    BY <1>1, <1>2, LearnsMaps DEF Ledger!Send
  <2> QED BY <2>1 DEF Ledger!Next
<1>3. CASE PhaseOf(w) = "open" /\ to = "clear" /\ applied[w] = 0
  <2>1. Ledger!Refuse(w)
    BY <1>1, <1>3, LearnsMaps DEF Ledger!Refuse
  <2> QED BY <2>1 DEF Ledger!Next
<1>4. CASE PhaseOf(w) = "open" /\ to = "closed" /\ KnownUsed(acct, nonce[w])'
  <2>1. Ledger!Close(w)
    BY <1>0, <1>1, <1>4, LearnsMaps DEF Ledger!Close
  <2> QED BY <2>1 DEF Ledger!Next
<1> QED BY <1>2, <1>3, <1>4

\* A call starts: at most the write gets a nonce of its caller's.
LEMMA CallMaps ==
  ASSUME LedgerStep, NEW w \in Writes, Calls(w)
  PROVE  Ledger!Next
<1>0. TypeOK /\ nonce \in [Writes -> Nonces]
  BY DEF LedgerStep, LedgerInv, OnceInv, TypeOK
<1>1. /\ ChainSame /\ status' = status /\ pc[w] = "rest" /\ pc'[w] # "sent"
      /\ \A v \in Writes : v # w => pc'[v] = pc[v]
      /\ \/ nonce' = nonce
         \/ status[w] = "new" /\ \E n \in CallerNonces : nonce' = [nonce EXCEPT ![w] = n]
  BY <1>0 DEF Calls, CallWrite, CallWithNonce, CallNextNonce, CallWaitUntilLanded, Enter, TypeOK,
     chainVars, ChainSame
<1>2. PhasesSame
  BY <1>1 DEF PhasesSame, PhaseOf
<1>3. CASE nonce' = nonce
  BY <1>1, <1>2, <1>3, QuietMaps
<1>4. ASSUME status[w] = "new", NEW n \in CallerNonces, nonce' = [nonce EXCEPT ![w] = n]
      PROVE  Ledger!Next
  BY <1>1, <1>2, <1>4, SignMaps DEF PhaseOf
<1> QED BY <1>1, <1>3, <1>4

\* A goroutine's step gives its write a nonce, sends it, has it refused or
\* closed, or only learns.
LEMMA StepMaps ==
  ASSUME LedgerStep, NEW w \in Writes, Steps(w)
  PROVE  Ledger!Next
<1>0. /\ TypeOK /\ CallsFollowDocs /\ acct \in Account /\ nonce \in [Writes -> Nonces]
      /\ UnreportedNeverRuns'
  BY DEF LedgerStep, LedgerInv, OnceInv, OnceParts, TypeOK
<1>1. ChainSame
  BY DEF Steps, ReadRPC, ReadAPI, ReadFails, Take, Reserve, Under, SubmitSigned, Observe, BuildFails,
     Post, Settle, Fail, chainVars, ChainSame
<1>2. CASE ReadRPC(w) \/ ReadAPI(w) \/ ReadFails(w) \/ SubmitSigned(w) \/ BuildFails(w) \/ Fail(w)
  <2>1. /\ status' = status /\ nonce' = nonce
        /\ \A v \in Writes : pc'[v] = pc[v] \/ (pc[v] # "sent" /\ pc'[v] # "sent")
    BY <1>0, <1>2 DEF ReadRPC, ReadAPI, ReadFails, SubmitSigned, BuildFails, Fail, Reading, TypeOK
  <2>2. PhasesSame
    BY <2>1 DEF PhasesSame, PhaseOf
  <2> QED BY <1>1, <2>1, <2>2, QuietMaps
<1>3. CASE Take(w) \/ Reserve(w)
  <2>1. /\ status[w] \in {"new", "reserved"} /\ status'[w] \in {"new", "reserved"}
        /\ pc[w] # "sent" /\ pc'[w] # "sent"
        /\ \A v \in Writes : v # w => pc'[v] = pc[v] /\ status'[v] = status[v]
    BY <1>0, <1>3 DEF Take, Reserve, Use, TypeOK, CallsFollowDocs
  <2>2. PhasesSame /\ PhaseOf(w) = "clear"
    BY <2>1 DEF PhasesSame, PhaseOf
  <2>3. read[w] # NoState
    BY <1>3 DEF Take, Reserve, Use
  <2>4. \A n \in Free(merge(acct, read[w])) : n \in Nonces
    BY <1>0, <2>3, MergeReadType, FreeNonce
  <2>5. CASE nonce' = nonce
    BY <1>1, <2>2, <2>5, QuietMaps
  <2>6. ASSUME NEW n \in Free(merge(acct, read[w])), nonce' = [nonce EXCEPT ![w] = n]
        PROVE  Ledger!Next
    BY <1>1, <2>2, <2>4, <2>6, SignMaps
  <2> QED BY <1>3, <2>5, <2>6 DEF Take, Reserve
<1>4. CASE Under(w) \/ Observe(w)
  <2> DEFINE mg == merge(acct, read[w])
  <2>1. mg \in Account /\ nonce[w] \in Nonces
    BY <1>0, <1>4, MergeReadType DEF Under, Observe, Use
  <2>2. /\ nonce' = nonce /\ pc[w] # "sent" /\ pc'[w] # "sent"
        /\ \A v \in Writes : v # w => pc'[v] = pc[v] /\ status'[v] = status[v]
    BY <1>0, <1>4 DEF Under, Observe, Use, TypeOK
  <2>3. \/ status'[w] = status[w]
        \/ /\ status[w] \in {"accepted", "mayLand"} /\ status'[w] \in {"used", "landed"}
           /\ acct' = mg /\ IsUsed(view(mg), nonce[w])
    BY <1>0, <1>4 DEF Under, Observe, Use, TypeOK, CallsFollowDocs
  <2>4. \A v \in Writes : v # w => PhaseOf(v)' = PhaseOf(v)
    BY <2>2 DEF PhaseOf
  <2>5. CASE status'[w] = status[w]
    <3>1. PhasesSame
      BY <2>2, <2>4, <2>5 DEF PhasesSame, PhaseOf
    <3> QED BY <1>1, <2>2, <3>1, QuietMaps
  <2>6. CASE /\ status[w] \in {"accepted", "mayLand"} /\ status'[w] \in {"used", "landed"}
             /\ acct' = mg /\ IsUsed(view(mg), nonce[w])
    <3>1. KnownUsed(acct, nonce[w])'
      BY <2>1, <2>2, <2>6, ViewKnown DEF KnownUsed
    <3>2. PhaseOf(w) = "open" /\ PhaseOf(w)' = "closed"
      BY <2>6 DEF PhaseOf
    <3> QED BY <1>1, <2>2, <2>4, <3>1, <3>2, PhaseMaps
  <2> QED BY <2>3, <2>5, <2>6
<1>5. CASE Post(w)
  <2>1. /\ nonce' = nonce /\ status' = status /\ pc[w] = "claimed" /\ pc'[w] = "sent"
        /\ \A v \in Writes : v # w => pc'[v] = pc[v]
    BY <1>0, <1>5 DEF Post, TypeOK
  <2>2. status[w] \in {"new", "reserved", "mayLand"}
    BY <1>0, <2>1 DEF CallsFollowDocs
  <2>3. \A v \in Writes : v # w => PhaseOf(v)' = PhaseOf(v)
    BY <2>1 DEF PhaseOf
  <2>4. PhaseOf(w)' = "open" /\ PhaseOf(w) \in {"clear", "open"}
    BY <2>1, <2>2 DEF PhaseOf
  <2>5. CASE PhaseOf(w) = "open"
    BY <1>1, <2>1, <2>3, <2>4, <2>5, QuietMaps DEF PhasesSame
  <2> QED BY <1>1, <2>1, <2>3, <2>4, <2>5, PhaseMaps
<1>6. CASE Settle(w)
  <2> DEFINE o == postTx(answer[w])
  <2>1. /\ nonce' = nonce /\ pc[w] = "sent" /\ pc'[w] = "rest" /\ status'[w] = Remembers(w, Report(o))
        /\ acct' = settle(acct, nonce[w], o) /\ nonce[w] \in Nonces
        /\ \A v \in Writes : v # w => pc'[v] = pc[v] /\ status'[v] = status[v]
    BY <1>0, <1>6 DEF Settle, TypeOK
  <2>2. status[w] \in {"new", "reserved", "mayLand"}
    BY <1>0, <2>1 DEF CallsFollowDocs
  <2>3. /\ PhaseOf(w) = "open"
        /\ \A v \in Writes : v # w => PhaseOf(v)' = PhaseOf(v)
    BY <2>1, <2>2 DEF PhaseOf
  <2>4. CASE status'[w] \in {"accepted", "mayLand"}
    <3>1. PhasesSame
      BY <2>3, <2>4 DEF PhasesSame, PhaseOf
    <3> QED BY <1>1, <2>1, <3>1, QuietMaps
  <2>5. CASE o = "nonceUsed"
    <3>1. KnownUsed(acct, nonce[w])'
      <4>1. KnownUsed(settle(acct, nonce[w], o), nonce[w])
        BY <1>0, <2>1, <2>5, SettleClaims
      <4> QED BY <2>1, <4>1 DEF KnownUsed
    <3>2. PhaseOf(w)' = "closed"
      BY <2>1, <2>5 DEF PhaseOf, Remembers, Report
    <3> QED BY <1>1, <2>1, <2>3, <3>1, <3>2, PhaseMaps
  <2>6. CASE status'[w] \in {"new", "reserved"}
    <3>1. PhaseOf(w)' = "clear"
      BY <2>1, <2>6 DEF PhaseOf
    <3>2. applied[w] = 0
      BY <1>0, <1>1, <2>1, <2>6 DEF UnreportedNeverRuns, NothingCanLand, ChainSame
    <3> QED BY <1>1, <2>1, <2>3, <3>1, <3>2, PhaseMaps
  <2>7. o = "nonceUsed" \/ status'[w] \in {"accepted", "mayLand"} \/ status'[w] \in {"new", "reserved"}
    BY <2>1, <2>2 DEF Remembers, Report, postTx, refusalOutcome
  <2> QED BY <2>4, <2>5, <2>6, <2>7
<1> QED BY <1>2, <1>3, <1>4, <1>5, <1>6 DEF Steps

\* Using a nonce uses it and no other, however far the base advances.
LEMMA UseNonceUsesOne ==
  ASSUME TypeOK, NEW n \in Nonces, InWindow(n), UseNonce(n)
  PROVE  \A k \in Nonces : UsedOnChain(k)' <=> UsedOnChain(k) \/ k = n
<1>1. PICK b \in base..(NonceLimit - 1) :
        /\ \A m \in (base + 1)..b : m \in spent \cup {n}
        /\ base' = b
        /\ spent' = {m \in spent \cup {n} : m > b}
  BY DEF UseNonce, AdvanceBase
<1>2. base \in Nat /\ b \in Nat /\ base <= b /\ n \in Nat /\ n > base /\ b \in Int
  BY DEF TypeOK, InWindow, Nonces, NonceLimit
<1> SUFFICES ASSUME NEW k \in Nonces PROVE UsedOnChain(k)' <=> UsedOnChain(k) \/ k = n
  OBVIOUS
<1>3. k \in Nat
  BY DEF Nonces
<1>4. CASE k <= base
  BY <1>1, <1>2, <1>3, <1>4 DEF UsedOnChain
<1>5. CASE k > base /\ k <= b
  <2>1. k \in (base + 1)..b
    BY <1>2, <1>3, <1>5
  <2>2. k \in spent \cup {n}
    BY <1>1, <2>1
  <2> QED BY <1>1, <1>2, <1>3, <1>5, <2>2 DEF UsedOnChain
<1>6. CASE k > b
  BY <1>1, <1>2, <1>3, <1>6 DEF UsedOnChain
<1> QED BY <1>2, <1>3, <1>4, <1>5, <1>6

\* A transaction executed in a block is a run of an open write, or uses a nonce
\* for nothing of this client's; every other step of the chain is unseen.
LEMMA ChainMaps ==
  ASSUME LedgerStep, ChainStep, UNCHANGED clientVars
  PROVE  Ledger!Next
<1>0. /\ TypeOK /\ nonce' = nonce /\ acct' = acct /\ PhasesSame
      /\ \A n \in Nonces : KnownUsed(acct, n)' <=> KnownUsed(acct, n)
  BY DEF LedgerStep, LedgerInv, OnceInv, clientVars, PhasesSame, PhaseOf, KnownUsed
<1>1. ASSUME NEW t \in pending, Drop(t) \/ Release(t) PROVE Ledger!Next
  BY <1>0, <1>1, QuietMaps DEF Drop, Release, ChainSame
<1>2. ASSUME NEW o \in Others, NEW n \in Nonces, OtherSubmits(o, n) PROVE Ledger!Next
  BY <1>0, <1>2, QuietMaps DEF OtherSubmits, ChainSame
<1>3. ASSUME NEW t \in pending, Apply(t) \/ RefuseInBlock(t) PROVE Ledger!Next
  <2>1. /\ t.nonce \in Nonces /\ t.write \in Writes \cup Others /\ InWindow(t.nonce)
        /\ ~UsedOnChain(t.nonce) /\ UseNonce(t.nonce)
    BY <1>0, <1>3 DEF Apply, RefuseInBlock, InWindow, UsedOnChain, TypeOK, PendingTx, Nonces, NonceLimit
  <2>2. \A k \in Nonces : UsedOnChain(k)' <=> UsedOnChain(k) \/ k = t.nonce
    BY <1>0, <2>1, UseNonceUsesOne
  <2>3. Ledger!Uses(t.nonce)
    BY <1>0, <2>1, <2>2 DEF Ledger!Uses, PhasesSame
  <2>4. CASE applied' = applied
    <3>1. Ledger!Consume(t.nonce)
      BY <2>3, <2>4 DEF Ledger!Consume
    <3> QED BY <2>1, <3>1 DEF Ledger!Next
  <2>5. CASE Apply(t) /\ t.write \in Writes
    <3> DEFINE w == t.write
    <3>1. t.nonce = nonce[w] /\ ~NothingCanLand(w)
      BY <2>5 DEF LedgerStep, LedgerInv, OnceInv, OnceParts, OneNoncePerWrite, NothingCanLand
    <3>2. applied[w] = 0
      BY <1>0, <2>1, <2>5, <3>1 DEF LedgerStep, LedgerInv, OnceInv, OnceParts, AppliedUsedItsNonce, TypeOK
    <3>3. PhaseOf(w) = "open"
      <4>1. status[w] \in Statuses
        BY <1>0, <2>5 DEF TypeOK
      <4>2. status[w] \notin {"used", "landed"}
        BY <2>1, <2>5, <3>1 DEF LedgerStep, LedgerInv, SoundParts, LandedIsTrue
      <4>3. status[w] \in {"new", "reserved"} => pc[w] = "sent"
        BY <2>5, <3>1 DEF LedgerStep, LedgerInv, OnceInv, OnceParts, UnreportedNeverRuns
      <4> QED BY <4>1, <4>2, <4>3 DEF Statuses, PhaseOf
    <3>4. applied' = [applied EXCEPT ![w] = 1]
      BY <2>5, <3>2 DEF Apply
    <3>5. Ledger!Run(w)
      BY <2>3, <2>5, <3>1, <3>2, <3>3, <3>4 DEF Ledger!Run
    <3> QED BY <2>5, <3>5 DEF Ledger!Next
  <2> QED BY <1>3, <2>4, <2>5 DEF Apply, RefuseInBlock
<1> QED BY <1>1, <1>2, <1>3 DEF ChainStep

\* KeepsLedger holds: signed writes implement the ledger of WriteLedger, for
\* any writes, other clients, window, hold and answers (signedWrite, WithNonce,
\* submitSigned, WaitUntilLanded, postTx and the allocator together).
THEOREM WritesKeepTheLedger == Spec => KeepsLedger
<1>1. Init => Ledger!Init
  <2> SUFFICES ASSUME Init PROVE Ledger!Init
    OBVIOUS
  <2>1. \A n \in Nonces : KnownUsed(acct, n) <=> UsedOnChain(n)
    BY DEF Init, ChainInit, NewAccount, KnownUsed, UsedOnChain
  <2>2. \A w \in Writes : PhaseOf(w) = "clear"
    BY DEF Init, PhaseOf
  <2>3. nonce \in [Writes -> Nonces] /\ applied = [w \in Writes |-> 0]
    BY DEF Init, ChainInit, Nonces
  <2> QED BY <2>1, <2>2, <2>3 DEF Ledger!Init
<1>2. LedgerInv /\ LedgerInv' /\ [Next]_vars => [Ledger!Next]_(Ledger!ledgerVars)
  <2> SUFFICES ASSUME LedgerInv, LedgerInv', [Next]_vars
               PROVE  [Ledger!Next]_(Ledger!ledgerVars)
    OBVIOUS
  <2>0. TypeOK
    BY DEF LedgerInv, OnceInv
  <2>1. CASE UNCHANGED vars
    <3>1. UNCHANGED Ledger!ledgerVars
      BY <2>1 DEF vars, chainVars, clientVars, Ledger!ledgerVars, UsedOnChain, KnownUsed, PhaseOf
    <3> QED BY <3>1
  <2>2. CASE Next
    <3>1. LedgerStep
      BY <2>0, <2>2, KnowledgeStep DEF LedgerStep
    <3>2. CASE (\E m \in net : Network(m)) \/ Tick
      <4>1. ChainSame /\ status' = status /\ pc' = pc /\ nonce' = nonce
        BY <3>2 DEF Network, RefuseBody, Forward, ForwardUnanswered, Tick, chainVars, ChainSame
      <4>2. PhasesSame
        BY <4>1 DEF PhasesSame, PhaseOf
      <4> QED BY <3>1, <4>1, <4>2, QuietMaps
    <3> QED BY <2>2, <3>1, <3>2, CallMaps, StepMaps, ChainMaps DEF Next
  <2> QED BY <2>1, <2>2
<1>3. Spec => []LedgerInv
  <2>1. TypeOK /\ CallsFollowDocs /\ OnceParts /\ SoundParts => LedgerInv
    BY DEF LedgerInv, OnceInv
  <2> QED BY <2>1, TypeCorrect, OnceAlways, SoundAlways, PTL
<1> QED BY <1>1, <1>2, <1>3, PTL DEF Spec, KeepsLedger, Ledger!Spec
=============================================================================
