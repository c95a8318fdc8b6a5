---------------------------- MODULE SignedWrites ----------------------------
(***************************************************************************)
(* Concurrent signed writes of one Client and one DID: signedWrite,        *)
(* writeUnder (WithNonce), NextNonce, submitSigned (file writes),          *)
(* WaitUntilLanded and postTx of nonces.go and client.go, over the shared  *)
(* nonceAllocator (NonceAllocator), against the chain (AccountChain) and a *)
(* network that loses answers and delivers a submission late or twice.     *)
(*                                                                         *)
(* Each member of Writes is one logical write made by a caller that keeps  *)
(* to the documentation of WriteError and WithNonce: it sends the write    *)
(* again under the nonce of an attempt that may land, and under a fresh    *)
(* one only when no attempt may.  Its goroutine (pc) is between calls      *)
(* ("rest"), reading the account nonce for a call ("take", "reserve",      *)
(* "under", "wait"), building the transaction under a claimed nonce        *)
(* ("claimed") or waiting for the answer to /tx/submit ("sent").           *)
(***************************************************************************)
EXTENDS AccountChain

CONSTANTS
    FileWrites,     \* the writes sent by Files under a nonce of NextNonce
    CallerNonces,   \* the nonces callers pass to WithNonce on their own
    HasRPC,         \* whether the client has an RPC URL (WithRPCURL)
    MaxAttempts     \* bound: how many times each write may be submitted

ASSUME FileAssumption == FileWrites \subseteq Writes
ASSUME CallerAssumption == CallerNonces \subseteq Nonces
ASSUME RPCAssumption == HasRPC \in BOOLEAN
ASSUME AttemptsAssumption == MaxAttempts \in [Writes -> Nat]

VARIABLES
    acct,       \* the nonceAccount of the DID
    pc,         \* where each write's goroutine is
    status,     \* what its caller remembers of it
    reports,    \* history: what the code reported of its submissions
    nonce,      \* the nonce of its latest attempt
    read,       \* the answer of GetAccountNonce, while a call holds one
    attempt,    \* how many submissions it made
    answer,     \* the answer to its submission in flight
    net         \* submissions the API has not answered

clientVars == <<acct, pc, status, reports, nonce, read, attempt, answer, net>>
vars == <<chainVars, clientVars>>

NoState == [Base |-> -1, Used |-> {}]

Reading == {"take", "reserve", "under", "wait"}
Sending == {"claimed", "sent"}

\* What a call returns of the submission it made: a WriteResult, or a WriteError
\* with MayLand, wrapping ErrNonceUsed, or with neither.
Reports == {"result", "mayLand", "used", "refused"}

\* What the caller remembers of all its calls: no report says that anything it
\* sent can land ("new", or "reserved" when a file write has a nonce), one says
\* that an attempt may, one was accepted, its nonce is used, or it landed.
Statuses == {"new", "reserved", "mayLand", "accepted", "used", "landed"}

Submission == [write : Writes, nonce : Nonces, attempt : Nat, forwarded : BOOLEAN]

(***************************************************************************)
(* The answers to /tx/submit and what postTx leaves the nonce as: "ok" and *)
(* the refusals are CheckTx's, "badRequest" a 4xx other than 408, and      *)
(* "failure" a network error, a 5xx, a 408 or an answer that is not the    *)
(* envelope.                                                               *)
(***************************************************************************)
Answers == {"none", "ok", "refusedHeld", "refusedUsed", "refused", "badRequest", "failure"}

\* What the log of a CheckTx refusal leaves the nonce as.  Only the node's own
\* errors for this nonce and DID count: a log that quotes one is "refused".
refusalOutcome(ans) ==
    CASE ans = "refusedHeld" -> "nonceHeld"
      [] ans = "refusedUsed" -> "nonceUsed"
      [] OTHER -> "nonceFree"

\* Mutation: a submission that failed in transit taken for a refused one.
postTxFailureIsRefusal(ans) == IF ans = "ok" THEN "nonceAccepted" ELSE refusalOutcome(ans)

postTx(ans) ==
    CASE ans = "ok" -> "nonceAccepted"
      [] ans \in {"refusedHeld", "refusedUsed", "refused"} -> refusalOutcome(ans)
      [] ans = "badRequest" -> "nonceFree"
      [] OTHER -> "nonceUnknown"

\* How the API answers CheckTx's verdict.
AnswerTo(verdict) ==
    CASE verdict = "accepted" -> "ok"
      [] verdict = "held" -> "refusedHeld"
      [] verdict = "used" -> "refusedUsed"
      [] verdict = "refused" -> "refused"
      [] OTHER -> "failure"

\* A submission of w under n has been begun and has not been settled.
Submitting(w, n) == pc[w] \in Sending /\ nonce[w] = n

(***************************************************************************)
(* Calls.                                                                  *)
(***************************************************************************)
Enter(w, call) ==
    /\ pc[w] = "rest"
    /\ pc' = [pc EXCEPT ![w] = call]
    /\ UNCHANGED <<chainVars, acct, status, reports, read, attempt, answer, net>>

\* StoreItem, RegisterSubgrove, GrantSubgroveKey ... without WithNonce.
CallWrite(w) ==
    /\ w \notin FileWrites /\ status[w] = "new" /\ attempt[w] < MaxAttempts[w]
    /\ Enter(w, "take") /\ UNCHANGED nonce

\* The same with WithNonce: again under the nonce of an attempt that may
\* land, or under a nonce of the caller's own.
CallWithNonce(w) ==
    /\ w \notin FileWrites /\ attempt[w] < MaxAttempts[w]
    /\ \/ status[w] = "mayLand" /\ UNCHANGED nonce
       \/ status[w] = "new" /\ \E n \in CallerNonces : nonce' = [nonce EXCEPT ![w] = n]
    /\ Enter(w, "under")

\* NextNonce, for a file write none of whose attempts may land.
CallNextNonce(w) ==
    /\ w \in FileWrites /\ status[w] \in {"new", "reserved"} /\ attempt[w] < MaxAttempts[w]
    /\ Enter(w, "reserve") /\ UNCHANGED nonce

CallWaitUntilLanded(w) ==
    /\ status[w] \in {"accepted", "mayLand"}
    /\ Enter(w, "wait") /\ UNCHANGED nonce

(***************************************************************************)
(* GetAccountNonce: the ABCI query's answer, or the API's when there is no *)
(* RPC URL or the query fails.  The answer is the chain's state now; the   *)
(* call uses it later.                                                     *)
(***************************************************************************)
ReadRPC(w) ==
    /\ pc[w] \in Reading /\ read[w] = NoState /\ HasRPC
    /\ read' = [read EXCEPT ![w] = RPCState]
    /\ UNCHANGED <<chainVars, acct, pc, status, reports, nonce, attempt, answer, net>>

ReadAPI(w) ==
    /\ pc[w] \in Reading /\ read[w] = NoState
    /\ read' = [read EXCEPT ![w] = APIState]
    /\ UNCHANGED <<chainVars, acct, pc, status, reports, nonce, attempt, answer, net>>

\* Neither can be read, or the context ends: the call fails and sends nothing.
ReadFails(w) ==
    /\ pc[w] \in Reading /\ read[w] = NoState
    /\ pc' = [pc EXCEPT ![w] = "rest"]
    /\ UNCHANGED <<chainVars, acct, status, reports, nonce, read, attempt, answer, net>>

(***************************************************************************)
(* What each call does with the state it read, in one critical section.    *)
(***************************************************************************)
Use(w, call) ==
    /\ pc[w] = call /\ read[w] # NoState
    /\ read' = [read EXCEPT ![w] = NoState]

\* signedWrite takes a nonce, or fails with ErrNonceWindowFull.
Take(w) ==
    LET a == merge(acct, read[w]) IN
    /\ Use(w, "take")
    /\ \/ \E n \in Free(a) :
            /\ IsPicked(a, n)
            /\ acct' = take(a, n)
            /\ nonce' = [nonce EXCEPT ![w] = n]
            /\ pc' = [pc EXCEPT ![w] = "claimed"]
       \/ /\ Free(a) = {}
          /\ acct' = a
          /\ pc' = [pc EXCEPT ![w] = "rest"]
          /\ UNCHANGED nonce
    /\ UNCHANGED <<chainVars, status, reports, attempt, answer, net>>

\* NextNonce reserves a nonce, or fails with ErrNonceWindowFull.
Reserve(w) ==
    LET a == merge(acct, read[w]) IN
    /\ Use(w, "reserve")
    /\ \/ \E n \in Free(a) :
            /\ IsPicked(a, n)
            /\ acct' = reserve(a, n)
            /\ nonce' = [nonce EXCEPT ![w] = n]
            /\ status' = [status EXCEPT ![w] = "reserved"]
       \/ /\ Free(a) = {}
          /\ acct' = a
          /\ UNCHANGED <<nonce, status>>
    /\ pc' = [pc EXCEPT ![w] = "rest"]
    /\ UNCHANGED <<chainVars, reports, attempt, answer, net>>

\* writeUnder begins a submission under the caller's nonce, unless the chain
\* shows it used or one is in flight: then it sends nothing.
Under(w) ==
    LET a == merge(acct, read[w])
        n == nonce[w] IN
    /\ Use(w, "under")
    /\ \/ /\ IsUsed(view(a), n)
          /\ acct' = a
          /\ pc' = [pc EXCEPT ![w] = "rest"]
          /\ status' = [status EXCEPT ![w] = IF @ = "mayLand" THEN "used" ELSE @]
       \/ /\ ~IsUsed(view(a), n) /\ InFlight(a, n)
          /\ acct' = a
          /\ pc' = [pc EXCEPT ![w] = "rest"]
          /\ UNCHANGED status
       \/ /\ ~IsUsed(view(a), n) /\ ~InFlight(a, n)
          /\ acct' = begin(a, n)
          /\ pc' = [pc EXCEPT ![w] = "claimed"]
          /\ UNCHANGED status
    /\ UNCHANGED <<chainVars, reports, nonce, attempt, answer, net>>

\* submitSigned begins a submission without reading the chain's state; while one
\* under the nonce is in flight it sends nothing.
SubmitSigned(w) ==
    /\ w \in FileWrites /\ pc[w] = "rest" /\ status[w] \in {"reserved", "mayLand"}
    /\ attempt[w] < MaxAttempts[w]
    /\ ~InFlight(acct, nonce[w])
    /\ acct' = begin(acct, nonce[w])
    /\ pc' = [pc EXCEPT ![w] = "claimed"]
    /\ UNCHANGED <<chainVars, status, reports, nonce, read, attempt, answer, net>>

\* WaitUntilLanded folds the state in and returns, or polls again.
Observe(w) ==
    LET a == merge(acct, read[w]) IN
    /\ Use(w, "wait")
    /\ acct' = a
    /\ \/ /\ IsUsed(view(a), nonce[w])
          /\ pc' = [pc EXCEPT ![w] = "rest"]
          /\ status' = [status EXCEPT ![w] = "landed"]
       \/ /\ ~IsUsed(view(a), nonce[w])
          /\ UNCHANGED <<pc, status>>
    /\ UNCHANGED <<chainVars, reports, nonce, attempt, answer, net>>

(***************************************************************************)
(* The submission: writeOnce builds the transaction and posts it once.     *)
(***************************************************************************)
\* Mutation: a submission that failed in transit reported without MayLand.
ReportWithoutMayLand(outcome) ==
    CASE outcome = "nonceAccepted" -> "result"
      [] outcome = "nonceUsed" -> "used"
      [] OTHER -> "refused"

\* What writeOnce and submitSigned return of a submission: MayLand is about
\* this submission alone, not about an earlier one under the nonce.
Report(outcome) ==
    CASE outcome = "nonceAccepted" -> "result"
      [] outcome = "nonceUnknown" -> "mayLand"
      [] outcome = "nonceUsed" -> "used"
      [] OTHER -> "refused"

\* The caller's memory, which is not the code's: a caller that keeps to WithNonce
\* keeps what earlier reports said when an attempt of its write is refused.
Remembers(w, r) ==
    CASE r = "result" -> "accepted"
      [] r = "mayLand" -> "mayLand"
      [] r = "used" -> "used"
      [] OTHER -> status[w]

\* build, json.Marshal or newAPIRequest fails (or build panics): nothing is
\* sent and the deferred settle gives the nonce back.
BuildFails(w) ==
    /\ pc[w] = "claimed"
    /\ acct' = settle(acct, nonce[w], "nonceFree")
    /\ pc' = [pc EXCEPT ![w] = "rest"]
    /\ UNCHANGED <<chainVars, status, reports, nonce, read, attempt, answer, net>>

Post(w) ==
    /\ pc[w] = "claimed"
    /\ pc' = [pc EXCEPT ![w] = "sent"]
    /\ attempt' = [attempt EXCEPT ![w] = @ + 1]
    /\ net' = net \cup {[write |-> w, nonce |-> nonce[w], attempt |-> attempt'[w],
                         forwarded |-> FALSE]}
    /\ UNCHANGED <<chainVars, acct, status, reports, nonce, read, answer>>

\* The answer arrives, the submission returns and its nonce is settled.
Settle(w) ==
    LET outcome == postTx(answer[w])
        report  == Report(outcome) IN
    /\ pc[w] = "sent" /\ answer[w] # "none"
    /\ acct' = settle(acct, nonce[w], outcome)
    /\ reports' = [reports EXCEPT ![w] = @ \cup {report}]
    /\ status' = [status EXCEPT ![w] = Remembers(w, report)]
    /\ pc' = [pc EXCEPT ![w] = "rest"]
    /\ answer' = [answer EXCEPT ![w] = "none"]
    /\ UNCHANGED <<chainVars, nonce, read, attempt, net>>

(***************************************************************************)
(* The network and the API, which are external.                            *)
(***************************************************************************)
\* The submission m is the one its write is waiting for.
Awaited(m) ==
    /\ pc[m.write] = "sent" /\ answer[m.write] = "none" /\ attempt[m.write] = m.attempt

\* The API refuses the body before it forwards it to the node.
RefuseBody(m) ==
    /\ Awaited(m) /\ ~m.forwarded
    /\ answer' = [answer EXCEPT ![m.write] = "badRequest"]
    /\ net' = net \ {m}
    /\ UNCHANGED <<chainVars, acct, pc, status, reports, nonce, read, attempt>>

\* The API hands the transaction to CheckTx and answers with its verdict.
\* A submission its write has given up on is handed on without anyone to
\* answer to.
Forward(m) ==
    \E verdict \in CheckTx(m.write, m.nonce) :
        /\ pending' = IF verdict = "accepted"
                      THEN Admitted(m.write, m.nonce, ~Awaited(m)) ELSE pending
        /\ net' = net \ {m}
        /\ answer' = IF Awaited(m) THEN [answer EXCEPT ![m.write] = AnswerTo(verdict)] ELSE answer
        /\ UNCHANGED <<base, spent, applied, acct, pc, status, reports, nonce, read, attempt>>

\* The API hands it to CheckTx, which accepts it, and loses the verdict: it
\* may hand the transaction on again.
ForwardUnanswered(m) ==
    /\ "accepted" \in CheckTx(m.write, m.nonce)
    /\ pending' = Admitted(m.write, m.nonce, ~Awaited(m))
    /\ net' = (net \ {m}) \cup {[m EXCEPT !.forwarded = TRUE]}
    /\ UNCHANGED <<base, spent, applied, acct, pc, status, reports, nonce, read, attempt, answer>>

\* A network error, a timeout or a 5xx, wherever the submission is.
Fail(w) ==
    /\ pc[w] = "sent" /\ answer[w] = "none"
    /\ answer' = [answer EXCEPT ![w] = "failure"]
    /\ UNCHANGED <<chainVars, acct, pc, status, reports, nonce, read, attempt, net>>

(***************************************************************************)
(* The passage of time.                                                    *)
(***************************************************************************)
Tick ==
    /\ acct' = Elapse(acct)
    /\ pending' = Aged(pending)
    /\ UNCHANGED <<base, spent, applied, pc, status, reports, nonce, read, attempt, answer, net>>

(***************************************************************************)
(* Specification.                                                          *)
(***************************************************************************)
Init ==
    /\ ChainInit
    /\ acct = NewAccount
    /\ pc = [w \in Writes |-> "rest"]
    /\ status = [w \in Writes |-> "new"]
    /\ reports = [w \in Writes |-> {}]
    /\ nonce = [w \in Writes |-> 0]
    /\ read = [w \in Writes |-> NoState]
    /\ attempt = [w \in Writes |-> 0]
    /\ answer = [w \in Writes |-> "none"]
    /\ net = {}

Calls(w) ==
    CallWrite(w) \/ CallWithNonce(w) \/ CallNextNonce(w) \/ CallWaitUntilLanded(w)

Steps(w) ==
    \/ ReadRPC(w) \/ ReadAPI(w) \/ ReadFails(w)
    \/ Take(w) \/ Reserve(w) \/ Under(w) \/ SubmitSigned(w) \/ Observe(w)
    \/ BuildFails(w) \/ Post(w) \/ Settle(w) \/ Fail(w)

Network(m) == RefuseBody(m) \/ Forward(m) \/ ForwardUnanswered(m)

Next ==
    \/ \E w \in Writes : Calls(w) \/ Steps(w)
    \/ \E m \in net : Network(m)
    \/ ChainStep /\ UNCHANGED clientVars
    \/ Tick

Spec == Init /\ [][Next]_vars

(***************************************************************************)
(* Fairness.  A goroutine with something to do takes its next step; the    *)
(* HTTP client's timeout ends a submission nobody answers; time passes.    *)
(* GetAccountNonce asks the RPC endpoint first at every poll, so a poll    *)
(* that could reach it does so again and again unless it is down for good. *)
(* Calls, the chain and the API's forwarding are not fair.                 *)
(***************************************************************************)
Fairness ==
    /\ WF_vars(Tick)
    /\ \A w \in Writes :
        /\ WF_vars(Post(w)) /\ WF_vars(Fail(w)) /\ WF_vars(Settle(w))
        /\ WF_vars(Observe(w))
        /\ IF HasRPC THEN SF_vars(ReadRPC(w)) ELSE SF_vars(ReadAPI(w))

FairSpec == Spec /\ Fairness

(***************************************************************************)
(* Properties.                                                             *)
(***************************************************************************)
\* Every variable has its type: the account and the mempool stay within the
\* nonces of the chain, and a goroutine is at a step the code has.
TypeOK ==
    /\ base \in 0..(NonceLimit - 1)
    /\ spent \in SUBSET Nonces
    /\ pending \in SUBSET PendingTx
    /\ applied \in [Writes -> Nat]
    /\ acct \in Account
    /\ pc \in [Writes -> {"rest"} \cup Reading \cup Sending]
    /\ status \in [Writes -> Statuses]
    /\ reports \in [Writes -> SUBSET Reports]
    /\ nonce \in [Writes -> Nonces]
    /\ read \in [Writes -> AccountNonceState \cup {NoState}]
    /\ attempt \in [Writes -> Nat]
    /\ answer \in [Writes -> Answers]
    /\ net \in SUBSET Submission

\* The client never takes a nonce for used that the chain has not used,
\* whatever stale answers it merged and refusals it read, and its base never
\* passes the chain's (merge, settle).
KnowledgeIsSound ==
    /\ acct.base <= base
    /\ \A n \in acct.used : UsedOnChain(n)

\* "no two writes in flight from one DID share one": two submissions of this
\* client share a nonce only once the client has seen that nonce used, and
\* until then the claim counts the submission (take, begin, merge).
ExclusiveInFlight ==
    \A n \in Nonces : ~KnownUsed(acct, n) =>
        \A w \in Writes : Submitting(w, n) =>
            /\ acct.claims[n].present /\ acct.claims[n].inFlight = 1
            /\ \A v \in Writes : Submitting(v, n) => v = w

\* Every in-flight count belongs to a submission that has not returned, so a
\* nonce is never left taken by nobody: settle runs once for each take or
\* begin, also when build fails.
NoLeakedCount ==
    \A n \in Nonces : acct.claims[n].inFlight > 0 => \E w \in Writes : Submitting(w, n)

\* While the node still holds a nonce for a transaction of this client that it
\* admitted before the submission returned, the client keeps the nonce taken
\* too (NonceHold: "120 s is the conservative bound"), whatever the outcomes
\* of later attempts under it.
HeldWhilePending ==
    \A t \in pending :
        t.write \in Writes /\ ~t.late /\ t.hold > 0 /\ ~KnownUsed(acct, t.nonce) =>
            acct.claims[t.nonce].present /\ live(acct.claims[t.nonce])

\* A write sent again as the documentation says, under the nonce of an attempt
\* that may land and under a fresh one otherwise, takes effect at most once
\* ("so the write runs at most once": WriteError, WithNonce).
AtMostOnce == \A w \in Writes : applied[w] <= 1

\* Nothing of w is pending, in transit or applied.
NothingCanLand(w) ==
    /\ applied[w] = 0
    /\ \A t \in pending : t.write # w
    /\ \A m \in net : m.write # w

\* A write all of whose submissions were reported refused (a WriteError without
\* MayLand that is not ErrNonceUsed), or that was not submitted yet, is not in the
\* mempool, on its way to it or applied: the report that owes MayLand has it.
\* A refusal after a report with MayLand says nothing of the earlier attempt: the
\* write may run, whatever WriteError's comment says (nonces.go:118-120).
RefusedNeverRuns ==
    \A w \in Writes : reports[w] \subseteq {"refused"} /\ pc[w] # "sent" => NothingCanLand(w)

\* A write reported landed by WaitUntilLanded, or failed with ErrNonceUsed,
\* has its nonce used on the chain: neither report is ever premature.
LandedIsTrue ==
    \A w \in Writes : status[w] \in {"landed", "used"} => UsedOnChain(nonce[w])

\* What the client keeps as used, and what it reports as used, is used on the
\* chain: KnowledgeIsSound and LandedIsTrue.
ReportsAreTrue == KnowledgeIsSound /\ LandedIsTrue

\* Where callers choose no nonce themselves, every nonce a transaction is signed
\* under is one the chain's window admits or has passed, and never one the
\* chain refuses for being too large, however old the state pick used.
HandedOutInWindow ==
    CallerNonces = {} => \A w \in Writes : pc[w] \in Sending =>
        nonce[w] \in 1..(base + NonceWindow) /\ nonce[w] < NonceLimit

\* "a slower, older answer can't lower the base or clear a nonce seen used":
\* no step makes the client forget that a nonce is used.
KnowledgeGrows ==
    [][\A n \in Nonces : KnownUsed(acct, n) => KnownUsed(acct, n)']_vars

\* A nonce is taken for ever by no one: once no submission under it is in
\* flight its holds lapse, and every submission returns.
ClaimsLapse == \A n \in Nonces : []<>(~live(acct.claims[n]))

\* WaitUntilLanded returns once the chain shows the nonce used: with an RPC URL
\* in the bitmap or the base, without one when the base has passed it.
WaitReturns ==
    \A w \in Writes :
        /\ pc[w] = "wait"
        /\ IF HasRPC THEN UsedOnChain(nonce[w]) ELSE nonce[w] <= base
        ~> pc[w] # "wait"

(***************************************************************************)
(* The inductive invariant behind KnowledgeIsSound, ExclusiveInFlight,     *)
(* NoLeakedCount, LandedIsTrue and AtMostOnce.                             *)
(***************************************************************************)
\* An answer of GetAccountNonce may be old, but was true.
ReadIsSound ==
    \A w \in Writes : read[w] # NoState =>
        /\ read[w].Base <= base
        /\ \A i \in read[w].Used : UsedOnChain(read[w].Base + 1 + i)

\* A claim counts at most one submission, and one not in the map none.
ClaimsCountOne ==
    \A n \in Nonces : /\ acct.claims[n].inFlight <= 1
                      /\ acct.claims[n].present \/ acct.claims[n].inFlight = 0

\* Calls are made only in the states their callers may make them in.
CallsFollowDocs ==
    \A w \in Writes :
        /\ pc[w] = "take" => status[w] = "new"
        /\ pc[w] = "reserve" => status[w] \in {"new", "reserved"}
        /\ pc[w] \in {"under", "claimed", "sent"} => status[w] \in {"new", "reserved", "mayLand"}
        /\ pc[w] = "wait" => status[w] \in {"accepted", "mayLand"}
        /\ answer[w] # "none" => pc[w] = "sent"

\* Everything of a write that may land is signed under its current nonce.
OneNoncePerWrite ==
    /\ \A t \in pending : t.write \in Writes => t.nonce = nonce[t.write]
    /\ \A m \in net : m.nonce = nonce[m.write]

\* Of each attempt there is one submission, and none is ahead of its write.
OneSubmissionPerAttempt ==
    \A m \in net :
        /\ m.attempt <= attempt[m.write]
        /\ \A k \in net : k.write = m.write /\ k.attempt = m.attempt => k = m

\* An answer that the nonce is used is true.
AnswerIsSound ==
    \A w \in Writes : answer[w] = "refusedUsed" => UsedOnChain(nonce[w])

\* A write that took effect used its nonce.
AppliedUsedItsNonce ==
    \A w \in Writes : applied[w] > 0 => UsedOnChain(nonce[w])

\* What the caller remembers, some report said.
MemoryOfReports ==
    \A w \in Writes : status[w] \in {"new", "reserved"} \/ ~(reports[w] \subseteq {"refused"})

\* No write that may land, by what its caller remembers, is anywhere before its
\* first such report.
UnreportedNeverRuns ==
    \A w \in Writes : status[w] \in {"new", "reserved"} /\ pc[w] # "sent" => NothingCanLand(w)

\* While the first attempt that may land is in flight: the only submission in
\* transit is that one; before it is forwarded nothing of the write is
\* elsewhere, and once it is refused nothing of it is anywhere.
FirstAttempt ==
    \A w \in Writes : pc[w] = "sent" /\ status[w] \in {"new", "reserved"} =>
        /\ \A m \in net : m.write = w => m.attempt = attempt[w]
        /\ \A m \in net : m.write = w /\ ~m.forwarded =>
                applied[w] = 0 /\ \A t \in pending : t.write # w
        /\ answer[w] \in {"refused", "badRequest", "refusedHeld"} => NothingCanLand(w)

(***************************************************************************)
(* Signed writes implement the ledger of WriteLedger.                      *)
(***************************************************************************)
PhaseOf(w) ==
    IF status[w] \in {"used", "landed"} THEN "closed"
    ELSE IF status[w] \in {"mayLand", "accepted"} \/ pc[w] = "sent" THEN "open"
    ELSE "clear"

Ledger == INSTANCE WriteLedger WITH
    used  <- {n \in Nonces : UsedOnChain(n)},
    known <- {n \in Nonces : KnownUsed(acct, n)},
    phase <- [w \in Writes |-> PhaseOf(w)],
    under <- nonce,
    runs  <- applied

\* For all that is delayed, lost, sent twice or read late, a caller that keeps
\* the reports it got sees a ledger: a write runs at most once, under the nonce of
\* its last attempt; it is reported used or landed only once the client knows
\* its nonce used, and what the client knows used is true and kept.
KeepsLedger == Ledger!Spec
=============================================================================
