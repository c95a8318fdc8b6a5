-------------------------- MODULE ApiRequests_proofs --------------------------
(***************************************************************************)
(* What holds of every set of calls, for any number of retries: no attempt *)
(* is taken for a replay, and what a call returns is true.                 *)
(***************************************************************************)
EXTENDS ApiRequests, TLAPS

USE CallAssumption, AnswerAssumption, RetryAssumption

(***************************************************************************)
(* Types.                                                                  *)
(***************************************************************************)
Call == [at : {"none", "build", "sent", "wait", "done"}, attempt : 0..MaxRetries,
         backoff : Nat, result : Results]

\* What an answer is turned into is one of the results.
LEMMA ResultOfType ==
  ASSUME NEW c \in Calls, NEW a \in Answer
  PROVE  ResultOf(c, a) \in Results
  BY DEF ResultOf, ErrorOf, decode, Results, Answer, Bodies

\* A call that returns keeps its type.
LEMMA DoneType ==
  ASSUME NEW q \in Call, NEW e \in Results
  PROVE  Done(q, e) \in Call /\ Done(q, e).at = "done"
<1>1. [q EXCEPT !.at = "done"] \in Call /\ [q EXCEPT !.at = "done"].at = "done"
  BY DEF Call
<1>2. Done(q, e) = [[q EXCEPT !.at = "done"] EXCEPT !.result = e]
  BY DEF Done
<1> QED BY <1>1, <1>2 DEF Call

\* So does one whose attempt failed, and it waits only below the limit.
LEMMA RetryOrFailType ==
  ASSUME NEW q \in Call, NEW e \in Results
  PROVE  /\ RetryOrFail(q, e) \in Call
         /\ RetryOrFail(q, e).at = "wait" => RetryOrFail(q, e).attempt < MaxRetries
<1>1. CASE q.attempt >= MaxRetries
  BY <1>1, DoneType DEF RetryOrFail
<1>2. CASE ~(q.attempt >= MaxRetries)
  <2>1. RetryOrFail(q, e) = [q EXCEPT !.at = "wait"]
    BY <1>2 DEF RetryOrFail
  <2> QED BY <1>2, <2>1 DEF Call
<1> QED BY <1>1, <1>2

\* A call waits only for an attempt it may still make.
WaitsBelow == \A c \in Calls : call[c].at = "wait" => call[c].attempt < MaxRetries

\* Every variable of the calls, the network and the API keeps its type.
THEOREM RequestsTyped == Spec => []TypeOK
<1>1. Init => TypeOK /\ WaitsBelow
  <2> SUFFICES ASSUME Init PROVE TypeOK /\ WaitsBelow
    OBVIOUS
  <2>1. Idle \in Call
    BY DEF Idle, Call, Results
  <2> QED BY <2>1 DEF Init, TypeOK, Call, WaitsBelow, Idle
<1>2. TypeOK /\ WaitsBelow /\ [Next]_vars => TypeOK' /\ WaitsBelow'
  <2> SUFFICES ASSUME TypeOK, WaitsBelow, [Next]_vars PROVE TypeOK' /\ WaitsBelow'
    OBVIOUS
  <2>1. /\ call \in [Calls -> Call]
        /\ Call = [at : {"none", "build", "sent", "wait", "done"}, attempt : 0..MaxRetries,
                   backoff : Nat, result : Results]
    BY DEF TypeOK, Call
  <2> DEFINE Fits(q) == q \in Call /\ (q.at = "wait" => q.attempt < MaxRetries)
  <2>0. ASSUME NEW c \in Calls, NEW q, Fits(q), call' = [call EXCEPT ![c] = q]
        PROVE  call' \in [Calls -> Call] /\ WaitsBelow'
    BY <2>0, <2>1 DEF WaitsBelow
  <2>2. CASE UNCHANGED vars
    BY <2>2 DEF TypeOK, WaitsBelow, vars
  <2>3. ASSUME NEW c \in Calls, doRequest(c) PROVE TypeOK' /\ WaitsBelow'
    <3>1. Fits([call[c] EXCEPT !.at = "build"])
      BY <2>1 DEF Call
    <3>2. call' \in [Calls -> Call] /\ WaitsBelow'
      BY <2>0, <2>3, <3>1 DEF doRequest
    <3> QED BY <2>1, <2>3, <3>2 DEF doRequest, TypeOK
  <2>4. ASSUME NEW c \in Calls, BuildFails(c) \/ WaitCancelled(c) PROVE TypeOK' /\ WaitsBelow'
    <3>1. Fits(Done(call[c], "crypto")) /\ Fits(Done(call[c], "cancelled"))
      BY <2>1, DoneType DEF Results
    <3>2. call' \in [Calls -> Call] /\ WaitsBelow'
      BY <2>0, <2>4, <3>1 DEF BuildFails, WaitCancelled
    <3> QED BY <2>1, <2>4, <3>2 DEF BuildFails, WaitCancelled, TypeOK
  <2>5. ASSUME NEW c \in Calls, Attempt(c) PROVE TypeOK' /\ WaitsBelow'
    <3>1. newAPIRequest(c) \in Request
      BY <2>1 DEF newAPIRequest, Request, TypeOK, Call
    <3>2. Fits([call[c] EXCEPT !.at = "sent"])
      BY <2>1 DEF Call
    <3>3. call' \in [Calls -> Call] /\ WaitsBelow'
      BY <2>0, <2>5, <3>2 DEF Attempt
    <3>4. wire' \subseteq Request /\ request' \in [Calls -> Request \cup {NoRequest}]
      BY <2>5, <3>1 DEF Attempt, TypeOK
    <3>5. drawn' \in Nat /\ sent' \in [Calls -> Nat]
      BY <2>5, <3>1 DEF Attempt, TypeOK, Request
    <3> QED BY <2>1, <2>5, <3>3, <3>4, <3>5 DEF Attempt, TypeOK
  <2>6. ASSUME NEW c \in Calls, AttemptFails(c) PROVE TypeOK' /\ WaitsBelow'
    <3>1. Fits(RetryOrFail(call[c], "network"))
      BY <2>1, RetryOrFailType DEF Results
    <3>2. call' \in [Calls -> Call] /\ WaitsBelow'
      BY <2>0, <2>6, <3>1 DEF AttemptFails
    <3>3. answer' \in [Calls -> SUBSET Answer]
      BY <2>6 DEF AttemptFails, TypeOK
    <3> QED BY <2>1, <2>6, <3>2, <3>3 DEF AttemptFails, TypeOK
  <2>7. ASSUME NEW c \in Calls, Answered(c) PROVE TypeOK' /\ WaitsBelow'
    <3>1. PICK a \in answer[c] :
            call' = [call EXCEPT ![c] = IF a.status >= 500 THEN RetryOrFail(call[c], "server")
                                        ELSE Done(call[c], ResultOf(c, a))]
      BY <2>7 DEF Answered
    <3>2. Fits(RetryOrFail(call[c], "server"))
      BY <2>1, RetryOrFailType DEF Results
    <3>3. Fits(Done(call[c], ResultOf(c, a)))
      <4>1. a \in Answer
        BY DEF TypeOK
      <4> QED BY <2>1, <4>1, ResultOfType, DoneType
    <3>4. call' \in [Calls -> Call] /\ WaitsBelow'
      <4>1. CASE a.status >= 500
        BY <2>0, <3>1, <3>2, <4>1
      <4>2. CASE ~(a.status >= 500)
        BY <2>0, <3>1, <3>3, <4>2
      <4> QED BY <4>1, <4>2
    <3>5. answer' \in [Calls -> SUBSET Answer]
      BY <2>7 DEF Answered, TypeOK
    <3> QED BY <2>1, <2>7, <3>4, <3>5 DEF Answered, TypeOK
  <2>8. ASSUME NEW c \in Calls, WaitEnds(c) PROVE TypeOK' /\ WaitsBelow'
    <3> DEFINE grown == call[c].backoff * BackoffFactor
               delay == IF grown > MaxBackoff THEN MaxBackoff ELSE grown
               built == [call[c] EXCEPT !.at = "build"]
               counted == [built EXCEPT !.attempt = call[c].attempt + 1]
               next == [counted EXCEPT !.backoff = delay]
    <3>1. /\ call[c].attempt \in Nat /\ call[c].attempt < MaxRetries
          /\ call[c].backoff \in Nat /\ grown \in Nat
      BY <2>1, <2>8 DEF WaitEnds, WaitsBelow, Call
    <3>2. call' = [call EXCEPT ![c] = next]
      BY <2>8 DEF WaitEnds
    <3> HIDE DEF grown
    <3>3. delay \in Nat
      BY <3>1
    <3> HIDE DEF delay
    <3>4. built \in Call /\ built.at = "build"
      BY <2>1 DEF Call
    <3> HIDE DEF built
    <3>5. counted \in Call /\ counted.at = "build"
      BY <3>1, <3>4 DEF Call
    <3> HIDE DEF counted
    <3>6. Fits(next)
      BY <3>3, <3>5 DEF Call
    <3> HIDE DEF next
    <3>7. call' \in [Calls -> Call] /\ WaitsBelow'
      BY <2>0, <3>2, <3>6
    <3> QED BY <2>1, <2>8, <3>7 DEF WaitEnds, TypeOK
  <2>9. CASE SetIdentity
    BY <2>9 DEF SetIdentity, TypeOK, WaitsBelow
  <2>10. ASSUME NEW r \in wire, Serve(r) PROVE TypeOK' /\ WaitsBelow'
    <3>1. r \in Request
      BY DEF TypeOK
    <3>2. answer' \in [Calls -> SUBSET Answer]
      BY <2>10, <3>1 DEF Serve, AnswerTo, TypeOK, Request, Answer, Bodies
    <3>3. seen' \subseteq (Identities \cup {NoIdentity}) \X Nat
      BY <2>10, <3>1 DEF Serve, TypeOK, Request
    <3>4. granted' \subseteq Calls /\ replays' \subseteq Calls
      BY <2>10, <3>1 DEF Serve, TypeOK, Request
    <3>5. WaitsBelow'
      BY <2>10 DEF Serve, WaitsBelow
    <3> QED BY <2>1, <2>10, <3>2, <3>3, <3>4, <3>5 DEF Serve, TypeOK
  <2> QED BY <2>2, <2>3, <2>4, <2>5, <2>6, <2>7, <2>8, <2>9, <2>10 DEF Next, Step
<1> QED BY <1>1, <1>2, PTL DEF Spec

(***************************************************************************)
(* Replays.  A nonce goes out with one request only, and a nonce the API   *)
(* took is not on the way any more.                                        *)
(***************************************************************************)
FreshNonces ==
    /\ drawn \in Nat
    /\ \A r \in wire : r.nonce \in 0..drawn
    /\ \A p \in seen : p[2] \in 1..drawn
    /\ \A r, q \in wire : r.nonce = q.nonce /\ r.nonce # 0 => r = q
    /\ \A r \in wire, p \in seen : p[2] # r.nonce
    /\ NeverAReplay

\* "Each attempt of a retried request is signed anew" (signAPIRequest): for any
\* number of calls and retries and any delay of their attempts, the API takes
\* none of them for a replay.
THEOREM NothingIsReplayed == Spec => []NeverAReplay
<1>1. Init => FreshNonces
  BY DEF Init, FreshNonces, NeverAReplay
<1>2. FreshNonces /\ [Next]_vars => FreshNonces'
  <2> SUFFICES ASSUME FreshNonces, [Next]_vars PROVE FreshNonces'
    OBVIOUS
  <2>1. CASE UNCHANGED <<wire, drawn, seen, replays>>
    BY <2>1 DEF FreshNonces, NeverAReplay
  <2>2. ASSUME NEW c \in Calls, Attempt(c) PROVE FreshNonces'
    <3> DEFINE r == newAPIRequest(c)
    <3>1. /\ wire' = wire \cup {r}
          /\ drawn' = IF r.nonce > drawn THEN r.nonce ELSE drawn
          /\ seen' = seen /\ replays' = replays
      BY <2>2 DEF Attempt
    <3>2. r.nonce = 0 \/ r.nonce = drawn + 1
      BY DEF newAPIRequest
    <3> HIDE DEF r
    <3>3. /\ drawn' \in Nat /\ drawn <= drawn' /\ r.nonce \in 0..drawn'
          /\ \A q \in wire : r.nonce # 0 => q.nonce # r.nonce
          /\ \A p \in seen : p[2] # r.nonce
      BY <3>1, <3>2 DEF FreshNonces
    <3>4. /\ \A q \in wire : q.nonce \in 0..drawn'
          /\ \A p \in seen : p[2] \in 1..drawn'
      BY <3>3 DEF FreshNonces
    <3> QED BY <3>1, <3>3, <3>4 DEF FreshNonces, NeverAReplay
  <2>3. ASSUME NEW r \in wire, Serve(r) PROVE FreshNonces'
    <3>1. ~Replayed(r)
      BY DEF Replayed, FreshNonces
    <3>2. /\ wire' = wire \ {r} /\ drawn' = drawn /\ replays' = replays
          /\ seen' = IF r.nonce = 0 THEN seen ELSE seen \cup {<<r.signer, r.nonce>>}
      BY <2>3, <3>1 DEF Serve
    <3>3. \A p \in seen' : p \in seen \/ (p[2] = r.nonce /\ r.nonce # 0)
      BY <3>2
    <3>4. \A q \in wire' : q \in wire /\ (r.nonce # 0 => q.nonce # r.nonce)
      BY <3>2 DEF FreshNonces
    <3>5. r.nonce # 0 => r.nonce \in 1..drawn
      BY DEF FreshNonces
    <3>6. \A p \in seen' : p[2] \in 1..drawn
      BY <3>3, <3>5 DEF FreshNonces
    <3>7. \A q \in wire', p \in seen' : p[2] # q.nonce
      BY <3>3, <3>4 DEF FreshNonces
    <3> QED BY <3>2, <3>4, <3>6, <3>7 DEF FreshNonces, NeverAReplay
  <2>4. ASSUME NEW c \in Calls,
               \/ doRequest(c) \/ BuildFails(c) \/ AttemptFails(c)
               \/ Answered(c) \/ WaitEnds(c) \/ WaitCancelled(c)
        PROVE  UNCHANGED <<wire, drawn, seen, replays>>
    BY <2>4 DEF doRequest, BuildFails, AttemptFails, Answered, WaitEnds, WaitCancelled
  <2>5. UNCHANGED vars \/ SetIdentity => UNCHANGED <<wire, drawn, seen, replays>>
    BY DEF vars, SetIdentity
  <2> QED BY <2>1, <2>2, <2>3, <2>4, <2>5 DEF Next, Step
<1>3. FreshNonces => NeverAReplay
  BY DEF FreshNonces
<1> QED BY <1>1, <1>2, <1>3, PTL DEF Spec

(***************************************************************************)
(* Results.  A call has sent one attempt for each it counts, fails with    *)
(* the last one's error only at the limit, and holds only answers of       *)
(* requests the API accounted for.                                         *)
(***************************************************************************)
Counted(q, n) ==
    /\ n <= q.attempt + 1
    /\ q.at \in {"none", "build"} => n = q.attempt
    /\ q.at \in {"sent", "wait"} => n = q.attempt + 1
    /\ q.at # "done" => q.result = "none"
    /\ q.result \in {"network", "server"} => n = MaxRetries + 1

Earned(c) ==
    /\ call[c].result = "ok" => c \in granted
    /\ \A a \in answer[c] : Success(c, a) => c \in granted

Accounted == \A c \in Calls : Counted(call[c], sent[c]) /\ Earned(c)

\* Only an answer that says the API did what was asked is decoded to success.
LEMMA OkIsSuccess ==
  ASSUME NEW c \in Calls, NEW a \in Answer, ResultOf(c, a) = "ok"
  PROVE  Success(c, a)
<1>1. CASE a.body = "unreadable"
  BY <1>1 DEF ResultOf, Answer
<1>2. CASE a.body # "unreadable" /\ a.status >= 400
  <2>1. ResultOf(c, a) = ErrorOf(a)
    BY <1>2 DEF ResultOf, Answer
  <2> QED BY <2>1 DEF ErrorOf
<1>3. CASE a.body # "unreadable" /\ a.status < 400
  <2>1. ResultOf(c, a) = IF c \in Enveloped THEN decode(a)
                         ELSE IF a.body = "junk" THEN "serialization" ELSE "ok"
    BY <1>3 DEF ResultOf, Answer
  <2> QED BY <1>3, <2>1 DEF decode, Success, Answer, Bodies
<1> QED BY <1>1, <1>2, <1>3 DEF Answer

\* No answer is decoded to an error of the network or the server.
LEMMA AnswersAreNotLost ==
  ASSUME NEW c \in Calls, NEW a \in Answer
  PROVE  ResultOf(c, a) \notin {"network", "server"}
  BY DEF ResultOf, ErrorOf, decode, Answer, Bodies

\* A call that returns with another result keeps its count.
LEMMA DoneCounts ==
  ASSUME NEW q \in Call, NEW n \in Nat, NEW e \in Results, Counted(q, n),
         e \in {"network", "server"} => n = MaxRetries + 1
  PROVE  Counted(Done(q, e), n) /\ Done(q, e).result = e
<1>1. Done(q, e) = [[q EXCEPT !.at = "done"] EXCEPT !.result = e]
  BY DEF Done
<1>2. /\ Done(q, e).attempt = q.attempt /\ Done(q, e).at = "done"
      /\ Done(q, e).result = e
  BY <1>1 DEF Call
<1> QED BY <1>2 DEF Counted

\* So does one whose attempt failed.
LEMMA RetryOrFailCounts ==
  ASSUME NEW q \in Call, NEW n \in Nat, NEW e \in {"network", "server"},
         q.at = "sent", Counted(q, n)
  PROVE  Counted(RetryOrFail(q, e), n) /\ RetryOrFail(q, e).result # "ok"
<1>1. n = q.attempt + 1 /\ q.result = "none" /\ q.attempt \in 0..MaxRetries
  BY DEF Counted, Call
<1>2. CASE q.attempt >= MaxRetries
  <2>1. n = MaxRetries + 1 /\ RetryOrFail(q, e) = Done(q, e)
    BY <1>1, <1>2 DEF RetryOrFail
  <2> QED BY <2>1, DoneCounts DEF Results
<1>3. CASE ~(q.attempt >= MaxRetries)
  <2>1. RetryOrFail(q, e) = [q EXCEPT !.at = "wait"]
    BY <1>3 DEF RetryOrFail
  <2> QED BY <1>1, <2>1 DEF Counted, Call
<1> QED BY <1>2, <1>3

\* "ok" is what the API granted, and a network or server error comes after
\* MaxRetries + 1 attempts, never more, for any number of calls and retries
\* (doWithRetry, doRequest).
THEOREM ResultsAreTrue == Spec => []ResultIsTrue
<1>1. Init => Accounted
  <2> SUFFICES ASSUME Init, NEW c \in Calls PROVE Counted(call[c], sent[c]) /\ Earned(c)
    BY DEF Accounted
  <2>1. call[c] = Idle /\ sent[c] = 0 /\ answer[c] = {}
    BY DEF Init
  <2> QED BY <2>1 DEF Counted, Earned, Idle
<1>2. TypeOK /\ Accounted /\ [Next]_vars => Accounted'
  <2> SUFFICES ASSUME TypeOK, Accounted, [Next]_vars, NEW d \in Calls
               PROVE  Counted(call[d], sent[d])' /\ Earned(d)'
    BY DEF Accounted
  <2>1. /\ call \in [Calls -> Call] /\ sent \in [Calls -> Nat]
        /\ answer \in [Calls -> SUBSET Answer]
    BY DEF TypeOK, Call
  <2>2. Counted(call[d], sent[d]) /\ Earned(d)
    BY DEF Accounted
  <2>3. CASE UNCHANGED <<call, sent, answer, granted>>
    BY <2>2, <2>3 DEF Counted, Earned, Success
  <2>4. ASSUME NEW c \in Calls, NEW q, call' = [call EXCEPT ![c] = q],
               Counted(q, sent[c]), sent' = sent, granted' = granted,
               answer' = answer \/ answer' = [answer EXCEPT ![c] = {}],
               q.result = "ok" => c \in granted
        PROVE  Counted(call[d], sent[d])' /\ Earned(d)'
    <3>1. answer'[d] \subseteq answer[d]
      BY <2>1, <2>4
    <3>2. call'[d] = IF d = c THEN q ELSE call[d]
      BY <2>1, <2>4
    <3>3. Counted(call'[d], sent'[d])
      BY <2>2, <2>4, <3>2
    <3>4. Earned(d)'
      BY <2>2, <2>4, <3>1, <3>2 DEF Earned, Success
    <3> QED BY <3>3, <3>4 DEF Counted
  <2>5. ASSUME NEW c \in Calls, doRequest(c) PROVE Counted(call[d], sent[d])' /\ Earned(d)'
    <3>1. Counted([call[c] EXCEPT !.at = "build"], sent[c]) /\ [call[c] EXCEPT !.at = "build"].result # "ok"
      BY <2>1, <2>5 DEF doRequest, Accounted, Counted, Idle, Call
    <3> QED BY <2>4, <2>5, <3>1 DEF doRequest
  <2>6. ASSUME NEW c \in Calls, Attempt(c) PROVE Counted(call[d], sent[d])' /\ Earned(d)'
    <3>1. /\ call' = [call EXCEPT ![c] = [call[c] EXCEPT !.at = "sent"]] /\ call[c].at = "build"
          /\ sent' = [sent EXCEPT ![c] = sent[c] + 1]
          /\ answer' = answer /\ granted' = granted
      BY <2>6 DEF Attempt
    <3>2. CASE d = c
      <4>1. /\ call'[d] = [call[d] EXCEPT !.at = "sent"] /\ sent'[d] = sent[d] + 1
            /\ sent[d] = call[d].attempt /\ call[d].result = "none"
        BY <2>1, <2>2, <3>1, <3>2 DEF Counted
      <4>2. /\ call'[d].at = "sent" /\ call'[d].attempt = call[d].attempt
            /\ call'[d].result = "none" /\ call[d].attempt \in Nat
        BY <2>1, <4>1 DEF Call
      <4> QED BY <2>2, <3>1, <4>1, <4>2 DEF Counted, Earned, Success
    <3>3. CASE d # c
      <4>1. call'[d] = call[d] /\ sent'[d] = sent[d]
        BY <2>1, <3>1, <3>3
      <4> QED BY <2>2, <3>1, <4>1 DEF Counted, Earned, Success
    <3> QED BY <3>2, <3>3
  <2>7. ASSUME NEW c \in Calls, BuildFails(c) \/ WaitCancelled(c)
        PROVE  Counted(call[d], sent[d])' /\ Earned(d)'
    <3>1. \A e \in {"crypto", "cancelled"} :
            Counted(Done(call[c], e), sent[c]) /\ Done(call[c], e).result = e
      BY <2>1, DoneCounts DEF Accounted, Results
    <3> QED BY <2>4, <2>7, <3>1 DEF BuildFails, WaitCancelled
  <2>8. ASSUME NEW c \in Calls, AttemptFails(c) PROVE Counted(call[d], sent[d])' /\ Earned(d)'
    <3>1. /\ Counted(RetryOrFail(call[c], "network"), sent[c])
          /\ RetryOrFail(call[c], "network").result # "ok"
      BY <2>1, <2>8, RetryOrFailCounts DEF AttemptFails, Accounted
    <3> QED BY <2>4, <2>8, <3>1 DEF AttemptFails
  <2>9. ASSUME NEW c \in Calls, Answered(c) PROVE Counted(call[d], sent[d])' /\ Earned(d)'
    <3>1. PICK a \in answer[c] :
            call' = [call EXCEPT ![c] = IF a.status >= 500 THEN RetryOrFail(call[c], "server")
                                        ELSE Done(call[c], ResultOf(c, a))]
      BY <2>9 DEF Answered
    <3>2. a \in Answer /\ call[c] \in Call /\ call[c].at = "sent" /\ Counted(call[c], sent[c])
          /\ sent[c] \in Nat
      BY <2>1, <2>9 DEF Answered, Accounted
    <3>3. /\ Counted(RetryOrFail(call[c], "server"), sent[c])
          /\ RetryOrFail(call[c], "server").result # "ok"
      BY <3>2, RetryOrFailCounts
    <3>4. /\ Counted(Done(call[c], ResultOf(c, a)), sent[c])
          /\ Done(call[c], ResultOf(c, a)).result = ResultOf(c, a)
      BY <3>2, ResultOfType, AnswersAreNotLost, DoneCounts
    <3>5. ResultOf(c, a) = "ok" => c \in granted
      BY <3>2, OkIsSuccess DEF Accounted, Earned
    <3>6. /\ sent' = sent /\ granted' = granted
          /\ answer' = [answer EXCEPT ![c] = {}]
      BY <2>9 DEF Answered
    <3>7. CASE a.status >= 500
      BY <2>4, <3>1, <3>3, <3>6, <3>7
    <3>8. CASE ~(a.status >= 500)
      BY <2>4, <3>1, <3>4, <3>5, <3>6, <3>8
    <3> QED BY <3>7, <3>8
  <2>10. ASSUME NEW c \in Calls, WaitEnds(c) PROVE Counted(call[d], sent[d])' /\ Earned(d)'
    <3> DEFINE grown == call[c].backoff * BackoffFactor
               delay == IF grown > MaxBackoff THEN MaxBackoff ELSE grown
               built == [call[c] EXCEPT !.at = "build"]
               counted == [built EXCEPT !.attempt = call[c].attempt + 1]
    <3>1. /\ built.at = "build" /\ built.result = call[c].result /\ built \in Call
          /\ sent[c] = call[c].attempt + 1 /\ call[c].result = "none" /\ call[c].attempt \in Nat
      BY <2>1, <2>10 DEF WaitEnds, Accounted, Counted, Call
    <3>2. call' = [call EXCEPT ![c] = [counted EXCEPT !.backoff = delay]]
      BY <2>10 DEF WaitEnds
    <3> HIDE DEF built, delay
    <3>3. /\ counted.at = "build" /\ counted.attempt = call[c].attempt + 1
          /\ counted.result = "none" /\ DOMAIN counted = DOMAIN built
      BY <3>1 DEF Call
    <3> HIDE DEF counted
    <3> DEFINE next == [counted EXCEPT !.backoff = delay]
    <3>4. /\ next.at = "build" /\ next.attempt = call[c].attempt + 1
          /\ next.result = "none"
      BY <3>1, <3>3 DEF Call
    <3> HIDE DEF next
    <3>5. Counted(next, sent[c]) /\ next.result # "ok"
      BY <3>1, <3>4 DEF Counted
    <3>6. call' = [call EXCEPT ![c] = next] /\ sent' = sent /\ granted' = granted /\ answer' = answer
      BY <2>10, <3>2 DEF WaitEnds, next
    <3> QED BY <2>4, <3>5, <3>6
  <2>11. ASSUME NEW r \in wire, Serve(r) PROVE Counted(call[d], sent[d])' /\ Earned(d)'
    <3>1. PICK a : AnswerTo(r, a) /\ granted' = IF Success(r.call, a) THEN granted \cup {r.call} ELSE granted
      BY <2>11 DEF Serve
    <3>2. call' = call /\ sent' = sent /\ granted \subseteq granted'
      BY <2>11, <3>1 DEF Serve
    <3>3. \A b \in answer'[d] : b \in answer[d] \/ (b = a /\ d = r.call)
      BY <2>1, <3>1 DEF AnswerTo
    <3>4. \A b \in answer'[d] : Success(d, b) => d \in granted'
      BY <2>2, <3>1, <3>2, <3>3 DEF Earned
    <3> QED BY <2>2, <3>2, <3>4 DEF Counted, Earned, Success
  <2>12. UNCHANGED vars \/ SetIdentity => UNCHANGED <<call, sent, answer, granted>>
    BY DEF vars, SetIdentity
  <2> QED BY <2>3, <2>5, <2>6, <2>7, <2>8, <2>9, <2>10, <2>11, <2>12 DEF Next, Step
<1>3. TypeOK /\ Accounted => ResultIsTrue
  <2> SUFFICES ASSUME TypeOK, Accounted, NEW c \in Calls
               PROVE  /\ call[c].result = "ok" => c \in granted
                      /\ call[c].result \in {"network", "server"} => sent[c] = MaxRetries + 1
                      /\ sent[c] <= MaxRetries + 1
    BY DEF ResultIsTrue
  <2>1. call[c].attempt \in 0..MaxRetries /\ sent[c] \in Nat /\ Counted(call[c], sent[c]) /\ Earned(c)
    BY DEF TypeOK, Accounted
  <2> QED BY <2>1 DEF Counted, Earned
<1> QED BY <1>1, <1>2, <1>3, RequestsTyped, PTL DEF Spec
=============================================================================
