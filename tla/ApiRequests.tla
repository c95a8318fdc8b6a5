----------------------------- MODULE ApiRequests -----------------------------
(***************************************************************************)
(* Requests to the API, as client.go sends them: doRequest and requestData *)
(* over doWithRetry, each attempt built and signed anew, while other       *)
(* goroutines change the client's identity and callers end their contexts. *)
(*                                                                         *)
(* The API and the network are external.  A request may be served long     *)
(* after its caller stopped waiting for it, or never, and an answer may be *)
(* lost; a nonce-signed request is taken once.  Every route sent through   *)
(* doRequest is a read, so serving one twice does no harm.                 *)
(***************************************************************************)
EXTENDS Integers, FiniteSets

CONSTANTS
    Calls,           \* the calls of doRequest, one goroutine each
    Gated,           \* those whose route carriesReadRights
    Enveloped,       \* those that come from requestData
    Identities,      \* the identities SetIdentity sets
    NoIdentity,      \* no identity (nil)
    Answers,         \* the answers the API may give
    MaxRetries,      \* RetryConfig
    InitialBackoff,
    MaxBackoff,
    BackoffFactor

Bodies == {"data", "null", "failure", "notFound", "junk", "unreadable"}
Answer == [status : Nat, body : Bodies]

ASSUME CallAssumption ==
    Gated \subseteq Calls /\ Enveloped \subseteq Calls /\ NoIdentity \notin Identities
ASSUME AnswerAssumption == Answers \subseteq Answer
ASSUME RetryAssumption ==
    /\ MaxRetries \in Nat /\ InitialBackoff \in Nat /\ MaxBackoff \in Nat
    /\ InitialBackoff <= MaxBackoff /\ BackoffFactor \in Nat \ {0}

VARIABLES
    identity,   \* Client.identity
    call,       \* each call: where it is, its attempt, its backoff, its result
    request,    \* the request of each call's attempt
    answer,     \* the API's answer to it until the call sees it: {} or one answer
    wire,       \* requests sent and not yet served, waited for or not
    drawn,      \* how many one-time nonces were drawn: the n-th is n
    seen,       \* the nonces the API took, by identity
    sent,       \* history: how many attempts each call sent
    granted,    \* history: the calls the API served successfully
    replays     \* history: the calls the API refused an attempt of as replayed

vars == <<identity, call, request, answer, wire, drawn, seen, sent, granted, replays>>

NoRequest == [call |-> "none", attempt |-> 0, signer |-> NoIdentity, nonce |-> 0]

Idle == [at |-> "none", attempt |-> 0, backoff |-> InitialBackoff, result |-> "none"]

Done(q, result) == [q EXCEPT !.at = "done", !.result = result]

(***************************************************************************)
(* What the caller gets for an answer that is not a 5xx: doRequest,        *)
(* handleErrorResponse and apiEnvelope.decode.                             *)
(***************************************************************************)
\* handleErrorResponse: by status if the body is JSON.
ErrorOf(a) ==
    IF a.body = "junk" THEN "http"
    ELSE CASE a.status = 401 -> "authentication"
           [] a.status = 403 -> "permissionDenied"
           [] a.status = 404 -> "notFound"
           [] a.status = 400 -> "validation"
           [] OTHER -> "http"

\* apiEnvelope.decode; junk is a body or a data that does not decode.
decode(a) ==
    CASE a.body = "failure" -> "api"
      [] a.body = "notFound" -> "notFound"
      [] a.body = "junk" -> "serialization"
      [] OTHER -> "ok"

\* The body is read before the status is looked at: one that breaks off or is
\* over the cap is a network error ("unread"), and not retried.
ResultOf(c, a) ==
    CASE a.body = "unreadable" -> "unread"
      [] a.body # "unreadable" /\ a.status >= 400 -> ErrorOf(a)
      [] a.body # "unreadable" /\ a.status < 400 ->
            IF c \in Enveloped THEN decode(a)
            ELSE IF a.body = "junk" THEN "serialization" ELSE "ok"

(***************************************************************************)
(* doWithRetry.                                                            *)
(***************************************************************************)
doRequest(c) ==
    /\ call[c] = Idle
    /\ call' = [call EXCEPT ![c].at = "build"]
    /\ UNCHANGED <<identity, request, answer, wire, drawn, seen, sent, granted, replays>>

\* Mutation: the request is built before the loop and sent again as it is.
newAPIRequestOnce(c) ==
    IF request[c] # NoRequest THEN request[c]
    ELSE [call |-> c, attempt |-> call[c].attempt, signer |-> identity,
          nonce |-> IF c \in Gated /\ identity # NoIdentity THEN drawn + 1 ELSE 0]

\* newAPIRequest and signAPIRequest: the identity of the moment signs, with a
\* nonce of its own (0: none) if the route carries read rights.
newAPIRequest(c) ==
    [call |-> c, attempt |-> call[c].attempt, signer |-> identity,
     nonce |-> IF c \in Gated /\ identity # NoIdentity THEN drawn + 1 ELSE 0]

\* An attempt is built and sent.
Attempt(c) ==
    /\ call[c].at = "build"
    /\ LET r == newAPIRequest(c)
       IN  /\ request' = [request EXCEPT ![c] = r]
           /\ drawn' = IF r.nonce > drawn THEN r.nonce ELSE drawn
           /\ wire' = wire \cup {r}
    /\ sent' = [sent EXCEPT ![c] = @ + 1]
    /\ call' = [call EXCEPT ![c].at = "sent"]
    /\ UNCHANGED <<identity, answer, seen, granted, replays>>

\* Signing fails: no other attempt is made.
BuildFails(c) ==
    /\ call[c].at = "build" /\ identity # NoIdentity
    /\ call' = [call EXCEPT ![c] = Done(@, "crypto")]
    /\ UNCHANGED <<identity, request, answer, wire, drawn, seen, sent, granted, replays>>

\* Mutation: the last retry is not made.
RetryOrFailEarly(q, e) ==
    IF q.attempt + 1 >= MaxRetries THEN Done(q, e) ELSE [q EXCEPT !.at = "wait"]

\* The attempt failed with e: another one after the backoff, or the error.
RetryOrFail(q, e) ==
    IF q.attempt >= MaxRetries THEN Done(q, e) ELSE [q EXCEPT !.at = "wait"]

\* Mutation: no timeout, an attempt fails only when the API has ended it.
AttemptFailsServed(c) ==
    /\ call[c].at = "sent" /\ request[c] \notin wire
    /\ call' = [call EXCEPT ![c] = RetryOrFail(@, "network")]
    /\ answer' = [answer EXCEPT ![c] = {}]
    /\ UNCHANGED <<identity, request, wire, drawn, seen, sent, granted, replays>>

\* httpClient.Do fails: the request or its answer is lost, its timeout passed,
\* or the context is done.
AttemptFails(c) ==
    /\ call[c].at = "sent"
    /\ call' = [call EXCEPT ![c] = RetryOrFail(@, "network")]
    /\ answer' = [answer EXCEPT ![c] = {}]
    /\ UNCHANGED <<identity, request, wire, drawn, seen, sent, granted, replays>>

\* It returns an answer.
Answered(c) ==
    /\ call[c].at = "sent"
    /\ \E a \in answer[c] :
          call' = [call EXCEPT ![c] = IF a.status >= 500 THEN RetryOrFail(@, "server")
                                      ELSE Done(@, ResultOf(c, a))]
    /\ answer' = [answer EXCEPT ![c] = {}]
    /\ UNCHANGED <<identity, request, wire, drawn, seen, sent, granted, replays>>

\* The wait before the next attempt ends, and the next backoff is computed.
WaitEnds(c) ==
    /\ call[c].at = "wait"
    /\ LET grown == call[c].backoff * BackoffFactor
       IN  call' = [call EXCEPT ![c].at = "build", ![c].attempt = @ + 1,
                                ![c].backoff = IF grown > MaxBackoff THEN MaxBackoff ELSE grown]
    /\ UNCHANGED <<identity, request, answer, wire, drawn, seen, sent, granted, replays>>

\* The caller's context is done, since before the wait or during it.
WaitCancelled(c) ==
    /\ call[c].at = "wait"
    /\ call' = [call EXCEPT ![c] = Done(@, "cancelled")]
    /\ UNCHANGED <<identity, request, answer, wire, drawn, seen, sent, granted, replays>>

(***************************************************************************)
(* Other goroutines: SetIdentity.                                          *)
(***************************************************************************)
SetIdentity ==
    /\ identity' \in Identities \cup {NoIdentity}
    /\ UNCHANGED <<call, request, answer, wire, drawn, seen, sent, granted, replays>>

(***************************************************************************)
(* The API (external): it takes a nonce once per identity, refusing it     *)
(* afterwards, and answers whoever still waits for this request.           *)
(***************************************************************************)
\* The API did what call c asked for, and says so.
Success(c, a) ==
    a.status < 400 /\ IF c \in Enveloped THEN a.body \in {"data", "null"} ELSE a.body \notin {"junk", "unreadable"}

AnswerTo(r, a) ==
    answer' = [answer EXCEPT ![r.call] = IF request[r.call] = r /\ call[r.call].at = "sent" THEN {a} ELSE @]

Replayed(r) == r.nonce # 0 /\ <<r.signer, r.nonce>> \in seen

Serve(r) ==
    /\ wire' = wire \ {r}
    /\ seen' = IF r.nonce = 0 THEN seen ELSE seen \cup {<<r.signer, r.nonce>>}
    /\ replays' = IF Replayed(r) THEN replays \cup {r.call} ELSE replays
    /\ \E a \in IF Replayed(r) THEN {[status |-> 401, body |-> "failure"]} ELSE Answers :
          /\ AnswerTo(r, a)
          /\ granted' = IF Success(r.call, a) THEN granted \cup {r.call} ELSE granted
    /\ UNCHANGED <<identity, call, request, drawn, sent>>

(***************************************************************************)
(* Specification.                                                          *)
(***************************************************************************)
Init ==
    /\ identity \in Identities \cup {NoIdentity}
    /\ call = [c \in Calls |-> Idle] /\ request = [c \in Calls |-> NoRequest]
    /\ answer = [c \in Calls |-> {}] /\ wire = {} /\ drawn = 0 /\ seen = {}
    /\ sent = [c \in Calls |-> 0] /\ granted = {} /\ replays = {}

Step(c) ==
    Attempt(c) \/ BuildFails(c) \/ AttemptFails(c) \/ Answered(c) \/ WaitEnds(c) \/ WaitCancelled(c)

Next ==
    \/ \E c \in Calls : doRequest(c) \/ Step(c)
    \/ SetIdentity
    \/ \E r \in wire : Serve(r)

Spec == Init /\ [][Next]_vars

\* Goroutines run, timers fire, and an attempt ends: the HTTP client has a
\* timeout.  Nothing is assumed of the API.
FairSpec == Spec /\ \A c \in Calls : WF_vars(Step(c))

(***************************************************************************)
(* Properties.                                                             *)
(***************************************************************************)
Results == {"none", "ok", "network", "unread", "server", "http", "authentication", "permissionDenied", "notFound",
            "validation", "api", "serialization", "crypto", "cancelled"}
Request == [call : Calls, attempt : 0..MaxRetries, signer : Identities \cup {NoIdentity}, nonce : Nat]

\* Every variable has its type.
TypeOK ==
    /\ identity \in Identities \cup {NoIdentity}
    /\ call \in [Calls -> [at : {"none", "build", "sent", "wait", "done"}, attempt : 0..MaxRetries,
                           backoff : Nat, result : Results]]
    /\ request \in [Calls -> Request \cup {NoRequest}] /\ wire \subseteq Request
    /\ answer \in [Calls -> SUBSET Answer]
    /\ drawn \in Nat /\ seen \subseteq (Identities \cup {NoIdentity}) \X Nat
    /\ sent \in [Calls -> Nat] /\ granted \subseteq Calls /\ replays \subseteq Calls

\* "Each attempt of a retried request is signed anew", because "each signature
\* is accepted once": however many attempts of however many calls arrive, late,
\* or after their answers were lost, the API never takes one for a replay.
NeverAReplay == replays = {}

\* A call succeeds only if the API served it successfully, and gives up after
\* network errors and 5xx answers only when it has sent MaxRetries + 1 attempts;
\* it never sends more.
ResultIsTrue ==
    \A c \in Calls :
        /\ call[c].result = "ok" => c \in granted
        /\ call[c].result \in {"network", "server"} => sent[c] = MaxRetries + 1
        /\ sent[c] <= MaxRetries + 1

\* Every call returns, though the API answers nothing, late or with 5xx only.
RequestsReturn == \A c \in Calls : call[c].at = "build" ~> call[c].at = "done"
=============================================================================
