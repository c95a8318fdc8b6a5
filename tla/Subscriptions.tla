---------------------------- MODULE Subscriptions ----------------------------
(***************************************************************************)
(* One subscription of subscriptions.go: Subscribe, subscriptionLoop, pump *)
(* and Unsubscribe, over the discovery cache it shares with other callers  *)
(* (Indexers), a WebSocket server and the consumer of the Events channel.  *)
(*                                                                         *)
(* The goroutine is resolving an endpoint ("resolve", "lookup",            *)
(* "discover"), in connectAndHandshake ("connect"), in pump (at the top of *)
(* its loop, "top", in conn.Read, "read", or sending to the channel,       *)
(* "send"), in its backoff ("backoff") or on its way out ("return",        *)
(* "doneClosed", "ended").  Before the goroutine exists the same steps are *)
(* Subscribe's own, which fails ("failed") where the loop would retry.     *)
(*                                                                         *)
(* Servers number what they send (next and error frames for this           *)
(* subscription) so that the order can be stated; frames for others, pings *)
(* and frames that are not JSON change nothing and are left out.  The      *)
(* numbers are bounded, not the frames: once all are used and received,    *)
(* the numbering begins again.                                             *)
(***************************************************************************)
EXTENDS Indexers

CONSTANTS
    Sub,                   \* the subscription's goroutine, as a caller of List
    Shared,                \* whether other goroutines use the cache
    Options,               \* the SubscribeOptions callers choose from
    MaxReconnectAttempts,  \* 0: retry forever
    ReconnectBackoff,      \* the first delay
    MaxReconnectBackoff,   \* its cap
    MaxInt64,              \* the largest time.Duration, scaled down for TLC
    Capacity,              \* of the Events channel (64)
    NoDID,                 \* the empty indexer DID
    MaxSent,               \* bound: the numbers of the frames servers send
    MaxAttempts            \* bound: the value attempts may reach

ASSUME SubAssumption == Sub \in Callers /\ Shared \in BOOLEAN /\ NoDID \notin DIDs \cup {Override}
ASSUME OptionAssumption ==
    /\ Options \subseteq [source : {"validator", "indexer"}, reconnect : BOOLEAN]
    /\ MaxReconnectAttempts \in Nat
    /\ ReconnectBackoff \in Nat \ {0} /\ MaxReconnectBackoff \in Nat \ {0}
    /\ MaxInt64 \in Nat /\ MaxReconnectBackoff <= MaxInt64
    /\ Capacity \in Nat \ {0} /\ MaxSent \in Nat /\ MaxAttempts \in Nat

VARIABLES
    opts,         \* the subscription's options: Source and Reconnect
    pc,           \* where the goroutine is
    handed,       \* whether Subscribe has started the loop
    cancelled,    \* the loop context, ended by Unsubscribe
    target,       \* the indexer being connected to
    lastDID,      \* lastIndexerDID
    link,         \* the connection: "none", "up", "closed" or "broken"
    frames,       \* what the server sent on it and pump has not read
    sent,         \* the number of the last frame servers sent
    firstSent,    \* history: sent when the connection was opened
    held,         \* the frame pump is sending to the channel
    events,       \* the buffer of the Events channel
    got,          \* the last frame the consumer received
    delivered,    \* deliveredPayload
    attempts,     \* consecutive reconnect attempts
    tries,        \* history: attempts since a payload, as far as one too many
    delay,        \* the backoff before the attempt
    err,          \* Subscription.err
    done,         \* whether Done is closed
    closed,       \* whether Events is closed
    reason,       \* history: why the loop returned
    lastEnd       \* history: how the last connection or attempt ended

loopVars == <<opts, pc, handed, target, lastDID, delivered, attempts, tries, delay, err,
              done, closed, reason, lastEnd>>
streamVars == <<link, frames, sent, firstSent, held, events, got>>
vars == <<indexerVars, loopVars, streamVars, cancelled>>

\* Frames: the kinds pump acts on, with a number for the ones it forwards.
NextFrame(n) == [kind |-> "next", n |-> n]
ErrorFrame(n) == [kind |-> "error", n |-> n]
Complete == [kind |-> "complete", n |-> 0]
Frame == [kind : {"next", "error", "complete"}, n : 0..MaxSent]

(***************************************************************************)
(* The delay before attempt k: the product is computed in float64 and      *)
(* converted to an int64 count of nanoseconds before it is capped.  A      *)
(* product past MaxInt64 has no int64: the conversion yields the smallest  *)
(* int64 on some machines and the largest on others.                       *)
(***************************************************************************)
Converted(d) == IF d <= MaxInt64 THEN {d} ELSE {-MaxInt64 - 1, MaxInt64}

Delays(k) ==
    {IF d > MaxReconnectBackoff THEN MaxReconnectBackoff ELSE d :
        d \in Converted(ReconnectBackoff * 2^(k - 1))}

(***************************************************************************)
(* The loop returns, or goes round its retry loop after the failure e.     *)
(***************************************************************************)
\* Mutation: the context's error surfaces when the subscription is cancelled.
ReturnSurfacing(why, e) ==
    /\ pc' = "return" /\ reason' = why
    /\ err' = IF why = "cancelled" THEN "dropped" ELSE e
    /\ UNCHANGED <<attempts, tries, delay>>

Return(why, e) ==
    /\ pc' = "return" /\ reason' = why /\ err' = e
    /\ UNCHANGED <<attempts, tries, delay>>

Exhausted(k) == MaxReconnectAttempts > 0 /\ k >= MaxReconnectAttempts

\* Retry with attempts at k: give up, or schedule attempt k + 1.
Retry(k, e) ==
    \/ /\ Exhausted(k)
       /\ Return("exhausted", IF e # "nil" THEN e ELSE err)
    \/ /\ ~Exhausted(k) /\ k < MaxAttempts
       /\ attempts' = k + 1
       /\ tries' = IF tries > MaxReconnectAttempts THEN tries ELSE tries + 1
       /\ delay' \in Delays(k + 1)
       /\ pc' = "backoff"
       /\ UNCHANGED <<reason, err>>

(***************************************************************************)
(* resolveAndConnect.                                                      *)
(***************************************************************************)
\* It fails: Subscribe returns the error, the loop retries or, cancelled,
\* returns.
ResolveFails(why) ==
    /\ lastEnd' = "error"
    /\ \/ /\ ~handed
          /\ pc' = "failed" /\ reason' = why
          /\ UNCHANGED <<attempts, tries, delay, err>>
       \/ handed /\ cancelled /\ Return("cancelled", err)
       \/ handed /\ ~cancelled /\ Retry(attempts, why)

\* The endpoint: the API's, or after evicting the indexer last used, the best
\* candidate of discovery.
Resolve ==
    /\ pc = "resolve"
    /\ \/ /\ opts.source = "validator"
          /\ pc' = "connect" /\ UNCHANGED indexerVars
       \/ /\ opts.source = "indexer"
          /\ pc' = "lookup"
          /\ IF lastDID # NoDID THEN Evict(lastDID) ELSE UNCHANGED indexerVars
    /\ UNCHANGED <<opts, handed, target, lastDID, delivered, attempts, tries, delay, err,
                   done, closed, reason, lastEnd, streamVars, cancelled>>

\* ForSubgrove has the candidates: connect to the first.
Choose(candidates) ==
    \/ /\ candidates # <<>>
       /\ target' = Head(candidates) /\ pc' = "connect"
       /\ UNCHANGED <<attempts, tries, delay, err, reason, lastEnd>>
    \/ /\ candidates = <<>>
       /\ ResolveFails("noIndexer")
       /\ UNCHANGED target

\* An explicit indexer URL, or a fresh cache, needs no request.
LookupCached ==
    /\ pc = "lookup"
    /\ explicit \/ Fresh
    /\ Choose(IF explicit THEN <<Override>> ELSE ForSubgrove(cache))
    /\ UNCHANGED <<opts, handed, lastDID, delivered, done, closed, indexerVars, streamVars, cancelled>>

LookupMiss ==
    /\ pc = "lookup" /\ ~explicit
    /\ ListMiss(Sub)
    /\ pc' = "discover"
    /\ UNCHANGED <<opts, handed, target, lastDID, delivered, attempts, tries, delay, err,
                   done, closed, reason, lastEnd, streamVars, cancelled>>

Discovered ==
    /\ pc = "discover"
    /\ ListStore(Sub)
    /\ Choose(ForSubgrove(call[Sub].list))
    /\ UNCHANGED <<opts, handed, lastDID, delivered, done, closed, streamVars, cancelled>>

DiscoveryFails ==
    /\ pc = "discover"
    /\ ListFails(Sub)
    /\ ResolveFails("discovery")
    /\ UNCHANGED <<opts, handed, target, lastDID, delivered, done, closed, streamVars, cancelled>>

\* The socket is open, acknowledged and subscribed.  Not once ctx is done: the
\* dial, the reads and the writes of the handshake all fail then.
Connected ==
    /\ pc = "connect" /\ ~cancelled
    /\ pc' = "top" /\ handed' = TRUE /\ lastDID' = target
    /\ link' = "up" /\ frames' = <<>> /\ firstSent' = sent
    /\ delivered' = FALSE
    /\ UNCHANGED <<opts, target, attempts, tries, delay, err, done, closed, reason, lastEnd,
                   sent, held, events, got, indexerVars, cancelled>>

\* The dial or the handshake fails.  lastIndexerDID stays what it was.
ConnectFails ==
    /\ pc = "connect"
    /\ ResolveFails("connect")
    /\ UNCHANGED <<opts, handed, target, lastDID, delivered, done, closed, indexerVars, streamVars, cancelled>>

(***************************************************************************)
(* pump, and what subscriptionLoop does with its exit.                     *)
(***************************************************************************)
\* The socket is torn down (CloseNow).
TearDown ==
    /\ link' = "none" /\ frames' = <<>> /\ held' = Complete
    /\ UNCHANGED <<sent, firstSent, events, got>>

Goto(place) ==
    /\ pc' = place
    /\ UNCHANGED <<attempts, tries, delay, err, reason>>

\* The loop's variables that pump's steps leave alone.
PumpUnchanged ==
    UNCHANGED <<opts, handed, target, lastDID, done, closed, lastEnd, indexerVars, cancelled>>

PumpTop ==
    /\ pc = "top" /\ ~cancelled
    /\ Goto("read")
    /\ PumpUnchanged /\ UNCHANGED <<delivered, streamVars>>

\* Mutation: a blocked send does not watch the context.
PumpCancelledUnlessSending ==
    /\ pc \in {"top", "read"} /\ cancelled
    /\ TearDown /\ Return("cancelled", err)
    /\ PumpUnchanged /\ UNCHANGED delivered

\* ctx is done at the top, in Read or while the channel is full: the loop sends
\* a best-effort "complete", closes the socket and returns.
PumpCancelled ==
    /\ pc \in {"top", "read", "send"} /\ cancelled
    /\ TearDown /\ Return("cancelled", err)
    /\ PumpUnchanged /\ UNCHANGED delivered

\* Mutation: frames are forwarded in whatever order.
PumpReadsAny ==
    /\ pc = "read"
    /\ \E i \in DOMAIN frames :
        /\ frames[i].kind # "complete" /\ held' = frames[i]
        /\ frames' = SubSeq(frames, 1, i - 1) \o SubSeq(frames, i + 1, Len(frames))
    /\ Goto("send")
    /\ PumpUnchanged /\ UNCHANGED <<delivered, link, sent, firstSent, events, got>>

\* Read returns a frame to forward.
PumpReads ==
    /\ pc = "read" /\ frames # <<>> /\ Head(frames).kind # "complete"
    /\ held' = Head(frames) /\ frames' = Tail(frames)
    /\ Goto("send")
    /\ PumpUnchanged /\ UNCHANGED <<delivered, link, sent, firstSent, events, got>>

\* What a send leaves alone besides the channel.
SendUnchanged ==
    /\ PumpUnchanged
    /\ UNCHANGED <<attempts, delay, err, reason, link, frames, sent, firstSent, got>>

\* Mutation: a send that drops the payload when the channel is full.
PumpSendsOrDrops ==
    /\ pc = "send" /\ pc' = "top"
    /\ events' = IF Len(events) < Capacity THEN Append(events, held.n) ELSE events
    /\ held' = Complete /\ delivered' = TRUE /\ tries' = 0
    /\ SendUnchanged

\* The frame goes into the channel.  Only a "next" counts as a payload.
PumpSends ==
    /\ pc = "send" /\ Len(events) < Capacity
    /\ events' = Append(events, held.n) /\ held' = Complete
    /\ delivered' = (delivered \/ held.kind = "next")
    /\ tries' = IF held.kind = "next" THEN 0 ELSE tries
    /\ pc' = "top"
    /\ SendUnchanged

PumpCompletes ==
    /\ pc = "read" /\ frames # <<>> /\ Head(frames).kind = "complete"
    /\ TearDown /\ Return("complete", err)
    /\ PumpUnchanged /\ UNCHANGED delivered

\* Mutation: a connection that was opened resets the counter.
AttemptsAfterOpened == 0

\* The counter after a disconnect: reset if the connection delivered.
AttemptsAfter == IF delivered THEN 0 ELSE attempts

\* What Read failed with: a normal close is no error.
ReadError == IF link = "closed" THEN "nil" ELSE "dropped"

\* Read fails: the server closed the socket or it broke.
PumpDisconnected ==
    /\ pc = "read" /\ frames = <<>> /\ link \in {"closed", "broken"} /\ ~cancelled
    /\ TearDown
    /\ \/ ~opts.reconnect /\ Return("dropped", IF ReadError # "nil" THEN ReadError ELSE err)
       \/ opts.reconnect /\ Retry(AttemptsAfter, ReadError)
    /\ PumpUnchanged /\ UNCHANGED delivered

(***************************************************************************)
(* The backoff, and the deferred closes: Done before Events.               *)
(***************************************************************************)
BackoffEnds ==
    /\ pc = "backoff"
    /\ Goto("resolve")
    /\ PumpUnchanged /\ UNCHANGED <<delivered, streamVars>>

BackoffCancelled ==
    /\ pc = "backoff" /\ cancelled
    /\ Return("cancelled", err)
    /\ PumpUnchanged /\ UNCHANGED <<delivered, streamVars>>

CloseDone ==
    /\ pc = "return"
    /\ pc' = "doneClosed" /\ done' = TRUE
    /\ UNCHANGED <<opts, handed, target, lastDID, delivered, attempts, tries, delay, err,
                   closed, reason, lastEnd, indexerVars, streamVars, cancelled>>

CloseEvents ==
    /\ pc = "doneClosed"
    /\ pc' = "ended" /\ closed' = TRUE
    /\ UNCHANGED <<opts, handed, target, lastDID, delivered, attempts, tries, delay, err,
                   done, reason, lastEnd, indexerVars, streamVars, cancelled>>

(***************************************************************************)
(* The caller: Unsubscribe, which may be called again, and the consumer.   *)
(***************************************************************************)
\* Mutation: Unsubscribe closes Done itself.
UnsubscribeClosesDone ==
    /\ handed
    /\ cancelled' = TRUE /\ done' = TRUE
    /\ UNCHANGED <<opts, pc, handed, target, lastDID, delivered, attempts, tries, delay, err,
                   closed, reason, lastEnd, indexerVars, streamVars>>

Unsubscribe ==
    /\ handed
    /\ cancelled' = TRUE
    /\ UNCHANGED <<indexerVars, loopVars, streamVars>>

Receive ==
    /\ events # <<>>
    /\ got' = Head(events) /\ events' = Tail(events)
    /\ UNCHANGED <<indexerVars, loopVars, link, frames, sent, firstSent, held, cancelled>>

(***************************************************************************)
(* The server (external): it sends frames, completes the subscription, or  *)
(* ends the connection, and an end may overtake frames not yet read.       *)
(***************************************************************************)
Open == link = "up" /\ \A i \in DOMAIN frames : frames[i].kind # "complete"

ServerSends ==
    /\ Open /\ sent < MaxSent
    /\ \E f \in {NextFrame(sent + 1), ErrorFrame(sent + 1)} : frames' = Append(frames, f)
    /\ sent' = sent + 1
    /\ UNCHANGED <<indexerVars, loopVars, link, firstSent, held, events, got, cancelled>>

\* The numbers are used up, and every frame sent was received or lost with its
\* connection: the next one is number 1 again.
Renumber ==
    /\ sent = MaxSent
    /\ pc # "send" /\ frames = <<>> /\ events = <<>>
    /\ sent' = 0 /\ firstSent' = 0 /\ got' = 0
    /\ UNCHANGED <<indexerVars, loopVars, link, frames, held, events, cancelled>>

ServerCompletes ==
    /\ Open
    /\ frames' = Append(frames, Complete)
    /\ UNCHANGED <<indexerVars, loopVars, link, sent, firstSent, held, events, got, cancelled>>

ConnectionEnds ==
    /\ link = "up"
    /\ \/ link' = "closed" /\ lastEnd' = "clean"
       \/ link' = "broken" /\ lastEnd' = "error"
    /\ \E k \in 0..Len(frames) : frames' = SubSeq(frames, 1, k)
    /\ UNCHANGED <<indexerVars, opts, pc, handed, target, lastDID, delivered, attempts, tries, delay,
                   err, done, closed, reason, sent, firstSent, held, events, got, cancelled>>

(***************************************************************************)
(* Specification.                                                          *)
(***************************************************************************)
Init ==
    /\ IndexersInit /\ opts \in Options
    /\ pc = "resolve" /\ handed = FALSE /\ cancelled = FALSE
    /\ target = NoDID /\ lastDID = NoDID
    /\ link = "none" /\ frames = <<>> /\ sent = 0 /\ firstSent = 0
    /\ held = Complete /\ events = <<>> /\ got = 0
    /\ delivered = FALSE /\ attempts = 0 /\ tries = 0 /\ delay = 0
    /\ err = "nil" /\ done = FALSE /\ closed = FALSE
    /\ reason = "none" /\ lastEnd = "none"

Resolving ==
    Resolve \/ LookupCached \/ LookupMiss \/ Discovered \/ DiscoveryFails \/ Connected \/ ConnectFails

Pumping ==
    PumpTop \/ PumpCancelled \/ PumpReads \/ PumpSends \/ PumpCompletes \/ PumpDisconnected

Ending == BackoffEnds \/ BackoffCancelled \/ CloseDone \/ CloseEvents

Server == ServerSends \/ Renumber \/ ServerCompletes \/ ConnectionEnds

\* The List of another goroutine stores its answer, which may be an old one.
OtherStores ==
    /\ cache' \in Registries /\ cacheTaken' = TRUE /\ cacheLeft' = CacheTTL
    /\ UNCHANGED <<explicit, registry, call>>

\* Everyone else who uses the cache, the API and the clock.
Elsewhere ==
    /\ \/ Shared /\ OtherStores
       \/ Shared /\ \E d \in DIDs : Evict(d)
       \/ Shared /\ Invalidate
       \/ ListAnswered(Sub) \/ CacheTick \/ RegistryChanges
    /\ UNCHANGED <<loopVars, streamVars, cancelled>>

Next == Resolving \/ Pumping \/ Ending \/ Unsubscribe \/ Receive \/ Server \/ Elsewhere

Spec == Init /\ [][Next]_vars
(***************************************************************************)
(* Fairness.  The goroutine takes its next step when it can; a request or  *)
(* a dial whose context is done fails.  For GivesUp: the consumer reads,   *)
(* the API answers or the request fails (the HTTP client has a timeout),   *)
(* and a server answers the handshake or drops the socket (the code sets   *)
(* no deadline there).                                                     *)
(***************************************************************************)
LoopFairness ==
    /\ WF_vars(Resolve) /\ WF_vars(LookupCached \/ LookupMiss) /\ WF_vars(Discovered)
    /\ WF_vars(cancelled /\ DiscoveryFails) /\ WF_vars(cancelled /\ ConnectFails)
    /\ WF_vars(Pumping) /\ WF_vars(Ending)

FairSpec == Spec /\ LoopFairness

Answering ==
    /\ WF_vars(Receive)
    /\ WF_vars(DiscoveryFails \/ Discovered) /\ WF_vars(Connected \/ ConnectFails)

(***************************************************************************)
(* Properties.                                                             *)
(***************************************************************************)
Places == {"resolve", "lookup", "discover", "connect", "top", "read", "send", "backoff",
           "return", "doneClosed", "ended", "failed"}
InPump == {"top", "read", "send"}
Errors == {"nil", "dropped", "connect", "discovery", "noIndexer"}
Reasons == Errors \cup {"none", "complete", "cancelled", "exhausted"}

\* Every variable has its type; the channel never holds more than its capacity.
TypeOK ==
    /\ IndexersTypeOK
    /\ pc \in Places /\ handed \in BOOLEAN /\ cancelled \in BOOLEAN
    /\ target \in DIDs \cup {Override, NoDID} /\ lastDID \in DIDs \cup {Override, NoDID}
    /\ opts \in Options /\ lastEnd \in {"none", "clean", "error"}
    /\ link \in {"none", "up", "closed", "broken"}
    /\ frames \in Seq(Frame) /\ held \in Frame
    /\ sent \in 0..MaxSent /\ firstSent \in 0..sent /\ got \in 0..MaxSent
    /\ events \in Seq(0..MaxSent) /\ Len(events) <= Capacity
    /\ delivered \in BOOLEAN /\ attempts \in Nat /\ tries \in Nat /\ delay \in Int
    /\ err \in Errors /\ reason \in Reasons /\ done \in BOOLEAN /\ closed \in BOOLEAN

\* The numbers of the frames pump has not read.  A "complete" has none, and is
\* the last frame of its connection.
Completed == frames # <<>> /\ frames[Len(frames)].kind = "complete"
Numbers == [i \in 1..(IF Completed THEN Len(frames) - 1 ELSE Len(frames)) |-> frames[i].n]

\* The numbered frames between the servers and the consumer, oldest first,
\* after the last one the consumer received.
InHand == IF pc = "send" THEN <<held.n>> ELSE <<>>
Pipeline == <<got>> \o events \o InHand \o Numbers

\* Payloads reach the consumer in the order the servers sent them and never
\* twice, across any number of reconnects (pump, the Events channel).
InOrder ==
    \A i, j \in DOMAIN Pipeline : i < j => Pipeline[i] < Pipeline[j]

\* "messages that were in flight when the socket dropped are not replayed", and
\* those are the only ones lost: of what the server of the current connection
\* sent nothing is missing, also when the channel was full for a while, and a
\* subscription that ends with the server's "complete" has put everything sent
\* before it into the channel, for the consumer to drain after Events is closed.
NoneLost ==
    /\ \A i \in DOMAIN Pipeline : i > 1 /\ Pipeline[i] > firstSent + 1 => Pipeline[i - 1] = Pipeline[i] - 1
    /\ (link = "up" \/ reason = "complete") /\ sent > firstSent => Pipeline[Len(Pipeline)] = sent

\* "The counter resets only after a reconnection delivers at least one real
\* payload": between two payloads there are never more reconnect attempts than
\* MaxReconnectAttempts, however the attempts end and connections drop.
AttemptsBounded == MaxReconnectAttempts > 0 => tries <= MaxReconnectAttempts

\* "Err returns the error that terminated the subscription, or nil if it was a
\* clean completion or Unsubscribe": errors of attempts that were retried never
\* show through, and when it is given up Err is nil exactly if the last
\* connection was closed normally and no attempt failed after it.
ErrTellsWhy ==
    done => /\ reason \in {"complete", "cancelled"} => err = "nil"
            /\ reason \in {"dropped", "exhausted"} => (err = "nil" <=> lastEnd = "clean")

\* "Safe to call after <-Done()": once Done is closed the error is final and
\* nothing more is put into Events.
FinalOnceDone ==
    [][done => err' = err /\ (events' = events \/ (events # <<>> /\ events' = Tail(events)))]_vars

\* Unsubscribe returns: the loop ends once it is cancelled, whether it is in
\* its backoff, in discovery, in a handshake, reading, or blocked on a channel
\* nobody reads.
UnsubscribeReturns == cancelled ~> done

\* A payload goes into the channel.
Delivers == pc = "send" /\ held.kind = "next" /\ pc' = "top"

\* "this avoids an infinite loop against a server that accepts the subscription
\* but immediately drops the socket": if no connection lasts, everyone answers
\* and from some time on no connection delivers a payload, the subscription ends.
\* A server that delivers one payload on each connection keeps it going, as "the
\* counter resets only after a reconnection delivers at least one real payload".
GivesUp ==
    Answering /\ []<>(link # "up") /\ <>[][~Delivers]_vars => <>(pc \in {"ended", "failed"})

\* "it doubles on each consecutive failure up to MaxReconnectBackoff": while
\* attempts fail the delay never gets shorter.
BackoffNeverShrinks ==
    [][attempts' > attempts /\ attempts > 0 => delay' >= delay]_vars
=============================================================================
