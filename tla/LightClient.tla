----------------------------- MODULE LightClient -----------------------------
(***************************************************************************)
(* LightClient of lightclient/client.go: the header it trusts, the calls   *)
(* that replace it, and the background loop.                               *)
(*                                                                         *)
(* stateMu is held while trustedState is read or replaced, never while a   *)
(* request is sent, and VerifyHeader gives it up before                    *)
(* verifyAndUpdateHeader takes it again: between a check and the update it *)
(* allows, any other call may replace the trusted header.                  *)
(*                                                                         *)
(* Endpoints (external) serve any block of Blocks: late, early, of another *)
(* chain, signed by too few.  No signature is verified, as the code says.  *)
(***************************************************************************)
EXTENDS Integers, Sequences, FiniteSetsExt

CONSTANTS
    ChainID,
    ValidatorEndpoints,      \* how many endpoints are configured
    Blocks,                  \* the light blocks endpoints may serve
    Pins,                    \* the light blocks a caller may pin
    Callers,                 \* goroutines that use the client
    TrustingPeriod, MaxClockDrift,
    Numerator, Denominator,  \* TrustThreshold
    MaxStarts,               \* bound: calls of Start
    MaxTime                  \* bound: the clock

\* The loop of the i-th Start is thread i.
Loops == 1..MaxStarts
Threads == Callers \cup Loops

Validator == [address : STRING, power : Nat]
CommitSig == [flag : 1..3, address : STRING]
LightBlock ==
    [chain : STRING, height : Nat, time : Nat, validatorsHash : STRING, nextValidatorsHash : STRING,
     validators : Seq(Validator), signatures : Seq(CommitSig)]

ASSUME BlockAssumption == Blocks \subseteq LightBlock /\ Pins \subseteq LightBlock
ASSUME ConfigAssumption ==
    /\ ValidatorEndpoints \in Nat \ {0} /\ Numerator \in Nat /\ Denominator \in Nat \ {0}
    /\ TrustingPeriod \in Nat /\ MaxClockDrift \in Nat
ASSUME ThreadAssumption == MaxStarts \in Nat /\ Callers \cap Loops = {} /\ MaxTime \in Nat

VARIABLES
    trusted,    \* trustedState, with the header it was synced from: anchor
    saved,      \* the state last exported
    call,       \* each thread's call
    watch,      \* the context each loop waits on or syncs with
    looping,    \* the loops that have not ended
    starts,     \* calls of Start: lc.ctx and lc.cancel are the last one's
    cancelled,  \* the contexts cancelled
    syncDone,   \* whether the channel is closed
    panicked,   \* whether it was closed twice
    stop,       \* the last Stop: none, waiting for syncDone, or returned
    now

loopVars == <<watch, looping, starts, cancelled, syncDone, panicked, stop>>
vars == <<trusted, saved, call, loopVars, now>>

None == [at |-> "none"]
Trusted(block, anchor) == [at |-> now, block |-> block, anchor |-> anchor]
TrustedState == [at : 0..MaxTime, block : Blocks \cup Pins, anchor : Blocks \cup Pins]

(***************************************************************************)
(* VerifyHeader.                                                           *)
(***************************************************************************)
\* The map from addresses keeps the last validator of an address.
PowerOf(block, address) ==
    LET at == {i \in DOMAIN block.validators : block.validators[i].address = address}
    IN  IF at = {} THEN 0 ELSE block.validators[Max(at)].power

\* Entries are counted, so that an address listed twice counts twice.
listedSigningPower(block) ==
    LET listed == {i \in DOMAIN block.signatures : block.signatures[i].flag = 2}
    IN  MapThenSumSet(LAMBDA i : PowerOf(block, block.signatures[i].address), listed)

TotalVotingPower(block) ==
    MapThenSumSet(LAMBDA i : block.validators[i].power, DOMAIN block.validators)

\* TrustThreshold.Validate.  CometBFT keeps the total far enough below int64's
\* limit for the products not to overflow.
MeetsThreshold(block) ==
    listedSigningPower(block) * Denominator >= TotalVotingPower(block) * Numerator

Expired(state) == now - state.at > TrustingPeriod

\* Mutation: the height is not compared.
ChecksPassedAnyHeight(state, block) ==
    /\ block.chain = ChainID /\ ~Expired(state)
    /\ block.time - now <= MaxClockDrift
    /\ MeetsThreshold(block)

ChecksPassed(state, block) ==
    /\ block.chain = ChainID
    /\ block.height > state.block.height
    /\ block.time > state.block.time
    /\ ~Expired(state)
    /\ block.time - now <= MaxClockDrift
    /\ block.height = state.block.height + 1 => block.validatorsHash = state.block.nextValidatorsHash
    /\ MeetsThreshold(block)

(***************************************************************************)
(* Calls.  A call is nowhere, fetching from endpoint ep, or holds a block: *)
(* to check against the trusted header, to update to once checked, or to   *)
(* trust on first use.                                                     *)
(***************************************************************************)
NoCall == [at |-> "none"]
Fetching(use, ep) == [at |-> "fetch", use |-> use, ep |-> ep]
Holding(at, ep, block, anchor) == [at |-> at, ep |-> ep, block |-> block, anchor |-> anchor]

Call ==
    {NoCall} \cup [at : {"fetch"}, use : {"verify", "install"}, ep : 1..ValidatorEndpoints]
             \cup [at : {"verify", "install", "update"}, ep : 1..ValidatorEndpoints,
                   block : Blocks, anchor : Blocks \cup Pins]

\* The call of t moves to place c.  A loop whose call returns selects again,
\* on what lc.ctx is then.
Goto(t, c) ==
    /\ call' = [call EXCEPT ![t] = c]
    /\ watch' = IF t \in Loops /\ c = NoCall THEN [watch EXCEPT ![t] = starts] ELSE watch
    /\ UNCHANGED <<looping, starts, cancelled, syncDone, panicked, stop, saved, now>>

\* Mutation: the endpoints are tried for ever.
NextEndpointForever(t, use, ep) ==
    Goto(t, Fetching(use, IF ep < ValidatorEndpoints THEN ep + 1 ELSE 1))

\* Endpoint ep failed or its block was refused: the next one, or an error.
NextEndpoint(t, use, ep) ==
    Goto(t, IF ep < ValidatorEndpoints THEN Fetching(use, ep + 1) ELSE NoCall)

SyncToLatest(c) ==
    /\ call[c] = NoCall
    /\ Goto(c, Fetching("verify", 1))
    /\ UNCHANGED trusted

\* InitializeWithTrustOnFirstUse, which GetLatestAppHash calls when it finds
\* no trusted state.
TrustOnFirstUse(c) ==
    /\ call[c] = NoCall
    /\ Goto(c, Fetching("install", 1))
    /\ UNCHANGED trusted

\* fetchLatestBlock: a commit, then the validators of its height.
Fetched(t) ==
    /\ call[t].at = "fetch"
    /\ t \in Loops => watch[t] \notin cancelled
    /\ \E b \in Blocks : Goto(t, Holding(call[t].use, call[t].ep, b, b))
    /\ UNCHANGED trusted

FetchFails(t) ==
    /\ call[t].at = "fetch"
    /\ NextEndpoint(t, call[t].use, call[t].ep)
    /\ UNCHANGED trusted

\* verifyAndUpdateHeader, up to the end of VerifyHeader: the trusted header is
\* read once, and may be replaced before Update.
Verify(t) ==
    /\ call[t].at = "verify"
    /\ IF trusted # None /\ ChecksPassed(trusted, call[t].block)
       THEN Goto(t, Holding("update", call[t].ep, call[t].block, trusted.anchor))
       ELSE NextEndpoint(t, "verify", call[t].ep)
    /\ UNCHANGED trusted

\* The rest of it.
Update(t) ==
    /\ call[t].at = "update"
    /\ trusted' = Trusted(call[t].block, call[t].anchor)
    /\ Goto(t, NoCall)

\* Trust on first use replaces whatever is trusted by then, and checks nothing.
Install(t) ==
    /\ call[t].at = "install"
    /\ trusted' = Trusted(call[t].block, call[t].block)
    /\ Goto(t, NoCall)

InitializeWithTrustedHeader ==
    /\ \E b \in Pins : b.chain = ChainID /\ trusted' = Trusted(b, b)
    /\ UNCHANGED <<saved, call, loopVars, now>>

ExportTrustedState ==
    /\ trusted # None
    /\ saved' = trusted
    /\ UNCHANGED <<trusted, call, loopVars, now>>

\* The state keeps the time it was trusted at.
ImportTrustedState ==
    /\ saved # None /\ saved.block.chain = ChainID /\ ~Expired(saved)
    /\ trusted' = saved
    /\ UNCHANGED <<saved, call, loopVars, now>>

(***************************************************************************)
(* The background loop, which Start starts if AutoSync is set.             *)
(***************************************************************************)
Start ==
    /\ starts < MaxStarts /\ stop # "waiting"
    /\ starts' = starts + 1
    /\ looping' = looping \cup {starts + 1}
    /\ watch' = [watch EXCEPT ![starts + 1] = starts + 1]
    /\ UNCHANGED <<trusted, saved, call, cancelled, syncDone, panicked, stop, now>>

\* The ticker fires: the loop syncs with the context of the last Start.
LoopTick(i) ==
    /\ i \in looping /\ call[i] = NoCall
    /\ call' = [call EXCEPT ![i] = Fetching("verify", 1)]
    /\ watch' = [watch EXCEPT ![i] = starts]
    /\ UNCHANGED <<trusted, saved, looping, starts, cancelled, syncDone, panicked, stop, now>>

\* The context the select waits on is done: the loop ends and closes syncDone,
\* which panics if another loop did so before.
LoopEnds(i) ==
    /\ i \in looping /\ call[i] = NoCall /\ watch[i] \in cancelled
    /\ looping' = looping \ {i}
    /\ syncDone' = TRUE /\ panicked' = syncDone
    /\ UNCHANGED <<trusted, saved, call, watch, starts, cancelled, stop, now>>

\* Stop before any Start returns at once and changes nothing.
Stop ==
    /\ starts > 0 /\ stop # "waiting"
    /\ cancelled' = cancelled \cup {starts}
    /\ stop' = "waiting"
    /\ UNCHANGED <<trusted, saved, call, watch, looping, starts, syncDone, panicked, now>>

\* Mutation: Stop does not wait for the loop.
StopReturnsAtOnce ==
    /\ stop = "waiting"
    /\ stop' = "returned"
    /\ UNCHANGED <<trusted, saved, call, watch, looping, starts, cancelled, syncDone, panicked, now>>

StopReturns ==
    /\ stop = "waiting" /\ syncDone
    /\ stop' = "returned"
    /\ UNCHANGED <<trusted, saved, call, watch, looping, starts, cancelled, syncDone, panicked, now>>

Tick ==
    /\ now < MaxTime
    /\ now' = now + 1
    /\ UNCHANGED <<trusted, saved, call, loopVars>>

(***************************************************************************)
(* Specification.  A panic ends the process.                               *)
(***************************************************************************)
Init ==
    /\ trusted = None /\ saved = None
    /\ call = [t \in Threads |-> NoCall]
    /\ watch = [i \in Loops |-> 0]
    /\ looping = {} /\ starts = 0 /\ cancelled = {}
    /\ syncDone = FALSE /\ panicked = FALSE /\ stop = "none"
    /\ now = 0

Step(t) == Fetched(t) \/ FetchFails(t) \/ Verify(t) \/ Update(t) \/ Install(t)

Next ==
    /\ ~panicked
    /\ \/ \E c \in Callers : SyncToLatest(c) \/ TrustOnFirstUse(c)
       \/ \E t \in Threads : Step(t)
       \/ InitializeWithTrustedHeader \/ ExportTrustedState \/ ImportTrustedState
       \/ \E i \in Loops : LoopTick(i) \/ LoopEnds(i)
       \/ Start \/ Stop \/ StopReturns
       \/ Tick

Spec == Init /\ [][Next]_vars

(***************************************************************************)
(* Fairness.  A request ends, since the HTTP client has a timeout; threads *)
(* run.  A select that finds both its context done and a tick may take the *)
(* tick, but a sync with a context that is done fails at once, before the  *)
(* next tick, so that the next select finds the context alone.             *)
(***************************************************************************)
Fairness ==
    /\ \A t \in Threads : WF_vars(~panicked /\ Step(t))
    /\ \A i \in Loops : SF_vars(~panicked /\ LoopEnds(i))
    /\ WF_vars(~panicked /\ StopReturns)

FairSpec == Spec /\ Fairness

(***************************************************************************)
(* Properties.                                                             *)
(***************************************************************************)
\* Every variable has its type.
TypeOK ==
    /\ trusted \in TrustedState \cup {None} /\ saved \in TrustedState \cup {None}
    /\ call \in [Threads -> Call]
    /\ watch \in [Loops -> 0..MaxStarts] /\ looping \subseteq Loops
    /\ starts \in 0..MaxStarts /\ cancelled \subseteq 1..starts
    /\ syncDone \in BOOLEAN /\ panicked \in BOOLEAN
    /\ stop \in {"none", "waiting", "returned"} /\ now \in 0..MaxTime

\* A block that was synced to, by one or several syncs, is of the chain and
\* later than the header first trusted.
Descends(block, anchor) ==
    \/ block = anchor
    \/ block.chain = ChainID /\ block.height > anchor.height /\ block.time > anchor.time

\* "One pinned ... or the latest header an endpoint reports, and then each later
\* header SyncToLatest accepts": however calls interleave, the trusted header is
\* one that was pinned, imported or trusted on first use, or a later header of
\* the chain that was synced to from one.
NeverBelowItsAnchor ==
    \A state \in {trusted, saved} : state # None => Descends(state.block, state.anchor)

\* "Stop stops the light client and background sync": of a client started
\* once, the background sync replaces no header after Stop returned.
QuietAfterStop ==
    [][starts = 1 /\ stop = "returned" => \A i \in Loops : ~Update(i)]_vars

\* SyncToLatest and trust on first use return, though every endpoint fails, and
\* Stop returns, wherever in a sync the loop is.
CallsReturn ==
    /\ \A c \in Callers : call[c] # NoCall ~> call[c] = NoCall \/ panicked
    /\ stop = "waiting" ~> stop = "returned" \/ panicked

\* "And then each later header SyncToLatest accepts": of the headers synced to
\* from one header first trusted, none is replaced by an earlier one.  Not so:
\* of two syncs that checked their blocks against the same trusted header, the
\* one with the earlier block may update last.
SyncsForward ==
    [][\A t \in Threads :
         Update(t) /\ trusted # None /\ trusted.anchor = call[t].anchor
           => call[t].block.height >= trusted.block.height]_vars
=============================================================================
