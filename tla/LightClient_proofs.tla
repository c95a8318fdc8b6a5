-------------------------- MODULE LightClient_proofs --------------------------
(***************************************************************************)
(* What holds of every light client: it never trusts a synced header that  *)
(* is not later than the header it was synced from, and Stop waits for the *)
(* background sync.                                                        *)
(***************************************************************************)
EXTENDS LightClient, TLAPS

USE BlockAssumption, ConfigAssumption, ThreadAssumption

(***************************************************************************)
(* The anchor.  A call that passed its checks keeps the anchor of the      *)
(* header it was checked against, and its block is later than that anchor: *)
(* so the update keeps the invariant, whatever is trusted by then.         *)
(***************************************************************************)
Later(block, anchor) ==
    block.chain = ChainID /\ block.height > anchor.height /\ block.time > anchor.time

SoundState(state) ==
    state # None => /\ state.block \in LightBlock /\ state.anchor \in LightBlock
                    /\ Descends(state.block, state.anchor)

SoundCall(c) ==
    /\ c.at = "fetch" => c.use \in {"verify", "install"}
    /\ c.at \in {"verify", "install"} => c.block \in LightBlock
    /\ c.at = "update" => /\ c.block \in LightBlock /\ c.anchor \in LightBlock
                          /\ Later(c.block, c.anchor)

AnchorInv ==
    /\ SoundState(trusted) /\ SoundState(saved)
    /\ call = [t \in Threads |-> call[t]]
    /\ \A t \in Threads : SoundCall(call[t])

\* A later header than one that descends from an anchor descends from it too.
LEMMA ChecksPassedIsLater ==
  ASSUME NEW state, NEW block \in LightBlock, state # None, SoundState(state), ChecksPassed(state, block)
  PROVE  Later(block, state.anchor)
<1>1. /\ block.height \in Nat /\ block.time \in Nat
      /\ state.block.height \in Nat /\ state.block.time \in Nat
      /\ state.anchor.height \in Nat /\ state.anchor.time \in Nat
  BY DEF SoundState, LightBlock
<1>2. /\ block.chain = ChainID
      /\ block.height > state.block.height /\ block.time > state.block.time
  BY DEF ChecksPassed
<1>3. state.block.height >= state.anchor.height /\ state.block.time >= state.anchor.time
  BY <1>1 DEF SoundState, Descends
<1> QED BY <1>1, <1>2, <1>3 DEF Later

\* Calls that are nowhere or still fetching hold no block.
LEMMA NoBlockIsSound ==
  /\ SoundCall(NoCall)
  /\ \A use \in {"verify", "install"} : \A ep : SoundCall(Fetching(use, ep))
BY DEF SoundCall, NoCall, Fetching

\* Moving a call to a sound place keeps every call sound.
LEMMA GotoKeepsCalls ==
  ASSUME AnchorInv, NEW t \in Threads, NEW c, SoundCall(c), Goto(t, c)
  PROVE  /\ call' = [u \in Threads |-> call'[u]]
         /\ \A u \in Threads : SoundCall(call'[u])
         /\ saved' = saved
BY DEF AnchorInv, Goto

\* Going on to the next endpoint, or giving up, keeps the invariant.
LEMMA NextEndpointKeeps ==
  ASSUME AnchorInv, NEW t \in Threads, NEW use \in {"verify", "install"}, NEW ep, NextEndpoint(t, use, ep), trusted' = trusted
  PROVE  AnchorInv'
<1>1. SoundCall(IF ep < ValidatorEndpoints THEN Fetching(use, ep + 1) ELSE NoCall)
  BY NoBlockIsSound
<1> QED BY <1>1, GotoKeepsCalls DEF NextEndpoint, AnchorInv, SoundState, SoundCall, Descends, Later

\* "Each later header SyncToLatest accepts": for any endpoints, callers and
\* clock, the trusted header is one pinned, imported or trusted on first use,
\* or a later one of the chain synced to from it (verifyAndUpdateHeader).
THEOREM SyncStaysAboveItsAnchor == Spec => []NeverBelowItsAnchor
<1>1. Init => AnchorInv
  BY NoBlockIsSound DEF Init, AnchorInv, SoundState
<1>2. AnchorInv /\ [Next]_vars => AnchorInv'
  <2> SUFFICES ASSUME AnchorInv, [Next]_vars PROVE AnchorInv'
    OBVIOUS
  <2>1. ASSUME NEW t \in Threads, NEW c, SoundCall(c), Goto(t, c), SoundState(trusted') PROVE AnchorInv'
    BY <2>1, GotoKeepsCalls DEF AnchorInv, SoundState, SoundCall, Descends, Later
  <2>2. SoundState(trusted)
    BY DEF AnchorInv
  <2>3. ASSUME NEW c \in Callers, SyncToLatest(c) \/ TrustOnFirstUse(c) PROVE AnchorInv'
    <3>1. c \in Threads /\ trusted' = trusted
      BY <2>3 DEF Threads, SyncToLatest, TrustOnFirstUse
    <3>2. Goto(c, Fetching("verify", 1)) \/ Goto(c, Fetching("install", 1))
      BY <2>3 DEF SyncToLatest, TrustOnFirstUse
    <3> QED BY <3>1, <3>2, <2>1, <2>2, NoBlockIsSound
  <2>4. ASSUME NEW t \in Threads, Step(t) PROVE AnchorInv'
    <3>0. SoundCall(call[t])
      BY DEF AnchorInv
    <3>1. CASE Fetched(t)
      <4>1. PICK b \in Blocks : Goto(t, Holding(call[t].use, call[t].ep, b, b))
        BY <3>1 DEF Fetched
      <4>2. SoundCall(Holding(call[t].use, call[t].ep, b, b)) /\ trusted' = trusted
        BY <3>0, <3>1 DEF Fetched, SoundCall, Holding
      <4> QED BY <4>1, <4>2, <2>1, <2>2
    <3>2. CASE FetchFails(t)
      BY <3>0, <3>2, NextEndpointKeeps DEF FetchFails, SoundCall
    <3>3. CASE Verify(t)
      <4>1. CASE trusted # None /\ ChecksPassed(trusted, call[t].block)
        <5>1. Later(call[t].block, trusted.anchor) /\ call[t].block \in LightBlock /\ trusted.anchor \in LightBlock
          BY <2>2, <3>0, <3>3, <4>1, ChecksPassedIsLater DEF Verify, SoundCall, SoundState
        <5>2. SoundCall(Holding("update", call[t].ep, call[t].block, trusted.anchor))
          BY <5>1 DEF SoundCall, Holding
        <5>3. Goto(t, Holding("update", call[t].ep, call[t].block, trusted.anchor)) /\ trusted' = trusted
          BY <3>3, <4>1 DEF Verify
        <5> QED BY <5>2, <5>3, <2>1, <2>2
      <4>2. CASE ~(trusted # None /\ ChecksPassed(trusted, call[t].block))
        <5>1. NextEndpoint(t, "verify", call[t].ep) /\ trusted' = trusted
          BY <3>3, <4>2 DEF Verify
        <5> QED BY <5>1, NextEndpointKeeps
      <4> QED BY <4>1, <4>2
    <3>4. CASE Update(t)
      <4>1. SoundState(Trusted(call[t].block, call[t].anchor))
        BY <3>0, <3>4 DEF Update, SoundCall, SoundState, Trusted, Descends, Later
      <4>2. trusted' = Trusted(call[t].block, call[t].anchor) /\ Goto(t, NoCall)
        BY <3>4 DEF Update
      <4> QED BY <4>1, <4>2, <2>1, NoBlockIsSound
    <3>5. CASE Install(t)
      <4>1. SoundState(Trusted(call[t].block, call[t].block))
        BY <3>0, <3>5 DEF Install, SoundCall, SoundState, Trusted, Descends
      <4>2. trusted' = Trusted(call[t].block, call[t].block) /\ Goto(t, NoCall)
        BY <3>5 DEF Install
      <4> QED BY <4>1, <4>2, <2>1, NoBlockIsSound
    <3> QED BY <2>4, <3>1, <3>2, <3>3, <3>4, <3>5 DEF Step
  <2>5. ASSUME call' = call, SoundState(trusted'), SoundState(saved') PROVE AnchorInv'
    BY <2>5 DEF AnchorInv, SoundState, SoundCall, Descends, Later
  <2>6. CASE InitializeWithTrustedHeader
    <3>1. PICK b \in Pins : trusted' = Trusted(b, b)
      BY <2>6 DEF InitializeWithTrustedHeader
    <3>2. SoundState(Trusted(b, b))
      BY DEF SoundState, Trusted, Descends
    <3> QED BY <2>5, <2>6, <3>1, <3>2 DEF InitializeWithTrustedHeader, AnchorInv
  <2>7. CASE ExportTrustedState \/ ImportTrustedState
    BY <2>5, <2>7 DEF ExportTrustedState, ImportTrustedState, AnchorInv
  <2>8. ASSUME NEW i \in Loops, LoopTick(i) PROVE AnchorInv'
    <3>1. \A u \in Threads : SoundCall(call'[u])
      BY <2>8, NoBlockIsSound DEF LoopTick, AnchorInv
    <3> QED BY <2>8, <3>1 DEF LoopTick, AnchorInv, SoundState, SoundCall, Descends, Later
  <2>9. CASE (\E i \in Loops : LoopEnds(i)) \/ Start \/ Stop \/ StopReturns \/ Tick \/ UNCHANGED vars
    BY <2>5, <2>9 DEF LoopEnds, Start, Stop, StopReturns, Tick, vars, AnchorInv
  <2> QED BY <2>3, <2>4, <2>6, <2>7, <2>8, <2>9 DEF Next
<1>3. AnchorInv => NeverBelowItsAnchor
  BY DEF AnchorInv, SoundState, NeverBelowItsAnchor
<1> QED BY <1>1, <1>2, <1>3, PTL DEF Spec

(***************************************************************************)
(* Stop.  It returns once syncDone is closed, which the loop does as its   *)
(* last step; a loop that ended has no call left that could update.        *)
(***************************************************************************)
QuietInv ==
    /\ starts \in Nat /\ looping \subseteq 1..starts
    /\ call = [t \in Threads |-> call[t]]
    /\ \A i \in Loops \ looping : call[i] = NoCall
    /\ stop = "returned" => syncDone = TRUE
    /\ syncDone = TRUE => starts > 0
    /\ starts = 1 /\ syncDone = TRUE => looping = {}

\* A step of a call belongs to a caller or to a loop that runs, and leaves
\* every other call and the loops' bookkeeping alone.
LEMMA StepOfOne ==
  ASSUME QuietInv, NEW t \in Threads, Step(t)
  PROVE  /\ t \in Callers \cup looping
         /\ \E c : call' = [call EXCEPT ![t] = c]
         /\ UNCHANGED <<looping, starts, syncDone, stop>>
<1>1. call[t] # NoCall
  BY DEF Step, Fetched, FetchFails, Verify, Update, Install, NoCall
<1>2. t \in Callers \cup looping
  BY <1>1 DEF QuietInv, Threads
<1>3. \E c : Goto(t, c)
  BY Zenon DEF Step, Fetched, FetchFails, Verify, Update, Install, NextEndpoint
<1> QED BY <1>2, <1>3 DEF Goto

\* "Stop stops the light client and background sync": for any endpoints and
\* callers, once Stop of a client started once returned, the background sync
\* replaces no header (syncLoop's deferred close of syncDone).
THEOREM StopIsQuiet == Spec => QuietAfterStop
<1>1. Init => QuietInv
  BY DEF Init, QuietInv, Threads
<1>2. QuietInv /\ [Next]_vars => QuietInv'
  <2> SUFFICES ASSUME QuietInv, [Next]_vars PROVE QuietInv'
    OBVIOUS
  <2>1. ASSUME NEW t \in Callers \cup looping, t \in Threads, NEW c, call' = [call EXCEPT ![t] = c],
               UNCHANGED <<looping, starts, syncDone, stop>>
        PROVE  QuietInv'
    BY <2>1 DEF QuietInv
  <2>2. ASSUME NEW c \in Callers, SyncToLatest(c) \/ TrustOnFirstUse(c) PROVE QuietInv'
    BY <2>1, <2>2 DEF SyncToLatest, TrustOnFirstUse, Goto, Threads
  <2>3. ASSUME NEW t \in Threads, Step(t) PROVE QuietInv'
    BY <2>1, <2>3, StepOfOne
  <2>4. ASSUME NEW i \in Loops, LoopTick(i) PROVE QuietInv'
    BY <2>1, <2>4 DEF LoopTick, Threads
  <2>5. ASSUME NEW i \in Loops, LoopEnds(i) PROVE QuietInv'
    <3>1. /\ i \in looping /\ call[i] = NoCall /\ looping' = looping \ {i} /\ syncDone' = TRUE
          /\ UNCHANGED <<call, starts, stop>>
      BY <2>5 DEF LoopEnds
    <3>2. starts > 0 /\ (starts = 1 => looping \ {i} = {})
      BY <3>1 DEF QuietInv
    <3> QED BY <3>1, <3>2 DEF QuietInv
  <2>6. CASE Start
    BY <2>6 DEF Start, QuietInv
  <2>7. CASE Stop \/ StopReturns
    BY <2>7 DEF Stop, StopReturns, QuietInv
  <2>8. ASSUME UNCHANGED <<call, looping, starts, syncDone, stop>> PROVE QuietInv'
    BY <2>8 DEF QuietInv
  <2>9. CASE InitializeWithTrustedHeader \/ ExportTrustedState \/ ImportTrustedState \/ Tick \/ UNCHANGED vars
    BY <2>8, <2>9 DEF InitializeWithTrustedHeader, ExportTrustedState, ImportTrustedState, Tick, vars, loopVars
  <2> QED BY <2>2, <2>3, <2>4, <2>5, <2>6, <2>7, <2>9 DEF Next
<1>3. QuietInv => (starts = 1 /\ stop = "returned" => \A i \in Loops : ~Update(i))
  BY DEF QuietInv, Update, NoCall
<1>4. QuietInv /\ [Next]_vars =>
        [starts = 1 /\ stop = "returned" => \A i \in Loops : ~Update(i)]_vars
  BY <1>3
<1> QED BY <1>1, <1>2, <1>4, PTL DEF Spec, QuietAfterStop
=============================================================================
