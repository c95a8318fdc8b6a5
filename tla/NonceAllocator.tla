--------------------------- MODULE NonceAllocator ---------------------------
(***************************************************************************)
(* The nonce allocator of nonces.go: what one Client knows of the nonces   *)
(* of one signing DID, and the operations it performs on that knowledge    *)
(* under nonceAllocator.mu.  The accounts of different DIDs share nothing  *)
(* but the lock, so one account is modelled; every operation below is one  *)
(* critical section of the code, or a part of one.                         *)
(*                                                                         *)
(* Time.  The code stores the instants "reserved" and "held" and compares  *)
(* now - at with NonceHold.  Only that comparison is ever made, so a claim *)
(* keeps instead the ticks that are left of each hold: NonceHold when it   *)
(* starts, 0 when it has lapsed or never started (time.Time{}).            *)
(***************************************************************************)
EXTENDS Integers

CONSTANTS
    NonceWindow,   \* nonces above the base the chain accepts (24)
    NonceHold,     \* how long a settled nonce stays taken, in ticks (120 s)
    MaxUint64      \* the largest uint64, scaled down for TLC

ASSUME WindowAssumption == NonceWindow \in Nat \ {0}
ASSUME HoldAssumption == NonceHold \in Nat \ {0}
ASSUME MaxAssumption == MaxUint64 \in Nat /\ MaxUint64 > NonceWindow + 1

Nonces == 0..MaxUint64

\* The chain refuses a nonce at or above this one.
NonceLimit == MaxUint64 - NonceWindow

(***************************************************************************)
(* AccountNonceState: the base and the bitmap of the nonces above it, a    *)
(* set of bit numbers.                                                     *)
(***************************************************************************)
AccountNonceState == [Base : 0..(NonceLimit - 1), Used : SUBSET (0..(NonceWindow - 1))]

IsUsed(state, n) == n <= state.Base \/ (n - state.Base - 1) \in state.Used

(***************************************************************************)
(* nonceClaim and nonceAccount.  The claims map is a total function whose  *)
(* "present" field says whether the map has the key.                       *)
(***************************************************************************)
Claim == [present : BOOLEAN, inFlight : Nat, reserved : 0..NonceHold, held : 0..NonceHold]

NoClaim == [present |-> FALSE, inFlight |-> 0, reserved |-> 0, held |-> 0]

ClaimOf(inFlight, reserved, held) ==
    [present |-> TRUE, inFlight |-> inFlight, reserved |-> reserved, held |-> held]

Account == [base : Nonces, used : SUBSET Nonces, claims : [Nonces -> Claim]]

NewAccount == [base |-> 0, used |-> {}, claims |-> [n \in Nonces |-> NoClaim]]

\* Mutation: a claim lapses although a submission under it is in flight.
liveByHoldOnly(c) == c.reserved > 0 \/ c.held > 0

live(c) == c.inFlight > 0 \/ c.reserved > 0 \/ c.held > 0

\* What the account knows to be used: at or below the base, or seen used.
KnownUsed(a, n) == n <= a.base \/ n \in a.used

(***************************************************************************)
(* merge folds in a state the chain reported.  The base never goes down,   *)
(* the nonces seen used above it are kept, and the claims of used nonces   *)
(* and the lapsed ones are dropped.                                        *)
(***************************************************************************)
\* Mutation: the latest answer wins, however old.
MergedBaseLatest(a, state) == state.Base

MergedBase(a, state) == IF state.Base > a.base THEN state.Base ELSE a.base

\* Mutations: the bitmap read one bit off; the bitmap ignored.
MergedUsedShifted(a, state) ==
    {n \in Nonces : /\ n > MergedBase(a, state)
                    /\ n \in a.used \/ (n - state.Base) \in state.Used}

MergedUsedIgnored(a, state) == {n \in a.used : n > MergedBase(a, state)}

MergedUsed(a, state) ==
    {n \in Nonces : /\ n > MergedBase(a, state)
                    /\ n \in a.used \/ (n - state.Base - 1) \in state.Used}

merge(a, state) ==
    [base   |-> MergedBase(a, state),
     used   |-> MergedUsed(a, state),
     claims |-> [n \in Nonces |->
                    IF \/ n <= MergedBase(a, state)
                       \/ n \in MergedUsed(a, state)
                       \/ ~live(a.claims[n])
                    THEN NoClaim
                    ELSE a.claims[n]]]

view(a) ==
    [Base |-> a.base,
     Used |-> {i \in 0..(NonceWindow - 1) : (a.base + 1 + i) \in a.used}]

(***************************************************************************)
(* pick: the nonces of the window that are neither claimed nor seen used.  *)
(* An account whose base leaves no nonce the chain accepts has none.       *)
(***************************************************************************)
\* Mutation: a window one nonce too wide, without the limit.
FreeTooWide(a) ==
    {n \in Nonces : /\ n > a.base /\ n <= a.base + NonceWindow + 1
                    /\ ~a.claims[n].present /\ n \notin a.used}

Free(a) ==
    IF a.base >= NonceLimit - 1
    THEN {}
    ELSE {n \in (a.base + 1)..(a.base + NonceWindow) :
            n < NonceLimit /\ ~a.claims[n].present /\ n \notin a.used}

IsPicked(a, n) == n \in Free(a) /\ \A m \in Free(a) : n <= m

\* The claim take makes of the nonce it picked.
take(a, n) == [a EXCEPT !.claims[n] = ClaimOf(1, 0, 0)]

\* The claim reserve (NextNonce) makes of the nonce it picked.
reserve(a, n) == [a EXCEPT !.claims[n] = ClaimOf(0, NonceHold, 0)]

(***************************************************************************)
(* begin: a submission under a nonce the caller chose.  Refused while one  *)
(* is in flight; otherwise counted, in place of the reservation and beside *)
(* the hold an earlier submission left.                                    *)
(***************************************************************************)
InFlight(a, n) == a.claims[n].present /\ a.claims[n].inFlight > 0

begin(a, n) == [a EXCEPT !.claims[n] = ClaimOf(@.inFlight + 1, 0, @.held)]

(***************************************************************************)
(* settle: a submission under n ends, leaving the nonce as outcome says.   *)
(***************************************************************************)
Outcomes == {"nonceAccepted", "nonceFree", "nonceHeld", "nonceUsed", "nonceUnknown"}

\* Mutation: a submission that failed in transit gives its nonce back.
HoldingOutcomesKnown == {"nonceAccepted", "nonceHeld"}

HoldingOutcomes == {"nonceAccepted", "nonceHeld", "nonceUnknown"}

\* Mutation: the count is never taken back.
UncountedNever(c) == c

\* The claim without the submission's own in-flight count.
Uncounted(c) ==
    IF c.present /\ c.inFlight > 0 THEN ClaimOf(c.inFlight - 1, c.reserved, c.held) ELSE c

SettledClaim(c, outcome) ==
    IF outcome \in HoldingOutcomes
    THEN ClaimOf(Uncounted(c).inFlight, Uncounted(c).reserved, NonceHold)
    ELSE IF live(Uncounted(c)) THEN Uncounted(c) ELSE NoClaim

settle(a, n, outcome) ==
    IF KnownUsed(a, n) \/ outcome = "nonceUsed"
    THEN [a EXCEPT !.used = IF n > a.base THEN @ \cup {n} ELSE @,
                   !.claims[n] = NoClaim]
    ELSE [a EXCEPT !.claims[n] = SettledClaim(@, outcome)]

(***************************************************************************)
(* The passage of one tick of the allocator's clock.                       *)
(***************************************************************************)
Less(t) == IF t > 0 THEN t - 1 ELSE 0

OlderClaim(c) ==
    [present |-> c.present, inFlight |-> c.inFlight, reserved |-> Less(c.reserved), held |-> Less(c.held)]

Elapse(a) ==
    [a EXCEPT !.claims = [n \in Nonces |-> OlderClaim(a.claims[n])]]
=============================================================================
