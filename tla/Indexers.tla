------------------------------ MODULE Indexers ------------------------------
(***************************************************************************)
(* Indexers of indexers.go: the cached answer of the API's GET /indexers,  *)
(* shared by every routed query and subscription of a Client.              *)
(*                                                                         *)
(* List holds mu while it looks at the cache and again while it stores the *)
(* answer, and sends its request in between, so Invalidate, Evict and the  *)
(* stores of other callers may come before its own store.  Only the age of *)
(* the cache is ever compared (time.Since(cacheFilled) < cacheTTL), so the *)
(* model keeps the ticks it has left.                                      *)
(***************************************************************************)
EXTENDS Integers, Sequences, FiniteSets

CONSTANTS
    DIDs,          \* the indexers
    Score,         \* the PerformanceScore of each
    Registries,    \* the answers /indexers may give
    Callers,       \* the goroutines that call List
    CacheTTL,      \* DefaultCacheTTL, in ticks (30 s)
    Explicit,      \* whether clients have an explicit indexer URL, or both ways
    Override       \* the DID of syntheticEntry, "explicit-override"

Entry == [did : DIDs, serving : BOOLEAN]

ASSUME ScoreAssumption == Score \in [DIDs -> Nat]
ASSUME RegistryAssumption == Registries # {} /\ Registries \subseteq Seq(Entry)
ASSUME TTLAssumption == CacheTTL \in Nat \ {0}
ASSUME OverrideAssumption == Explicit # {} /\ Explicit \subseteq BOOLEAN /\ Override \notin DIDs

VARIABLES
    explicit,     \* HasExplicitOverride: the client was made with an indexer URL
    registry,     \* what the API would answer now
    cache,        \* the entries cached (empty when nil)
    cacheTaken,   \* whether the cache holds an answer
    cacheLeft,    \* ticks until it expires
    call          \* each caller's List: no request, one sent, or its answer

indexerVars == <<explicit, registry, cache, cacheTaken, cacheLeft, call>>

NoCall == [at |-> "none", list |-> <<>>]

Fresh == cacheTaken /\ cacheLeft > 0

\* The members of S, the one before all others first; before relates each two
\* of them one way.
Arranged(S, before) ==
    [i \in 1..Cardinality(S) |->
        CHOOSE k \in S : Cardinality({j \in S : <<j, k>> \in before}) = i - 1]

(***************************************************************************)
(* ForSubgrove: the entries that are active and serve the subgrove, the    *)
(* best score first, entries of equal score in the order of the list.      *)
(***************************************************************************)
Picks(list) == {k \in DOMAIN list : list[k].serving}

BestFirst(list) ==
    {p \in (DOMAIN list) \X (DOMAIN list) :
        \/ Score[list[p[1]].did] > Score[list[p[2]].did]
        \/ Score[list[p[1]].did] = Score[list[p[2]].did] /\ p[1] < p[2]}

ForSubgrove(list) ==
    LET picks == Arranged(Picks(list), BestFirst(list))
    IN  [i \in DOMAIN picks |-> list[picks[i]].did]

(***************************************************************************)
(* The critical sections of Indexers, and the request between them.        *)
(***************************************************************************)
\* List finds the cache empty or expired and sends GET /indexers.
ListMiss(c) ==
    /\ call[c] = NoCall /\ ~Fresh
    /\ call' = [call EXCEPT ![c] = [at |-> "request", list |-> <<>>]]
    /\ UNCHANGED <<explicit, registry, cache, cacheTaken, cacheLeft>>

\* The API answers with the registry as it is now (external).
ListAnswered(c) ==
    /\ call[c].at = "request"
    /\ call' = [call EXCEPT ![c] = [at |-> "answered", list |-> registry]]
    /\ UNCHANGED <<explicit, registry, cache, cacheTaken, cacheLeft>>

\* List stores the answer, whatever happened to the cache since it asked.
ListStore(c) ==
    /\ call[c].at = "answered"
    /\ cache' = call[c].list /\ cacheTaken' = TRUE /\ cacheLeft' = CacheTTL
    /\ call' = [call EXCEPT ![c] = NoCall]
    /\ UNCHANGED <<explicit, registry>>

\* The request fails, or its answer is not a 200 or cannot be decoded.
ListFails(c) ==
    /\ call[c].at = "request"
    /\ call' = [call EXCEPT ![c] = NoCall]
    /\ UNCHANGED <<explicit, registry, cache, cacheTaken, cacheLeft>>

Invalidate ==
    /\ cache' = <<>> /\ cacheTaken' = FALSE
    /\ UNCHANGED <<explicit, registry, cacheLeft, call>>

\* The entries of other indexers, as they were.
Kept(list, did) == {k \in DOMAIN list : list[k].did # did}

Without(list, did) ==
    LET kept == Arranged(Kept(list, did), {p \in (DOMAIN list) \X (DOMAIN list) : p[1] < p[2]})
    IN  [i \in DOMAIN kept |-> list[kept[i]]]

Evict(did) ==
    /\ cache' = Without(cache, did)
    /\ UNCHANGED <<explicit, registry, cacheTaken, cacheLeft, call>>

(***************************************************************************)
(* Time, and the registry of the chain (external).                         *)
(***************************************************************************)
CacheTick ==
    /\ cacheLeft' = IF cacheLeft > 0 THEN cacheLeft - 1 ELSE 0
    /\ UNCHANGED <<explicit, registry, cache, cacheTaken, call>>

RegistryChanges ==
    /\ registry' \in Registries
    /\ UNCHANGED <<explicit, cache, cacheTaken, cacheLeft, call>>

IndexersInit ==
    /\ explicit \in Explicit /\ registry \in Registries
    /\ cache = <<>> /\ cacheTaken = FALSE /\ cacheLeft = 0
    /\ call = [c \in Callers |-> NoCall]

\* Every variable of the cache has its type.
IndexersTypeOK ==
    /\ explicit \in BOOLEAN /\ registry \in Registries /\ cache \in Seq(Entry)
    /\ cacheTaken \in BOOLEAN /\ cacheLeft \in 0..CacheTTL
    /\ call \in [Callers -> [at : {"none", "request", "answered"}, list : Seq(Entry)]]
=============================================================================
