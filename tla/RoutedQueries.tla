---------------------------- MODULE RoutedQueries ----------------------------
(***************************************************************************)
(* routeQuery of indexing.go: GraphQL and SQL queries sent to an indexer,  *)
(* to the API, or to the API after the indexers failed, over the discovery *)
(* cache they share.                                                       *)
(*                                                                         *)
(* The indexers and the API are external: a request is answered, fails, is *)
(* answered with a 5xx, or with more than the SDK reads.                   *)
(***************************************************************************)
EXTENDS Indexers

CONSTANTS
    MaxIndexerCandidates,  \* maxIndexerCandidates: 3
    Sources,               \* the QuerySources asked for
    Nobody                 \* no indexer: the empty IndexerDID

AllSources == {"validator", "indexer", "auto"}

ASSUME QueryAssumption ==
    MaxIndexerCandidates \in Nat \ {0} /\ Sources \subseteq AllSources /\ Nobody \notin DIDs \cup {Override}

VARIABLES
    query    \* each caller's query

vars == <<indexerVars, query>>

\* A query that was not made yet.  History: asked, the indexers that failed it;
\* list, the entries it chose its candidates from.
NoQuery ==
    [source |-> "validator", at |-> "none", candidates |-> <<>>, hadCandidates |-> FALSE,
     tooLarge |-> FALSE, served |-> "none", did |-> Nobody, fallback |-> FALSE,
     asked |-> <<>>, list |-> <<>>]

Ended(q, served, did, fallback) ==
    [q EXCEPT !.at = "done", !.served = served, !.did = did, !.fallback = fallback]

Failed(q) == Ended(q, "error", Nobody, FALSE)

\* Mutation: the API is asked even after an answer refused for its size.
AfterIndexersAnySize(q) == IF q.source = "indexer" THEN Failed(q) ELSE [q EXCEPT !.at = "api"]

\* No candidate is left: an indexer query fails; Auto asks the API, unless an
\* answer was refused for its size.
AfterIndexers(q) ==
    IF q.source = "indexer" \/ q.tooLarge THEN Failed(q) ELSE [q EXCEPT !.at = "api"]

\* Mutation: the last of the candidates are kept.
WithLastCandidates(q, list, candidates) ==
    LET n == IF Len(candidates) < MaxIndexerCandidates THEN Len(candidates) ELSE MaxIndexerCandidates
        r == [q EXCEPT !.candidates = SubSeq(candidates, Len(candidates) - n + 1, Len(candidates)),
                       !.hadCandidates = n # 0, !.list = list]
    IN  IF n = 0 THEN AfterIndexers(r) ELSE [r EXCEPT !.at = "ask"]

\* The candidates are known: at most MaxIndexerCandidates of them, in order.
WithCandidates(q, list, candidates) ==
    LET n == IF Len(candidates) < MaxIndexerCandidates THEN Len(candidates) ELSE MaxIndexerCandidates
        r == [q EXCEPT !.candidates = SubSeq(candidates, 1, n), !.hadCandidates = n # 0, !.list = list]
    IN  IF n = 0 THEN AfterIndexers(r) ELSE [r EXCEPT !.at = "ask"]

\* The candidate asked failed: the next one.
NextCandidate(q, tooLarge) ==
    LET r == [q EXCEPT !.candidates = Tail(q.candidates), !.tooLarge = q.tooLarge \/ tooLarge,
                       !.asked = Append(q.asked, Head(q.candidates))]
    IN  IF r.candidates = <<>> THEN AfterIndexers(r) ELSE r

Becomes(c, q) == query' = [query EXCEPT ![c] = q]

(***************************************************************************)
(* Finding the candidates.                                                 *)
(***************************************************************************)
routeQuery(c, source) ==
    /\ query[c].at = "none"
    /\ Becomes(c, [NoQuery EXCEPT !.source = source,
                                  !.at = IF source = "validator" THEN "api" ELSE "lookup"])
    /\ UNCHANGED indexerVars

LookupCached(c) ==
    /\ query[c].at = "lookup"
    /\ explicit \/ Fresh
    /\ IF explicit
       THEN Becomes(c, WithCandidates(query[c], <<>>, <<Override>>))
       ELSE Becomes(c, WithCandidates(query[c], cache, ForSubgrove(cache)))
    /\ UNCHANGED indexerVars

LookupMiss(c) ==
    /\ query[c].at = "lookup" /\ ~explicit
    /\ ListMiss(c)
    /\ Becomes(c, [query[c] EXCEPT !.at = "discover"])

Discovered(c) ==
    /\ query[c].at = "discover"
    /\ ListStore(c)
    /\ Becomes(c, WithCandidates(query[c], call[c].list, ForSubgrove(call[c].list)))

\* Mutation: discovery is tried again until it succeeds.
DiscoveryRetries(c) ==
    /\ query[c].at = "discover"
    /\ ListFails(c)
    /\ Becomes(c, [query[c] EXCEPT !.at = "lookup"])

\* Auto ignores the error and goes on without candidates.
DiscoveryFails(c) ==
    /\ query[c].at = "discover"
    /\ ListFails(c)
    /\ Becomes(c, WithCandidates(query[c], <<>>, <<>>))

(***************************************************************************)
(* Asking the candidates, then the API.                                    *)
(***************************************************************************)
Asked(c) == Head(query[c].candidates)

IndexerAnswers(c) ==
    /\ query[c].at = "ask"
    /\ Becomes(c, Ended(query[c], "indexer", Asked(c), FALSE))
    /\ UNCHANGED indexerVars

\* A transport error, a status below 500 other than 200, or an undecodable
\* answer; or one that is larger than the SDK reads.
IndexerFails(c) ==
    /\ query[c].at = "ask"
    /\ \E tooLarge \in BOOLEAN : Becomes(c, NextCandidate(query[c], tooLarge))
    /\ UNCHANGED indexerVars

\* A 5xx evicts the indexer from the cache.
IndexerBreaks(c) ==
    /\ query[c].at = "ask"
    /\ Evict(Asked(c))
    /\ Becomes(c, NextCandidate(query[c], FALSE))

\* Mutation: an answer of the API is flagged whenever Auto was asked for.
ApiAnswersFlagged(c) ==
    /\ query[c].at = "api"
    /\ Becomes(c, Ended(query[c], "validator", Nobody, query[c].source = "auto"))
    /\ UNCHANGED indexerVars

ApiAnswers(c) ==
    /\ query[c].at = "api"
    /\ Becomes(c, Ended(query[c], "validator", Nobody, query[c].hadCandidates))
    /\ UNCHANGED indexerVars

ApiFails(c) ==
    /\ query[c].at = "api"
    /\ Becomes(c, Failed(query[c]))
    /\ UNCHANGED indexerVars

(***************************************************************************)
(* Specification.                                                          *)
(***************************************************************************)
Init ==
    /\ IndexersInit
    /\ query = [c \in Callers |-> NoQuery]

Finding(c) == LookupCached(c) \/ LookupMiss(c) \/ Discovered(c) \/ DiscoveryFails(c)
Asking(c) == IndexerAnswers(c) \/ IndexerFails(c) \/ IndexerBreaks(c) \/ ApiAnswers(c) \/ ApiFails(c)

\* A caller's Invalidate, the answers of GET /indexers, the clock, the chain.
Elsewhere ==
    /\ Invalidate \/ (\E c \in Callers : ListAnswered(c)) \/ CacheTick \/ RegistryChanges
    /\ UNCHANGED query

Next ==
    \/ \E c \in Callers : (\E source \in Sources : routeQuery(c, source)) \/ Finding(c) \/ Asking(c)
    \/ Elsewhere

Spec == Init /\ [][Next]_vars

\* Requests end (the HTTP client has a timeout), and goroutines run.
FairSpec ==
    Spec /\ \A c \in Callers : /\ WF_vars(LookupCached(c) \/ LookupMiss(c))
                               /\ WF_vars(Discovered(c) \/ DiscoveryFails(c))
                               /\ WF_vars(Asking(c))

(***************************************************************************)
(* Properties.                                                             *)
(***************************************************************************)
Query ==
    [source : AllSources, at : {"none", "lookup", "discover", "ask", "api", "done"},
     candidates : Seq(DIDs \cup {Override}), hadCandidates : BOOLEAN, tooLarge : BOOLEAN,
     served : {"none", "error", "indexer", "validator"}, did : DIDs \cup {Override, Nobody},
     fallback : BOOLEAN, asked : Seq(DIDs \cup {Override}), list : Seq(Entry)]

\* Every variable has its type, and a query that asks has a candidate to ask.
TypeOK ==
    /\ IndexersTypeOK
    /\ query \in [Callers -> Query]
    /\ \A c \in Callers : query[c].at = "ask" => query[c].candidates # <<>>

\* The entries that serve the subgrove and whose indexer is not tried.
PassedOver(list, tried) ==
    {i \in DOMAIN list : list[i].serving /\ \A k \in DOMAIN tried : tried[k] # list[i].did}

\* tried are the best that serve the subgrove, best first.
TheBest(list, tried) ==
    /\ Len(tried) <= MaxIndexerCandidates
    /\ \A k, l \in DOMAIN tried : k < l => Score[tried[k]] >= Score[tried[l]]
    /\ \A i \in PassedOver(list, tried), k \in DOMAIN tried : Score[tried[k]] >= Score[list[i].did]
    /\ PassedOver(list, tried) # {} => Len(tried) = MaxIndexerCandidates

\* "It tries at most the three best-scored indexers serving the subgrove": at
\* most MaxIndexerCandidates are asked, none after one that scores lower, and a
\* serving indexer of the list is passed over only for that many as good.
AtMostTheBest ==
    ~explicit => \A c \in Callers : TheBest(query[c].list, query[c].asked \o query[c].candidates)

\* "An indexer that answered with more than the SDK reads holds the rows ... its
\* answer wouldn't be the query's": a query one indexer answered too largely is
\* not served by the API, whatever the other indexers do.
TooLargeIsFinal == \A c \in Callers : query[c].tooLarge => query[c].served # "validator"

\* "Fallback: true when Auto routing fell back from indexer to validator": an
\* answer is flagged exactly when an indexer failed the query before the API
\* answered it.
FallbackIsTrue ==
    \A c \in Callers :
        query[c].served = "validator" => (query[c].fallback <=> query[c].asked # <<>>)

\* Every query returns, though discovery, the indexers and the API all fail.
QueriesReturn == \A c \in Callers : query[c].at = "lookup" ~> query[c].at = "done"
=============================================================================
