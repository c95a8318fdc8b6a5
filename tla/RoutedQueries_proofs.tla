------------------------- MODULE RoutedQueries_proofs -------------------------
(***************************************************************************)
(* What holds of every routed query, for any number of queries and         *)
(* candidates, any registry and whatever the others do to the cache: an    *)
(* answer that is too large is final, the fallback flag is true, and the   *)
(* indexers asked are the best of the list the query was given, in order.  *)
(***************************************************************************)
EXTENDS RoutedQueries, SequenceTheorems, FiniteSetTheorems, TLAPS

(***************************************************************************)
(* Records.  A query is given by its fields, whatever their values.        *)
(***************************************************************************)
Fields(source, at, candidates, had, large, served, did, fallback, asked, list) ==
    [source |-> source, at |-> at, candidates |-> candidates, hadCandidates |-> had,
     tooLarge |-> large, served |-> served, did |-> did, fallback |-> fallback,
     asked |-> asked, list |-> list]

Whole(q) == q = Fields(q.source, q.at, q.candidates, q.hadCandidates, q.tooLarge, q.served, q.did,
                       q.fallback, q.asked, q.list)

Before == {"none", "lookup", "discover"}

\* Where a query is decides what it met so far.
Sound(q) ==
    /\ Whole(q)
    /\ \E S : q.asked \in Seq(S)
    /\ q.at \in Before => q.asked = <<>> /\ ~q.tooLarge
    /\ q.at = "ask" => q.hadCandidates
    /\ q.at = "api" => ~q.tooLarge /\ (q.hadCandidates <=> q.asked # <<>>)
    /\ q.at # "done" => q.served = "none"
    /\ q.served = "validator" => ~q.tooLarge /\ (q.fallback <=> q.asked # <<>>)

\* The invariant: every query is sound.
QueryInv ==
    /\ DOMAIN query = Callers
    /\ \A c \in Callers : Sound(query[c])

\* A query that is given by its fields is whole.
LEMMA FieldsWhole ==
  ASSUME NEW source, NEW at, NEW candidates, NEW had, NEW large, NEW served, NEW did, NEW fallback,
         NEW asked, NEW list, NEW e,
         e = Fields(source, at, candidates, had, large, served, did, fallback, asked, list)
  PROVE  /\ e.source = source /\ e.at = at /\ e.candidates = candidates /\ e.hadCandidates = had
         /\ e.tooLarge = large /\ e.served = served /\ e.did = did /\ e.fallback = fallback
         /\ e.asked = asked /\ e.list = list
         /\ Whole(e)
BY DEF Fields, Whole

\* A query that ends keeps what it met.
LEMMA EndedFields ==
  ASSUME NEW q, Whole(q), NEW served, NEW did, NEW fallback, NEW e, e = Ended(q, served, did, fallback)
  PROVE  e = Fields(q.source, "done", q.candidates, q.hadCandidates, q.tooLarge, served, did, fallback,
                    q.asked, q.list)
BY DEF Fields, Whole, Ended

\* A query that ends without an answer of the API, or with one that is flagged
\* truly, is sound.
LEMMA EndedSound ==
  ASSUME NEW q, Whole(q), \E S : q.asked \in Seq(S), NEW served, NEW did, NEW fallback,
         served = "validator" => ~q.tooLarge /\ (fallback <=> q.asked # <<>>)
  PROVE  Sound(Ended(q, served, did, fallback))
<1> SUFFICES ASSUME NEW e, e = Ended(q, served, did, fallback)
             PROVE  Sound(e)
  OBVIOUS
<1>1. e = Fields(q.source, "done", q.candidates, q.hadCandidates, q.tooLarge, served, did, fallback,
                 q.asked, q.list)
  BY EndedFields
<1>2. /\ e.at = "done" /\ e.served = served /\ e.asked = q.asked /\ e.fallback = fallback
      /\ e.tooLarge = q.tooLarge /\ Whole(e)
  BY <1>1, FieldsWhole
<1> QED BY <1>2 DEF Sound, Before

\* A query without a candidate left fails or asks the API.
LEMMA AfterIndexersSound ==
  ASSUME NEW q, Whole(q), \E S : q.asked \in Seq(S), q.served = "none",
         q.hadCandidates <=> q.asked # <<>>
  PROVE  Sound(AfterIndexers(q))
<1>1. CASE q.source = "indexer" \/ q.tooLarge
  <2>1. Sound(Ended(q, "error", Nobody, FALSE))
    BY EndedSound
  <2> QED BY <1>1, <2>1 DEF AfterIndexers, Failed
<1>2. CASE ~(q.source = "indexer" \/ q.tooLarge)
  <2> SUFFICES ASSUME NEW a, a = [q EXCEPT !.at = "api"]
               PROVE  Sound(a)
    BY <1>2 DEF AfterIndexers
  <2>1. a = Fields(q.source, "api", q.candidates, q.hadCandidates, q.tooLarge, q.served, q.did, q.fallback,
                   q.asked, q.list)
    BY DEF Whole, Fields
  <2>2. /\ a.at = "api" /\ a.served = "none" /\ a.asked = q.asked /\ Whole(a)
        /\ a.tooLarge = q.tooLarge /\ a.hadCandidates = q.hadCandidates
    BY <2>1, FieldsWhole
  <2> QED BY <1>2, <2>2 DEF Sound, Before
<1> QED BY <1>1, <1>2

\* A query that knows its candidates asks the first, or is done with them.
LEMMA WithCandidatesSound ==
  ASSUME NEW q, Sound(q), q.at \in Before, NEW list, NEW candidates
  PROVE  Sound(WithCandidates(q, list, candidates))
<1> DEFINE size == IF Len(candidates) < MaxIndexerCandidates THEN Len(candidates) ELSE MaxIndexerCandidates
<1> SUFFICES ASSUME NEW n, n = size, NEW r,
                    r = [q EXCEPT !.candidates = SubSeq(candidates, 1, n), !.hadCandidates = n # 0, !.list = list]
             PROVE  Sound(IF n = 0 THEN AfterIndexers(r) ELSE [r EXCEPT !.at = "ask"])
  BY DEF WithCandidates
<1>1. r = Fields(q.source, q.at, SubSeq(candidates, 1, n), n # 0, q.tooLarge, q.served, q.did, q.fallback,
                 q.asked, list)
  BY DEF Sound, Whole, Fields
<1>2. q.asked = <<>> /\ ~q.tooLarge /\ q.served = "none"
  BY DEF Sound, Before
<1>3. /\ Whole(r) /\ r.asked = <<>> /\ r.served = "none" /\ r.hadCandidates = (n # 0)
      /\ r.tooLarge = q.tooLarge
  BY <1>1, <1>2, FieldsWhole
<1>4. <<>> \in Seq({})
  OBVIOUS
<1>5. CASE n = 0
  <2>1. Sound(AfterIndexers(r))
    BY <1>3, <1>4, <1>5, AfterIndexersSound
  <2> QED BY <1>5, <2>1
<1>6. CASE n # 0
  <2> SUFFICES ASSUME NEW a, a = [r EXCEPT !.at = "ask"]
               PROVE  Sound(a)
    BY <1>6
  <2>1. a = Fields(r.source, "ask", r.candidates, r.hadCandidates, r.tooLarge, r.served, r.did, r.fallback,
                   r.asked, r.list)
    BY <1>3 DEF Whole, Fields
  <2>2. /\ a.at = "ask" /\ a.served = "none" /\ a.asked = <<>> /\ Whole(a)
        /\ a.tooLarge = q.tooLarge /\ a.hadCandidates = (n # 0)
    BY <2>1, <1>3, FieldsWhole
  <2> QED BY <1>2, <1>4, <1>6, <2>2 DEF Sound, Before
<1> QED BY <1>5, <1>6

\* A query whose candidate failed has asked an indexer.
LEMMA NextCandidateSound ==
  ASSUME NEW q, Sound(q), q.at = "ask", NEW tooLarge \in BOOLEAN
  PROVE  Sound(NextCandidate(q, tooLarge))
<1> SUFFICES ASSUME NEW r,
                    r = [q EXCEPT !.candidates = Tail(q.candidates), !.tooLarge = q.tooLarge \/ tooLarge,
                                  !.asked = Append(q.asked, Head(q.candidates))]
             PROVE  Sound(IF r.candidates = <<>> THEN AfterIndexers(r) ELSE r)
  BY DEF NextCandidate
<1>1. r = Fields(q.source, q.at, Tail(q.candidates), q.hadCandidates, q.tooLarge \/ tooLarge, q.served, q.did,
                 q.fallback, Append(q.asked, Head(q.candidates)), q.list)
  BY DEF Sound, Whole, Fields
<1>2. /\ Whole(r) /\ r.asked = Append(q.asked, Head(q.candidates)) /\ r.served = q.served
      /\ r.hadCandidates = q.hadCandidates /\ r.at = "ask"
  BY <1>1, FieldsWhole
<1>3. q.hadCandidates /\ q.served = "none"
  BY DEF Sound
<1>4. PICK S : q.asked \in Seq(S)
  BY DEF Sound
<1>5. q.asked \in Seq(S \cup {Head(q.candidates)})
  BY <1>4
<1>6. r.asked \in Seq(S \cup {Head(q.candidates)}) /\ r.asked # <<>>
  BY <1>2, <1>5, AppendProperties
<1>7. Sound(AfterIndexers(r))
  BY <1>2, <1>3, <1>6, AfterIndexersSound
<1>8. Sound(r)
  BY <1>2, <1>3, <1>6 DEF Sound, Before
<1> QED BY <1>7, <1>8

\* A query that only moves on to discovery, or starts.
LEMMA MovesSound ==
  ASSUME NEW q, Sound(q), q.at \in Before, NEW at \in Before
  PROVE  Sound([q EXCEPT !.at = at])
<1> SUFFICES ASSUME NEW a, a = [q EXCEPT !.at = at]
             PROVE  Sound(a)
  OBVIOUS
<1>1. a = Fields(q.source, at, q.candidates, q.hadCandidates, q.tooLarge, q.served, q.did, q.fallback,
                 q.asked, q.list)
  BY DEF Sound, Whole, Fields
<1>2. /\ a.at = at /\ a.served = q.served /\ a.asked = q.asked /\ Whole(a) /\ a.tooLarge = q.tooLarge
  BY <1>1, FieldsWhole
<1> QED BY <1>2 DEF Sound, Before

\* A query that was made, or not yet, has met nothing.
LEMMA NewSound ==
  ASSUME NEW source, NEW at \in {"none", "lookup", "api"}, NEW a,
         a = Fields(source, at, <<>>, FALSE, FALSE, "none", Nobody, FALSE, <<>>, <<>>)
  PROVE  Sound(a)
<1>1. a.at = at /\ a.served = "none" /\ a.asked = <<>>
  BY DEF Fields
<1>2. ~a.tooLarge /\ ~a.hadCandidates
  BY DEF Fields
<1>3. Whole(a)
  BY DEF Fields, Whole
<1>4. <<>> \in Seq({})
  OBVIOUS
<1> QED BY <1>1, <1>2, <1>3, <1>4 DEF Sound, Before

LEMMA StartsSound ==
  ASSUME NEW source, NEW at \in {"none", "lookup", "api"}
  PROVE  Sound([NoQuery EXCEPT !.source = source, !.at = at])
<1> SUFFICES ASSUME NEW a, a = [NoQuery EXCEPT !.source = source, !.at = at]
             PROVE  Sound(a)
  OBVIOUS
<1>1. a = Fields(source, at, <<>>, FALSE, FALSE, "none", Nobody, FALSE, <<>>, <<>>)
  BY DEF NoQuery, Fields
<1> QED BY <1>1, NewSound

LEMMA NoQuerySound == Sound(NoQuery)
<1>1. NoQuery = Fields("validator", "none", <<>>, FALSE, FALSE, "none", Nobody, FALSE, <<>>, <<>>)
  BY DEF NoQuery, Fields
<1> QED BY <1>1, NewSound

\* A step that gives one query a sound value keeps the others.
LEMMA BecomesSound ==
  ASSUME QueryInv, NEW c \in Callers, NEW q, Sound(q), Becomes(c, q)
  PROVE  QueryInv'
<1>1. DOMAIN query' = Callers
  BY DEF QueryInv, Becomes
<1>2. ASSUME NEW d \in Callers
      PROVE  Sound(query'[d])
  <2>1. CASE d = c
    <3>1. query'[d] = q
      BY <2>1 DEF QueryInv, Becomes
    <3> QED BY <3>1
  <2>2. CASE d # c
    <3>1. query'[d] = query[d]
      BY <2>2 DEF QueryInv, Becomes
    <3> QED BY <3>1 DEF QueryInv
  <2> QED BY <2>1, <2>2
<1> QED BY <1>1, <1>2 DEF QueryInv, Sound, Whole

(***************************************************************************)
(* Every step keeps the invariant.                                         *)
(***************************************************************************)
LEMMA InvInit == Init => QueryInv
<1> SUFFICES ASSUME Init PROVE QueryInv
  OBVIOUS
<1>1. DOMAIN query = Callers
  BY DEF Init
<1>2. ASSUME NEW c \in Callers PROVE Sound(query[c])
  <2>1. query[c] = NoQuery
    BY DEF Init
  <2> QED BY <2>1, NoQuerySound
<1> QED BY <1>1, <1>2 DEF QueryInv

LEMMA InvNext == QueryInv /\ [Next]_vars => QueryInv'
<1> SUFFICES ASSUME QueryInv, [Next]_vars PROVE QueryInv'
  OBVIOUS
<1>s. \A c \in Callers : Sound(query[c])
  BY DEF QueryInv
<1>1. ASSUME NEW c \in Callers, NEW source \in Sources, routeQuery(c, source) PROVE QueryInv'
  <2> DEFINE at == IF source = "validator" THEN "api" ELSE "lookup"
  <2>1. Sound([NoQuery EXCEPT !.source = source, !.at = at])
    <3>1. at \in {"none", "lookup", "api"}
      OBVIOUS
    <3> HIDE DEF at
    <3> QED BY <3>1, StartsSound
  <2>2. Becomes(c, [NoQuery EXCEPT !.source = source, !.at = at])
    BY <1>1 DEF routeQuery
  <2> QED BY SMTT(60), <2>1, <2>2, BecomesSound
<1>2. ASSUME NEW c \in Callers, LookupCached(c) PROVE QueryInv'
  <2>1. query[c].at \in Before
    BY <1>2 DEF LookupCached, Before
  <2>2. \A list, candidates : Sound(WithCandidates(query[c], list, candidates))
    BY <1>s, <2>1, WithCandidatesSound
  <2>3. \/ Becomes(c, WithCandidates(query[c], <<>>, <<Override>>))
        \/ Becomes(c, WithCandidates(query[c], cache, ForSubgrove(cache)))
    BY <1>2 DEF LookupCached
  <2> QED BY <2>2, <2>3, BecomesSound
<1>3. ASSUME NEW c \in Callers, LookupMiss(c) PROVE QueryInv'
  <2>1. query[c].at \in Before /\ "discover" \in Before
    BY <1>3 DEF LookupMiss, Before
  <2>2. Sound([query[c] EXCEPT !.at = "discover"])
    BY <1>s, <2>1, MovesSound
  <2>3. Becomes(c, [query[c] EXCEPT !.at = "discover"])
    BY <1>3 DEF LookupMiss
  <2> QED BY <2>2, <2>3, BecomesSound
<1>4. ASSUME NEW c \in Callers, Discovered(c) \/ DiscoveryFails(c) PROVE QueryInv'
  <2>1. query[c].at \in Before
    BY <1>4 DEF Discovered, DiscoveryFails, Before
  <2>2. \A list, candidates : Sound(WithCandidates(query[c], list, candidates))
    BY <1>s, <2>1, WithCandidatesSound
  <2>3. \/ Becomes(c, WithCandidates(query[c], call[c].list, ForSubgrove(call[c].list)))
        \/ Becomes(c, WithCandidates(query[c], <<>>, <<>>))
    BY <1>4 DEF Discovered, DiscoveryFails
  <2> QED BY <2>2, <2>3, BecomesSound
<1>5. ASSUME NEW c \in Callers, IndexerAnswers(c) PROVE QueryInv'
  <2>1. Sound(Ended(query[c], "indexer", Asked(c), FALSE))
    BY <1>s, EndedSound DEF Sound
  <2>2. Becomes(c, Ended(query[c], "indexer", Asked(c), FALSE))
    BY <1>5 DEF IndexerAnswers
  <2> QED BY <2>1, <2>2, BecomesSound
<1>6. ASSUME NEW c \in Callers, IndexerFails(c) \/ IndexerBreaks(c) PROVE QueryInv'
  <2>1. query[c].at = "ask"
    BY <1>6 DEF IndexerFails, IndexerBreaks
  <2>2. PICK tooLarge \in BOOLEAN : Becomes(c, NextCandidate(query[c], tooLarge))
    BY <1>6 DEF IndexerFails, IndexerBreaks
  <2>3. Sound(NextCandidate(query[c], tooLarge))
    BY <1>s, <2>1, NextCandidateSound
  <2> QED BY <2>2, <2>3, BecomesSound
<1>7. ASSUME NEW c \in Callers, ApiAnswers(c) PROVE QueryInv'
  <2>1. Sound(query[c]) /\ query[c].at = "api"
    BY <1>s, <1>7 DEF ApiAnswers
  <2>2. Sound(Ended(query[c], "validator", Nobody, query[c].hadCandidates))
    BY <2>1, EndedSound DEF Sound
  <2>3. Becomes(c, Ended(query[c], "validator", Nobody, query[c].hadCandidates))
    BY <1>7 DEF ApiAnswers
  <2> QED BY <2>2, <2>3, BecomesSound
<1>8. ASSUME NEW c \in Callers, ApiFails(c) PROVE QueryInv'
  <2>1. Sound(Ended(query[c], "error", Nobody, FALSE))
    BY <1>s, EndedSound DEF Sound
  <2>2. Becomes(c, Ended(query[c], "error", Nobody, FALSE))
    BY <1>8 DEF ApiFails, Failed
  <2> QED BY <2>1, <2>2, BecomesSound
<1>9. CASE UNCHANGED query
  BY <1>9 DEF QueryInv, Sound, Whole
<1>10. CASE Elsewhere
  BY <1>9, <1>10 DEF Elsewhere
<1>11. CASE UNCHANGED vars
  BY <1>9, <1>11 DEF vars
<1> QED BY <1>1, <1>2, <1>3, <1>4, <1>5, <1>6, <1>7, <1>8, <1>10, <1>11 DEF Next, Finding, Asking

\* A query one indexer answered with more than the SDK reads is never served by
\* the API, in every behaviour of routeQuery over the shared cache.
THEOREM TooLargeIsAlwaysFinal == Spec => []TooLargeIsFinal
<1>1. QueryInv => TooLargeIsFinal
  BY DEF QueryInv, TooLargeIsFinal, Sound
<1> QED BY InvInit, InvNext, <1>1, PTL DEF Spec

\* The Fallback flag of an answer of the API says whether an indexer failed the
\* query first, in every behaviour of routeQuery over the shared cache.
THEOREM FallbackIsAlwaysTrue == Spec => []FallbackIsTrue
<1>1. QueryInv => FallbackIsTrue
  BY DEF QueryInv, FallbackIsTrue, Sound
<1> QED BY InvInit, InvNext, <1>1, PTL DEF Spec

(***************************************************************************)
(* The order of candidates.                                                *)
(***************************************************************************)
\* before relates each two members of S one way.
Orders(before, S) ==
    /\ \A j \in S : <<j, j>> \notin before
    /\ \A j, k \in S : j # k => <<j, k>> \in before \/ <<k, j>> \in before
    /\ \A j, k, l \in S : <<j, k>> \in before /\ <<k, l>> \in before => <<j, l>> \in before

\* How many members of S are before k.
Place(S, before, k) == Cardinality({j \in S : <<j, k>> \in before})

LEMMA PlaceBounds ==
  ASSUME NEW S, IsFiniteSet(S), NEW before, Orders(before, S), NEW k \in S
  PROVE  Place(S, before, k) \in 0..(Cardinality(S) - 1)
<1> DEFINE B == {j \in S : <<j, k>> \in before}
<1>1. B \in SUBSET (S \ {k})
  BY DEF Orders
<1>2. IsFiniteSet(S \ {k}) /\ Cardinality(S \ {k}) = Cardinality(S) - 1
  BY FS_RemoveElement
<1>3. IsFiniteSet(B) /\ Cardinality(B) <= Cardinality(S \ {k})
  BY <1>1, <1>2, FS_Subset
<1>4. Cardinality(B) \in Nat /\ Cardinality(S) \in Nat
  BY <1>3, FS_CardinalityType
<1> QED BY <1>2, <1>3, <1>4 DEF Place

LEMMA PlaceMonotone ==
  ASSUME NEW S, IsFiniteSet(S), NEW before, Orders(before, S), NEW j \in S, NEW k \in S,
         <<j, k>> \in before
  PROVE  Place(S, before, j) < Place(S, before, k)
<1> DEFINE B(x) == {i \in S : <<i, x>> \in before}
<1>1. B(j) \in SUBSET B(k) /\ B(k) \in SUBSET S /\ j \in B(k) /\ j \notin B(j)
  BY DEF Orders
<1>2. IsFiniteSet(B(k))
  BY <1>1, FS_Subset
<1> HIDE DEF B
<1>3. IsFiniteSet(B(j)) /\ Cardinality(B(j)) <= Cardinality(B(k)) /\ Cardinality(B(k)) # Cardinality(B(j))
  BY <1>1, <1>2, FS_Subset
<1>4. Cardinality(B(j)) \in Nat /\ Cardinality(B(k)) \in Nat
  BY <1>2, <1>3, FS_CardinalityType
<1> QED BY <1>3, <1>4 DEF B, Place

\* Arranged(S, before) is all of S in the order of before.
LEMMA ArrangedIs ==
  ASSUME NEW S, IsFiniteSet(S), NEW before, Orders(before, S), NEW a, a = Arranged(S, before)
  PROVE  /\ Cardinality(S) \in Nat /\ a \in [1..Cardinality(S) -> S]
         /\ \A i, j \in 1..Cardinality(S) : i < j => <<a[i], a[j]>> \in before
         /\ \A k \in S : \E i \in 1..Cardinality(S) : a[i] = k
<1> DEFINE n == Cardinality(S)
           f == [k \in S |-> Place(S, before, k)]
<1>0. n \in Nat
  BY FS_CardinalityType
<1>1. \A k \in S : Place(S, before, k) \in 0..(n - 1)
  BY PlaceBounds
<1>2. ASSUME NEW j \in S, NEW k \in S, Place(S, before, j) = Place(S, before, k) PROVE j = k
  <2>1. Place(S, before, j) \in Nat /\ Place(S, before, k) \in Nat
    BY <1>0, <1>1
  <2>2. j # k => Place(S, before, j) < Place(S, before, k) \/ Place(S, before, k) < Place(S, before, j)
    BY PlaceMonotone DEF Orders
  <2> QED BY <1>2, <2>1, <2>2
<1>3. f \in Injection(S, 0..(n - 1))
  <2>1. f \in [S -> 0..(n - 1)]
    BY <1>1
  <2> QED BY <1>2, <2>1 DEF Injection, IsInjective
<1>4. IsFiniteSet(0..(n - 1)) /\ Cardinality(0..(n - 1)) = n
  BY SMTT(60), <1>0, FS_Interval
<1>5. f \in Surjection(S, 0..(n - 1))
  BY <1>3, <1>4, FS_Injection
<1>6. \A i \in 0..(n - 1) : \E k \in S : Place(S, before, k) = i
  BY <1>5 DEF Surjection
<1> HIDE DEF n, f
<1>7. a = [i \in 1..n |-> CHOOSE k \in S : Place(S, before, k) = i - 1]
  BY DEF Arranged, Place, n
<1>8. ASSUME NEW i \in 1..n PROVE a[i] \in S /\ Place(S, before, a[i]) = i - 1
  <2>1. i - 1 \in 0..(n - 1)
    BY <1>0
  <2>2. \E k \in S : Place(S, before, k) = i - 1
    BY <1>6, <2>1
  <2>3. a[i] = CHOOSE k \in S : Place(S, before, k) = i - 1
    BY <1>7
  <2> QED BY <2>2, <2>3
<1>9. a \in [1..n -> S]
  BY <1>7, <1>8
<1>10. ASSUME NEW i \in 1..n, NEW j \in 1..n, i < j PROVE <<a[i], a[j]>> \in before
  <2>1. a[i] # a[j]
    BY <1>8, <1>10
  <2>2. ~(Place(S, before, a[j]) < Place(S, before, a[i]))
    BY <1>8, <1>10
  <2>3. <<a[j], a[i]>> \notin before
    BY <1>8, <2>2, PlaceMonotone
  <2> QED BY <1>8, <2>1, <2>3 DEF Orders
<1>11. ASSUME NEW k \in S PROVE \E i \in 1..n : a[i] = k
  <2>0. Place(S, before, k) + 1 \in 1..n /\ (Place(S, before, k) + 1) - 1 = Place(S, before, k)
    BY <1>0, <1>1
  <2>1. a[Place(S, before, k) + 1] \in S /\ Place(S, before, a[Place(S, before, k) + 1]) = (Place(S, before, k) + 1) - 1
    BY <1>8, <2>0
  <2>2. a[Place(S, before, k) + 1] = k
    BY <1>2, <2>0, <2>1
  <2> QED BY <2>0, <2>2
<1> QED BY <1>0, <1>9, <1>10, <1>11 DEF n

\* Scores, and places of equal scores, order.
LEMMA ScoresOrder ==
  ASSUME NEW S, S \subseteq Nat, NEW score \in [S -> Nat], NEW before,
         \A j, k \in S : <<j, k>> \in before <=> score[j] > score[k] \/ (score[j] = score[k] /\ j < k)
  PROVE  Orders(before, S)
<1>1. \A j \in S : j \in Nat /\ score[j] \in Nat
  OBVIOUS
<1>2. \A j \in S : <<j, j>> \notin before
  BY <1>1
<1>3. ASSUME NEW j \in S, NEW k \in S, j # k PROVE <<j, k>> \in before \/ <<k, j>> \in before
  BY <1>1, <1>3
<1>4. ASSUME NEW j \in S, NEW k \in S, NEW l \in S, <<j, k>> \in before, <<k, l>> \in before
      PROVE  <<j, l>> \in before
  BY <1>1, <1>4
<1> QED BY <1>2, <1>3, <1>4 DEF Orders

\* The entries that serve the subgrove are arranged, best first.
LEMMA ForSubgroveIs ==
  ASSUME NEW list \in Seq(Entry), NEW all, all = ForSubgrove(list)
  PROVE  /\ all \in Seq(DIDs)
         /\ \A k, l \in 1..Len(all) : k < l => Score[all[k]] >= Score[all[l]]
         /\ \A i \in Picks(list) : \E k \in 1..Len(all) :
               all[k] = list[i].did /\ \A l \in 1..Len(all) : l < k => Score[all[l]] >= Score[list[i].did]
<1> DEFINE S == Picks(list)
           m == Cardinality(S)
           before == BestFirst(list)
           a == Arranged(S, before)
<1>0. Len(list) \in Nat /\ DOMAIN list = 1..Len(list) /\ \A i \in 1..Len(list) : list[i] \in Entry
  BY LenProperties, ElementOfSeq
<1>1. S \in SUBSET (1..Len(list)) /\ IsFiniteSet(S)
  <2>1. S \in SUBSET (1..Len(list))
    BY <1>0 DEF Picks
  <2>2. IsFiniteSet(1..Len(list))
    BY <1>0, FS_Interval
  <2> QED BY <2>1, <2>2, FS_Subset
<1>2. \A i \in S : list[i].did \in DIDs /\ Score[list[i].did] \in Nat /\ i \in Nat /\ i \in DOMAIN list
  BY <1>0, <1>1, ScoreAssumption DEF Entry
<1> DEFINE score == [i \in S |-> Score[list[i].did]]
<1>3. score \in [S -> Nat] /\ S \subseteq Nat /\ \A i \in S : score[i] = Score[list[i].did]
  BY <1>2
<1> HIDE DEF S, score
<1>s. ASSUME NEW j \in S, NEW k \in S
      PROVE  <<j, k>> \in before <=> score[j] > score[k] \/ (score[j] = score[k] /\ j < k)
  <2>1. <<j, k>> \in (DOMAIN list) \X (DOMAIN list) /\ <<j, k>>[1] = j /\ <<j, k>>[2] = k
    BY <1>2
  <2>2. score[j] = Score[list[j].did] /\ score[k] = Score[list[k].did]
    BY <1>3
  <2>3. ASSUME NEW p, p \in (DOMAIN list) \X (DOMAIN list), p[1] = j, p[2] = k
        PROVE  p \in before <=> score[j] > score[k] \/ (score[j] = score[k] /\ j < k)
    BY <2>2, <2>3 DEF BestFirst
  <2> QED BY <2>1, <2>3
<1> HIDE DEF before
<1>4. Orders(before, S)
  BY <1>3, <1>s, ScoresOrder
<1>5. /\ m \in Nat /\ a \in [1..m -> S]
      /\ \A i, j \in 1..m : i < j => <<a[i], a[j]>> \in before
      /\ \A k \in S : \E i \in 1..m : a[i] = k
  BY <1>1, <1>4, ArrangedIs
<1>6. all = [i \in 1..m |-> list[a[i]].did]
  BY <1>5 DEF ForSubgrove, S, before
<1> HIDE DEF m, a
<1>7. all \in Seq(DIDs) /\ Len(all) = m /\ \A i \in 1..m : all[i] = list[a[i]].did
  <2>1. \A i \in 1..m : list[a[i]].did \in DIDs
    BY <1>2, <1>5
  <2>2. all \in [1..m -> DIDs]
    BY <1>6, <2>1
  <2>3. all \in Seq(DIDs)
    BY <1>5, <2>2
  <2> QED BY <1>5, <1>6, <2>3, LenProperties
<1>8. ASSUME NEW i \in 1..m, NEW j \in 1..m, i < j
      PROVE  Score[list[a[i]].did] >= Score[list[a[j]].did]
  <2>1. a[i] \in S /\ a[j] \in S /\ <<a[i], a[j]>> \in before
    BY <1>5, <1>8
  <2>2. score[a[i]] >= score[a[j]]
    <3>1. score[a[i]] \in Nat /\ score[a[j]] \in Nat
      BY <1>3, <2>1
    <3>2. score[a[i]] > score[a[j]] \/ score[a[i]] = score[a[j]]
      BY <1>s, <2>1
    <3> QED BY <3>1, <3>2
  <2> QED BY <1>3, <2>1, <2>2
<1>9. ASSUME NEW k \in 1..m, NEW l \in 1..m, k < l PROVE Score[all[k]] >= Score[all[l]]
  BY <1>7, <1>8, <1>9
<1>10. ASSUME NEW i \in S
       PROVE  \E k \in 1..m : all[k] = list[i].did /\ \A l \in 1..m : l < k => Score[all[l]] >= Score[list[i].did]
  <2>1. PICK k \in 1..m : a[k] = i
    BY <1>5
  <2>2. all[k] = list[i].did
    BY <1>7, <2>1
  <2> QED BY <1>9, <2>2
<1> QED BY <1>7, <1>9, <1>10 DEF S

Size(all) == IF Len(all) < MaxIndexerCandidates THEN Len(all) ELSE MaxIndexerCandidates

\* The first MaxIndexerCandidates of them are the best.
LEMMA FirstAreBest ==
  ASSUME NEW list \in Seq(Entry), NEW all, all = ForSubgrove(list), NEW n,
         n = Size(all),
         NEW tried, tried = SubSeq(all, 1, n)
  PROVE  tried \in Seq(DIDs) /\ Len(tried) = n /\ n \in Nat /\ TheBest(list, tried)
<1>0. /\ all \in Seq(DIDs) /\ Len(all) \in Nat /\ MaxIndexerCandidates \in Nat /\ n \in Nat /\ n <= Len(all)
      /\ DOMAIN list = 1..Len(list)
  BY ForSubgroveIs, LenProperties, QueryAssumption DEF Size
<1>1. /\ tried \in Seq(DIDs) /\ Len(tried) = n /\ DOMAIN tried = 1..n
      /\ \A i \in 1..n : tried[i] = all[i] /\ i \in 1..Len(all)
  <2>1. n \in Int /\ \A i \in 1..n : all[i] \in DIDs
    BY <1>0, ElementOfSeq
  <2>2. /\ SubSeq(all, 1, n) \in Seq(DIDs) /\ Len(SubSeq(all, 1, n)) = IF 1 <= n THEN n - 1 + 1 ELSE 0
        /\ \A i \in 1..n - 1 + 1 : SubSeq(all, 1, n)[i] = all[1 + i - 1]
    BY <2>1, SubSeqProperties
  <2>3. n - 1 + 1 = n /\ \A i \in 1..n : 1 + i - 1 = i /\ i \in 1..Len(all)
    BY <1>0
  <2>4. Len(tried) = n
    BY <1>0, <2>2, <2>3
  <2> QED BY <1>0, <2>2, <2>3, <2>4, LenProperties
<1>2. \A k, l \in 1..n : k < l => Score[tried[k]] >= Score[tried[l]]
  <2>1. \A k, l \in 1..Len(all) : k < l => Score[all[k]] >= Score[all[l]]
    BY ForSubgroveIs
  <2> QED BY <1>1, <2>1
<1>3. ASSUME NEW i \in PassedOver(list, tried)
      PROVE  n = MaxIndexerCandidates /\ \A l \in 1..n : Score[tried[l]] >= Score[list[i].did]
  <2>1. i \in Picks(list) /\ \A k \in 1..n : tried[k] # list[i].did
    BY <1>1 DEF PassedOver, Picks
  <2>2. PICK k \in 1..Len(all) :
              all[k] = list[i].did /\ \A l \in 1..Len(all) : l < k => Score[all[l]] >= Score[list[i].did]
    BY <2>1, ForSubgroveIs
  <2>3. k > n /\ n < Len(all)
    <3>1. k \notin 1..n
      BY <1>1, <2>1, <2>2
    <3> QED BY <1>0, <2>2, <3>1
  <2>4. \A l \in 1..n : l < k
    BY <1>0, <2>3
  <2> QED BY <1>0, <1>1, <2>2, <2>3, <2>4 DEF Size
<1>4. n <= MaxIndexerCandidates
  BY <1>0 DEF Size
<1> QED BY SMTT(60), <1>0, <1>1, <1>2, <1>3, <1>4 DEF TheBest

\* Evict leaves a list of entries.
LEMMA WithoutIs ==
  ASSUME NEW list \in Seq(Entry), NEW did
  PROVE  Without(list, did) \in Seq(Entry)
<1> DEFINE S == Kept(list, did)
           m == Cardinality(S)
           before == {p \in (DOMAIN list) \X (DOMAIN list) : p[1] < p[2]}
           a == Arranged(S, before)
<1>0. Len(list) \in Nat /\ DOMAIN list = 1..Len(list) /\ \A i \in 1..Len(list) : list[i] \in Entry
  BY LenProperties, ElementOfSeq
<1>1. S \in SUBSET (1..Len(list)) /\ IsFiniteSet(S)
  <2>1. S \in SUBSET (1..Len(list))
    BY <1>0 DEF Kept
  <2>2. IsFiniteSet(1..Len(list))
    BY <1>0, FS_Interval
  <2> QED BY <2>1, <2>2, FS_Subset
<1> HIDE DEF S
<1>2. \A i \in S : list[i] \in Entry /\ i \in Nat /\ i \in DOMAIN list
  BY <1>0, <1>1
<1>3. \A j, k \in S : <<j, k>> \in before <=> j < k
  BY <1>2
<1> HIDE DEF before
<1>4. Orders(before, S)
  BY <1>2, <1>3 DEF Orders
<1>5. m \in Nat /\ a \in [1..m -> S]
  BY <1>1, <1>4, ArrangedIs
<1>6. Without(list, did) = [i \in 1..m |-> list[a[i]]]
  BY <1>5 DEF Without, S, before
<1> HIDE DEF m, a
<1>7. [i \in 1..m |-> list[a[i]]] \in [1..m -> Entry]
  BY <1>2, <1>5
<1> QED BY <1>5, <1>6, <1>7

\* The cache always holds entries, and so does every answer.
LEMMA CacheStep ==
  ASSUME IndexersTypeOK, [Next]_vars
  PROVE  IndexersTypeOK' /\ explicit' = explicit
<1> DEFINE Call == [at : {"none", "request", "answered"}, list : Seq(Entry)]
<1>0. /\ explicit \in BOOLEAN /\ registry \in Registries /\ cache \in Seq(Entry) /\ <<>> \in Seq(Entry)
      /\ cacheTaken \in BOOLEAN /\ cacheLeft \in 0..CacheTTL /\ call \in [Callers -> Call]
      /\ CacheTTL \in Nat /\ registry \in Seq(Entry)
  BY TTLAssumption, RegistryAssumption DEF IndexersTypeOK
<1>1. ASSUME NEW c \in Callers, ListMiss(c) \/ ListAnswered(c) \/ ListFails(c)
      PROVE  IndexersTypeOK' /\ explicit' = explicit
  <2>1. PICK r \in Call : call' = [call EXCEPT ![c] = r]
    BY <1>0, <1>1 DEF ListMiss, ListAnswered, ListFails, NoCall
  <2>2. UNCHANGED <<explicit, registry, cache, cacheTaken, cacheLeft>>
    BY <1>1 DEF ListMiss, ListAnswered, ListFails
  <2>3. call' \in [Callers -> Call]
    BY <1>0, <2>1
  <2> QED BY <1>0, <2>2, <2>3 DEF IndexersTypeOK
<1>2. ASSUME NEW c \in Callers, ListStore(c) PROVE IndexersTypeOK' /\ explicit' = explicit
  <2>1. call[c].list \in Seq(Entry) /\ NoCall \in Call
    BY <1>0 DEF NoCall
  <2>2. call' \in [Callers -> Call]
    BY <1>0, <1>2, <2>1 DEF ListStore
  <2> QED BY <1>0, <1>2, <2>1, <2>2 DEF ListStore, IndexersTypeOK
<1>3. ASSUME NEW did, Evict(did) PROVE IndexersTypeOK' /\ explicit' = explicit
  BY <1>0, <1>3, WithoutIs DEF Evict, IndexersTypeOK
<1>4. CASE Invalidate \/ CacheTick \/ RegistryChanges
  <2>1. CASE Invalidate
    BY <1>0, <2>1 DEF Invalidate, IndexersTypeOK
  <2>2. CASE CacheTick
    <3>1. cacheLeft' \in 0..CacheTTL
      BY <1>0, <2>2 DEF CacheTick
    <3> QED BY <1>0, <2>2, <3>1 DEF CacheTick, IndexersTypeOK
  <2>3. CASE RegistryChanges
    BY <1>0, <2>3 DEF RegistryChanges, IndexersTypeOK
  <2> QED BY <1>4, <2>1, <2>2, <2>3
<1>5. CASE UNCHANGED indexerVars
  BY <1>0, <1>5 DEF indexerVars, IndexersTypeOK
<1>6. ASSUME NEW c \in Callers, Finding(c) PROVE IndexersTypeOK' /\ explicit' = explicit
  BY <1>1, <1>2, <1>5, <1>6 DEF Finding, LookupCached, LookupMiss, Discovered, DiscoveryFails
<1>7. ASSUME NEW c \in Callers, Asking(c) PROVE IndexersTypeOK' /\ explicit' = explicit
  BY <1>3, <1>5, <1>7 DEF Asking, IndexerAnswers, IndexerFails, IndexerBreaks, ApiAnswers, ApiFails
<1> QED BY <1>1, <1>4, <1>5, <1>6, <1>7 DEF Next, Elsewhere, routeQuery, vars

(***************************************************************************)
(* The candidates of a query are the best of its list, and stay so while   *)
(* they are asked one by one.                                              *)
(***************************************************************************)
AnyDID == DIDs \cup {Override}

\* x: whether the client has an explicit indexer URL.
Trying(x, q) ==
    /\ q.asked \in Seq(AnyDID) /\ q.candidates \in Seq(AnyDID)
    /\ ~x => TheBest(q.list, q.asked \o q.candidates)

Chosen(x, q) ==
    /\ Trying(x, q)
    /\ q.at \in Before => q.candidates = <<>>
    /\ q.at = "ask" => q.candidates # <<>>

\* The head of t moves to the end of s.
LEMMA MoveOne ==
  ASSUME NEW D, NEW s \in Seq(D), NEW t \in Seq(D), t # <<>>
  PROVE  /\ Append(s, Head(t)) \in Seq(D) /\ Tail(t) \in Seq(D)
         /\ Append(s, Head(t)) \o Tail(t) = s \o t
<1>0. Len(s) \in Nat /\ Len(t) \in Nat \ {0}
  BY LenProperties, EmptySeq
<1> DEFINE a == Append(s, Head(t))
           b == Tail(t)
<1>1. /\ a \in Seq(D) /\ Len(a) = Len(s) + 1 /\ a[Len(s) + 1] = t[1]
      /\ \A i \in 1..Len(s) : a[i] = s[i]
  BY <1>0, HeadTailProperties, AppendProperties
<1>2. b \in Seq(D) /\ Len(b) = Len(t) - 1 /\ \A i \in 1..Len(b) : b[i] = t[i + 1]
  BY <1>0, HeadTailProperties
<1> HIDE DEF a, b
<1>3. /\ a \o b \in Seq(D) /\ Len(a \o b) = Len(a) + Len(b)
      /\ \A i \in 1..Len(a) + Len(b) : (a \o b)[i] = IF i <= Len(a) THEN a[i] ELSE b[i - Len(a)]
  BY ZenonT(60), <1>1, <1>2, ConcatProperties
<1>4. /\ s \o t \in Seq(D) /\ Len(s \o t) = Len(s) + Len(t)
      /\ \A i \in 1..Len(s) + Len(t) : (s \o t)[i] = IF i <= Len(s) THEN s[i] ELSE t[i - Len(s)]
  BY ConcatProperties
<1>5. Len(a \o b) = Len(s \o t) /\ Len(a) + Len(b) = Len(s) + Len(t) /\ Len(s) + Len(t) \in Nat
  BY <1>0, <1>1, <1>2, <1>3, <1>4
<1>6. ASSUME NEW i \in 1..Len(s) + Len(t) PROVE (a \o b)[i] = (s \o t)[i]
  <2>1. CASE i <= Len(s)
    <3>1. i \in 1..Len(s) /\ i <= Len(a) /\ i \in 1..Len(a) + Len(b)
      BY <1>0, <1>1, <1>5, <2>1
    <3> QED BY <1>1, <1>3, <1>4, <2>1, <3>1
  <2>2. CASE i = Len(s) + 1
    <3>1. i <= Len(a) /\ i \in 1..Len(a) + Len(b) /\ ~(i <= Len(s)) /\ i - Len(s) = 1
      BY <1>0, <1>1, <1>5, <2>2
    <3> QED BY <1>1, <1>3, <1>4, <2>2, <3>1
  <2>3. CASE i > Len(s) + 1
    <3>1. /\ ~(i <= Len(a)) /\ i \in 1..Len(a) + Len(b) /\ ~(i <= Len(s))
          /\ i - Len(a) \in 1..Len(b) /\ (i - Len(a)) + 1 = i - Len(s)
      BY <1>0, <1>1, <1>2, <1>5, <2>3
    <3>2. (a \o b)[i] = b[i - Len(a)] /\ (s \o t)[i] = t[i - Len(s)]
      BY <1>3, <1>4, <3>1
    <3>3. b[i - Len(a)] = t[(i - Len(a)) + 1]
      BY <1>2, <3>1
    <3> QED BY <3>1, <3>2, <3>3
  <2>4. i \in Nat
    BY <1>5
  <2>5. \A n \in Nat : i <= n \/ i = n + 1 \/ i > n + 1
    BY <2>4
  <2> QED BY <1>0, <2>1, <2>2, <2>3, <2>5
<1>7. a \o b = s \o t
  BY <1>3, <1>4, <1>5, <1>6, SeqEqual
<1> QED BY <1>1, <1>2, <1>7 DEF a, b

LEMMA MovedFields ==
  ASSUME NEW q, Whole(q), NEW at, NEW e, e = [q EXCEPT !.at = at]
  PROVE  e.asked = q.asked /\ e.candidates = q.candidates /\ e.list = q.list /\ e.at = at
<1>1. e = Fields(q.source, at, q.candidates, q.hadCandidates, q.tooLarge, q.served, q.did, q.fallback,
                 q.asked, q.list)
  BY DEF Whole, Fields
<1> QED BY <1>1, FieldsWhole

LEMMA StillTrying ==
  ASSUME NEW x, NEW q, Trying(x, q), NEW e, e.asked = q.asked, e.candidates = q.candidates,
         e.list = q.list, e.at \in Before => e.candidates = <<>>, e.at = "ask" => e.candidates # <<>>
  PROVE  Chosen(x, e)
BY DEF Trying, Chosen

LEMMA EndedChosen ==
  ASSUME NEW x, NEW q, Whole(q), Trying(x, q), NEW served, NEW did, NEW fallback
  PROVE  Chosen(x, Ended(q, served, did, fallback))
<1> SUFFICES ASSUME NEW e, e = Ended(q, served, did, fallback)
             PROVE  Chosen(x, e)
  OBVIOUS
<1>1. e.asked = q.asked /\ e.candidates = q.candidates /\ e.list = q.list /\ e.at = "done"
  BY EndedFields, FieldsWhole
<1> QED BY <1>1, StillTrying DEF Before

LEMMA AfterIndexersChosen ==
  ASSUME NEW x, NEW q, Whole(q), Trying(x, q)
  PROVE  Chosen(x, AfterIndexers(q))
<1>1. CASE q.source = "indexer" \/ q.tooLarge
  <2>1. Chosen(x, Ended(q, "error", Nobody, FALSE))
    BY EndedChosen
  <2> QED BY <1>1, <2>1 DEF AfterIndexers, Failed
<1>2. CASE ~(q.source = "indexer" \/ q.tooLarge)
  <2> SUFFICES ASSUME NEW e, e = [q EXCEPT !.at = "api"]
               PROVE  Chosen(x, e)
    BY <1>2 DEF AfterIndexers
  <2>1. e = Fields(q.source, "api", q.candidates, q.hadCandidates, q.tooLarge, q.served, q.did, q.fallback,
                   q.asked, q.list)
    BY DEF Whole, Fields
  <2>2. e.asked = q.asked /\ e.candidates = q.candidates /\ e.list = q.list /\ e.at = "api"
    BY <2>1, FieldsWhole
  <2> QED BY <2>2, StillTrying DEF Before
<1> QED BY <1>1, <1>2

\* What WithCandidates makes of the list it is given.
Suits(x, list, candidates) ==
    \/ x /\ candidates \in Seq(AnyDID)
    \/ list \in Seq(Entry) /\ candidates = ForSubgrove(list)
    \/ list = <<>> /\ candidates = <<>>

LEMMA FirstOfThem ==
  ASSUME NEW x \in BOOLEAN, NEW list, NEW candidates, Suits(x, list, candidates), NEW n,
         n = Size(candidates),
         NEW s, s = SubSeq(candidates, 1, n)
  PROVE  s \in Seq(AnyDID) /\ (n # 0 <=> s # <<>>) /\ (~x => TheBest(list, s))
<1>1. CASE x /\ candidates \in Seq(AnyDID)
  <2>1. Len(candidates) \in Nat /\ MaxIndexerCandidates \in Nat /\ n \in Nat /\ n <= Len(candidates)
    BY <1>1, LenProperties, QueryAssumption DEF Size
  <2>2. n \in Int /\ \A i \in 1..n : candidates[i] \in AnyDID
    BY <1>1, <2>1, ElementOfSeq
  <2>3. s \in Seq(AnyDID) /\ Len(s) = IF 1 <= n THEN n - 1 + 1 ELSE 0
    BY <2>2, SubSeqProperties
  <2>4. Len(s) = n
    BY <2>1, <2>3
  <2> QED BY <1>1, <2>3, <2>4, EmptySeq
<1>2. CASE list \in Seq(Entry) /\ candidates = ForSubgrove(list)
  <2>1. s \in Seq(DIDs) /\ Len(s) = n /\ TheBest(list, s)
    BY <1>2, FirstAreBest 
  <2>2. s \in Seq(AnyDID)
    BY <2>1 DEF AnyDID
  <2>3. n # 0 <=> s # <<>>
    BY <2>1, EmptySeq
  <2> QED BY <2>1, <2>2, <2>3
<1>3. CASE list = <<>> /\ candidates = <<>>
  <2>1. n = 0 /\ MaxIndexerCandidates \in Nat
    BY <1>3, EmptySeq, QueryAssumption DEF Size
  <2>2. s = <<>>
    BY <1>3, <2>1
  <2>3. TheBest(<<>>, <<>>)
    BY <2>1, EmptySeq DEF TheBest, PassedOver
  <2>4. s \in Seq(AnyDID) /\ TheBest(list, s)
    <3>1. s = <<>> /\ list = <<>>
      BY <1>3, <2>2
    <3>2. <<>> \in Seq(AnyDID) /\ TheBest(<<>>, <<>>)
      BY <2>3, EmptySeq
    <3> QED BY <3>1, <3>2
  <2> QED BY <2>1, <2>2, <2>4
<1> QED BY <1>1, <1>2, <1>3 DEF Suits

Listed(q, s, n, list) == [q EXCEPT !.candidates = s, !.hadCandidates = n # 0, !.list = list]

LEMMA ListedFields ==
  ASSUME NEW q, Whole(q), NEW s, NEW n, NEW list, NEW r, r = Listed(q, s, n, list)
  PROVE  Whole(r) /\ r.asked = q.asked /\ r.candidates = s /\ r.list = list
<1>1. r = Fields(q.source, q.at, s, n # 0, q.tooLarge, q.served, q.did, q.fallback, q.asked, list)
  BY DEF Whole, Fields, Listed
<1> QED BY <1>1, FieldsWhole

\* A query with candidates asks the first, or is done with them.
LEMMA AsksChosen ==
  ASSUME NEW x, NEW r, Whole(r), Trying(x, r), NEW n, n # 0 <=> r.candidates # <<>>
  PROVE  Chosen(x, IF n = 0 THEN AfterIndexers(r) ELSE [r EXCEPT !.at = "ask"])
<1>1. Chosen(x, AfterIndexers(r))
  BY AfterIndexersChosen
<1>2. ASSUME n # 0 PROVE Chosen(x, [r EXCEPT !.at = "ask"])
  <2> SUFFICES ASSUME NEW e, e = [r EXCEPT !.at = "ask"]
               PROVE  Chosen(x, e)
    OBVIOUS
  <2>1. e.asked = r.asked /\ e.candidates = r.candidates /\ e.list = r.list /\ e.at = "ask"
    BY MovedFields
  <2>2. e.candidates # <<>> /\ e.at \notin Before
    BY <1>2, <2>1 DEF Before
  <2> QED BY <2>1, <2>2, StillTrying
<1> QED BY <1>1, <1>2

LEMMA WithCandidatesChosen ==
  ASSUME NEW x \in BOOLEAN, NEW q, Sound(q), q.at \in Before, NEW list, NEW candidates,
         Suits(x, list, candidates)
  PROVE  Chosen(x, WithCandidates(q, list, candidates))
<1> DEFINE size == Size(candidates)
           first == SubSeq(candidates, 1, size)
           found == Listed(q, first, size, list)
<1>1. first \in Seq(AnyDID) /\ (size # 0 <=> first # <<>>) /\ (~x => TheBest(list, first))
  BY FirstOfThem
<1>2. q.asked = <<>> /\ Whole(q)
  BY DEF Sound
<1>3. WithCandidates(q, list, candidates) = IF size = 0 THEN AfterIndexers(found) ELSE [found EXCEPT !.at = "ask"]
  BY DEF WithCandidates, Size, Listed
<1> HIDE DEF size, first
<1>4. Whole(found) /\ found.asked = q.asked /\ found.candidates = first /\ found.list = list
  BY <1>2, ListedFields
<1> HIDE DEF found
<1>5. Trying(x, found)
  <2>1. <<>> \o first = first
    BY <1>1, ConcatEmptySeq
  <2> QED BY <1>1, <1>2, <1>4, <2>1, EmptySeq DEF Trying
<1>6. size # 0 <=> found.candidates # <<>>
  BY <1>1, <1>4
<1> QED BY SMTT(60), <1>3, <1>4, <1>5, <1>6, AsksChosen

\* One that failed moves from the candidates to the asked.
LEMMA NextCandidateChosen ==
  ASSUME NEW x, NEW q, Sound(q), Chosen(x, q), q.at = "ask", NEW tooLarge \in BOOLEAN
  PROVE  Chosen(x, NextCandidate(q, tooLarge))
<1> SUFFICES ASSUME NEW r,
                    r = [q EXCEPT !.candidates = Tail(q.candidates), !.tooLarge = q.tooLarge \/ tooLarge,
                                  !.asked = Append(q.asked, Head(q.candidates))]
             PROVE  Chosen(x, IF r.candidates = <<>> THEN AfterIndexers(r) ELSE r)
  BY DEF NextCandidate
<1>1. r = Fields(q.source, q.at, Tail(q.candidates), q.hadCandidates, q.tooLarge \/ tooLarge, q.served, q.did,
                 q.fallback, Append(q.asked, Head(q.candidates)), q.list)
  BY DEF Sound, Whole, Fields
<1>2. /\ Whole(r) /\ r.asked = Append(q.asked, Head(q.candidates)) /\ r.candidates = Tail(q.candidates)
      /\ r.list = q.list /\ r.at = "ask"
  BY <1>1, FieldsWhole
<1>3. q.asked \in Seq(AnyDID) /\ q.candidates \in Seq(AnyDID) /\ q.candidates # <<>>
  BY DEF Chosen, Trying
<1>4. /\ r.asked \in Seq(AnyDID) /\ r.candidates \in Seq(AnyDID)
      /\ r.asked \o r.candidates = q.asked \o q.candidates
  <2>1. \A s, t \in Seq(AnyDID) :
          t # <<>> => /\ Append(s, Head(t)) \in Seq(AnyDID) /\ Tail(t) \in Seq(AnyDID)
                      /\ Append(s, Head(t)) \o Tail(t) = s \o t
    BY MoveOne
  <2> QED BY ZenonT(60), <1>2, <1>3, <2>1
<1>5. Trying(x, r)
  BY <1>2, <1>4 DEF Chosen, Trying
<1>6. Chosen(x, AfterIndexers(r))
  BY <1>2, <1>5, AfterIndexersChosen
<1>7. r.candidates # <<>> => Chosen(x, r)
  BY ZenonT(60), <1>2, <1>5, StillTrying DEF Before
<1> QED BY <1>6, <1>7

\* Nothing was chosen for a query that was not made or has no candidates yet.
LEMMA NewChosen ==
  ASSUME NEW x, NEW source, NEW at \in {"none", "lookup", "api"}, NEW q,
         q = Fields(source, at, <<>>, FALSE, FALSE, "none", Nobody, FALSE, <<>>, <<>>)
  PROVE  Chosen(x, q)
<1>1. q.asked = <<>> /\ q.candidates = <<>> /\ q.list = <<>> /\ q.at = at
  BY DEF Fields
<1>2. TheBest(<<>>, <<>>) /\ <<>> \o <<>> = <<>> /\ <<>> \in Seq(AnyDID)
  BY EmptySeq, QueryAssumption DEF TheBest, PassedOver
<1>3. Trying(x, q)
  BY <1>1, <1>2 DEF Trying
<1> QED BY <1>1, <1>3 DEF Chosen

LEMMA StartsChosen ==
  ASSUME NEW x, NEW source, NEW at \in {"none", "lookup", "api"}
  PROVE  Chosen(x, [NoQuery EXCEPT !.source = source, !.at = at])
<1> SUFFICES ASSUME NEW q, q = [NoQuery EXCEPT !.source = source, !.at = at]
             PROVE  Chosen(x, q)
  OBVIOUS
<1>1. q = Fields(source, at, <<>>, FALSE, FALSE, "none", Nobody, FALSE, <<>>, <<>>)
  BY DEF NoQuery, Fields
<1> QED BY <1>1, NewChosen

BestInv ==
    /\ QueryInv /\ IndexersTypeOK
    /\ \A c \in Callers : Chosen(explicit, query[c])

LEMMA BecomesChosen ==
  ASSUME BestInv, QueryInv', IndexersTypeOK', explicit' = explicit,
         NEW c \in Callers, NEW q, Chosen(explicit, q), Becomes(c, q)
  PROVE  BestInv'
<1>1. ASSUME NEW d \in Callers
      PROVE  Chosen(explicit', query'[d])
  <2>1. CASE d = c
    <3>1. query'[d] = q
      BY <2>1 DEF BestInv, QueryInv, Becomes
    <3> QED BY <3>1
  <2>2. CASE d # c
    <3>1. query'[d] = query[d]
      BY <2>2 DEF BestInv, QueryInv, Becomes
    <3> QED BY <3>1 DEF BestInv
  <2> QED BY <2>1, <2>2
<1>2. \A d \in Callers : Chosen(explicit, query[d])'
  BY <1>1 DEF Chosen, Trying
<1> QED BY <1>2 DEF BestInv

LEMMA BestNext == BestInv /\ [Next]_vars => BestInv'
<1> SUFFICES ASSUME BestInv, [Next]_vars PROVE BestInv'
  OBVIOUS
<1>0. /\ QueryInv' /\ IndexersTypeOK' /\ explicit' = explicit /\ explicit \in BOOLEAN
      /\ cache \in Seq(Entry) /\ \A c \in Callers : call[c].list \in Seq(Entry)
  BY InvNext, CacheStep DEF BestInv, IndexersTypeOK
<1>s. \A c \in Callers : Sound(query[c]) /\ Whole(query[c]) /\ Chosen(explicit, query[c]) /\ Trying(explicit, query[c])
  BY DEF BestInv, QueryInv, Sound, Chosen
<1>b. \A c \in Callers : \A q : Chosen(explicit, q) /\ Becomes(c, q) => BestInv'
  BY SMTT(60), <1>0, BecomesChosen
<1>1. ASSUME NEW c \in Callers, NEW source \in Sources, routeQuery(c, source) PROVE BestInv'
  <2> DEFINE at == IF source = "validator" THEN "api" ELSE "lookup"
  <2>1. at \in {"none", "lookup", "api"}
    OBVIOUS
  <2>2. Becomes(c, [NoQuery EXCEPT !.source = source, !.at = at])
    BY <1>1 DEF routeQuery
  <2> HIDE DEF at
  <2>3. Chosen(explicit, [NoQuery EXCEPT !.source = source, !.at = at])
    BY <2>1, StartsChosen
  <2> QED BY SMTT(60), <1>b, <2>2, <2>3
<1>2. ASSUME NEW c \in Callers, NEW list, NEW candidates, query[c].at \in Before, Suits(explicit, list, candidates),
             Becomes(c, WithCandidates(query[c], list, candidates))
      PROVE  BestInv'
  <2>1. Chosen(explicit, WithCandidates(query[c], list, candidates))
    BY <1>0, <1>s, <1>2, WithCandidatesChosen
  <2> QED BY <1>b, <1>2, <2>1
<1>3. ASSUME NEW c \in Callers, LookupCached(c) PROVE BestInv'
  <2>1. query[c].at \in Before
    BY <1>3 DEF LookupCached, Before
  <2>2. CASE explicit
    <3>1. <<Override>> \in Seq(AnyDID)
      BY DEF AnyDID
    <3>2. Suits(explicit, <<>>, <<Override>>)
      BY <2>2, <3>1 DEF Suits
    <3>3. Becomes(c, WithCandidates(query[c], <<>>, <<Override>>))
      BY <1>3, <2>2 DEF LookupCached
    <3> QED BY <1>2, <2>1, <3>2, <3>3
  <2>3. CASE ~explicit
    <3>1. Suits(explicit, cache, ForSubgrove(cache))
      BY <1>0 DEF Suits
    <3>2. Becomes(c, WithCandidates(query[c], cache, ForSubgrove(cache)))
      BY <1>3, <2>3 DEF LookupCached
    <3> QED BY <1>2, <2>1, <3>1, <3>2
  <2> QED BY <2>2, <2>3
<1>4. ASSUME NEW c \in Callers, LookupMiss(c) PROVE BestInv'
  <2>1. query[c].at = "lookup" /\ Becomes(c, [query[c] EXCEPT !.at = "discover"])
    BY <1>4 DEF LookupMiss
  <2> SUFFICES ASSUME NEW q, q = query[c], NEW e, e = [q EXCEPT !.at = "discover"]
               PROVE  Chosen(explicit, e)
    BY <1>b, <2>1
  <2>2. e.asked = q.asked /\ e.candidates = q.candidates /\ e.list = q.list /\ e.at = "discover"
    BY <1>s, MovedFields
  <2>3. e.candidates = <<>>
    BY <1>s, <2>1, <2>2 DEF Chosen, Before
  <2> QED BY <1>s, <2>2, <2>3, StillTrying
<1>5. ASSUME NEW c \in Callers, Discovered(c) PROVE BestInv'
  <2>1. /\ query[c].at \in Before
        /\ Becomes(c, WithCandidates(query[c], call[c].list, ForSubgrove(call[c].list)))
    BY <1>5 DEF Discovered, Before
  <2>2. Suits(explicit, call[c].list, ForSubgrove(call[c].list))
    BY <1>0 DEF Suits
  <2> QED BY <1>2, <2>1, <2>2
<1>6. ASSUME NEW c \in Callers, DiscoveryFails(c) PROVE BestInv'
  <2>1. query[c].at \in Before /\ Becomes(c, WithCandidates(query[c], <<>>, <<>>))
    BY <1>6 DEF DiscoveryFails, Before
  <2>2. Suits(explicit, <<>>, <<>>)
    BY DEF Suits
  <2> QED BY <1>2, <2>1, <2>2
<1>7. ASSUME NEW c \in Callers, IndexerFails(c) \/ IndexerBreaks(c) PROVE BestInv'
  <2>1. query[c].at = "ask"
    BY <1>7 DEF IndexerFails, IndexerBreaks
  <2>2. PICK tooLarge \in BOOLEAN : Becomes(c, NextCandidate(query[c], tooLarge))
    BY <1>7 DEF IndexerFails, IndexerBreaks
  <2>3. Chosen(explicit, NextCandidate(query[c], tooLarge))
    BY <1>s, <2>1, NextCandidateChosen
  <2> QED BY <1>b, <2>2, <2>3
<1>8. ASSUME NEW c \in Callers, IndexerAnswers(c) \/ ApiAnswers(c) \/ ApiFails(c) PROVE BestInv'
  <2>1. \E served, did, fallback : Becomes(c, Ended(query[c], served, did, fallback))
    BY <1>8 DEF IndexerAnswers, ApiAnswers, ApiFails, Failed
  <2>2. \A served, did, fallback : Chosen(explicit, Ended(query[c], served, did, fallback))
    BY <1>s, EndedChosen
  <2> QED BY <1>b, <2>1, <2>2
<1>9. CASE UNCHANGED query
  BY <1>0, <1>9 DEF BestInv, Chosen, Trying
<1>10. CASE Elsewhere
  BY <1>9, <1>10 DEF Elsewhere
<1>11. CASE UNCHANGED vars
  BY <1>9, <1>11 DEF vars
<1> QED BY <1>1, <1>3, <1>4, <1>5, <1>6, <1>7, <1>8, <1>10, <1>11 DEF Next, Finding, Asking

\* A routed query asks at most MaxIndexerCandidates indexers, best score first,
\* and passes a serving one over only for that many as good: ForSubgrove and the
\* candidate walk of routeQuery, for any registry, scores and number of queries,
\* whatever the others store in the cache or evict from it.
THEOREM OnlyTheBestAreTried == Spec => []AtMostTheBest
<1>1. Init => BestInv
  <2> SUFFICES ASSUME Init PROVE BestInv
    OBVIOUS
  <2>1. QueryInv
    BY InvInit
  <2>2. IndexersTypeOK
    <3>1. explicit \in BOOLEAN /\ registry \in Registries /\ cacheTaken \in BOOLEAN
      BY OverrideAssumption DEF Init, IndexersInit
    <3>e. cache \in Seq(Entry)
      BY DEF Init, IndexersInit
    <3>2. cacheLeft \in 0..CacheTTL
      BY TTLAssumption DEF Init, IndexersInit
    <3>3. NoCall \in [at : {"none", "request", "answered"}, list : Seq(Entry)]
      BY DEF NoCall
    <3>4. call \in [Callers -> [at : {"none", "request", "answered"}, list : Seq(Entry)]]
      BY <3>3 DEF Init, IndexersInit
    <3> QED BY <3>1, <3>e, <3>2, <3>4 DEF IndexersTypeOK
  <2>3. ASSUME NEW c \in Callers PROVE Chosen(explicit, query[c])
    <3>1. query[c] = NoQuery
      BY DEF Init
    <3>2. NoQuery = Fields("validator", "none", <<>>, FALSE, FALSE, "none", Nobody, FALSE, <<>>, <<>>)
      BY DEF NoQuery, Fields
    <3> QED BY <3>1, <3>2, NewChosen
  <2> QED BY <2>1, <2>2, <2>3 DEF BestInv
<1>2. BestInv => AtMostTheBest
  BY DEF BestInv, Chosen, Trying, AtMostTheBest
<1> QED BY <1>1, <1>2, BestNext, PTL DEF Spec
=============================================================================
