--------------------------- MODULE MCSubscriptions ---------------------------
(***************************************************************************)
(* TLC instances of Subscriptions.                                         *)
(***************************************************************************)
EXTENDS Subscriptions

CONSTANTS a, b, c    \* model values: indexers

\* Callers who reconnect to an indexer; also ones who use the API and do not
\* reconnect.
MCAlways == {[source |-> "indexer", reconnect |-> TRUE]}
MCOptions == MCAlways \cup {[source |-> "validator", reconnect |-> FALSE]}

\* c scores as b does, and a best.
MCScore == [d \in DIDs |-> IF d = a THEN 2 ELSE 1]

Serving(d) == [did |-> d, serving |-> TRUE]

\* The only indexer serves the subgrove, or no longer does.
MCRegistries == {<<Serving(a)>>, <<[did |-> a, serving |-> FALSE]>>}

\* Three indexers that all serve the subgrove.
MCThree == {<<Serving(b), Serving(c), Serving(a)>>}
=============================================================================
