--------------------------- MODULE MCRoutedQueries ---------------------------
(***************************************************************************)
(* TLC instances of RoutedQueries.                                         *)
(***************************************************************************)
EXTENDS RoutedQueries

CONSTANTS a, b, c    \* model values: indexers

\* c scores best, b as a does.
MCScore == [d \in DIDs |-> IF d = c THEN 2 ELSE 1]

Serving(d) == [did |-> d, serving |-> TRUE]
Idle(d) == [did |-> d, serving |-> FALSE]

\* All serve the subgrove, or the best no longer does.
MCRegistries == {<<Serving(a), Serving(b), Serving(c)>>, <<Serving(a), Idle(c)>>}
=============================================================================
