---------------------------- MODULE MCApiRequests ----------------------------
(***************************************************************************)
(* TLC instance of ApiRequests: a read with rights that decodes an         *)
(* envelope, and one without that does not.                                *)
(***************************************************************************)
EXTENDS ApiRequests

CONSTANTS gated, plain    \* model values: calls

\* One answer for each way an answer is treated.
MCAnswers ==
    {[status |-> 200, body |-> b] : b \in Bodies}
        \cup {[status |-> s, body |-> "failure"] : s \in {400, 401, 403, 404, 503}}
        \cup {[status |-> 404, body |-> "junk"]}
=============================================================================
