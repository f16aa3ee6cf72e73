----------------------------- MODULE MCNVClient -----------------------------
(* The constants of NVClient for model checking.                           *)
EXTENDS NVClient, TLC

Symmetry == Permutations(Calls)

\* A denial, a failure that is not retried although it may have taken effect, the answer
\* of a proxy, and an auth failure that does not come as a 401.
MCReplies == {[status |-> 403, code |-> 4], [status |-> 500, code |-> NoCode],
              [status |-> 503, code |-> NoCode]}
MCRepliesStatusFree == MCReplies \cup {[status |-> 408, code |-> 3]}
=============================================================================
