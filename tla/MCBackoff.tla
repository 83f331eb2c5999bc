------------------------------ MODULE MCBackoff ------------------------------
(* Instances of Backoff for TLC. *)
EXTENDS Backoff, TLC

Symmetric == Permutations(Callers)

\* Calls that overlap can double b.backoff without end, and nothing is
\* claimed of them: the passing run does not go beyond the first overlap.
UntilOverlap == ~overlapped
=============================================================================
