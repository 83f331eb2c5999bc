----------------------------- MODULE MCSqsWorker -----------------------------
(* Instances of SqsWorker for TLC. *)
EXTENDS SqsWorker, TLC

\* Every message is in the one queue.
OneQueue == [m \in Messages |-> CHOOSE t \in Topics : TRUE]

Symmetric == Permutations(Messages)
=============================================================================
