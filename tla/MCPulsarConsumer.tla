-------------------------- MODULE MCPulsarConsumer --------------------------
(* Instances of PulsarConsumer for TLC. *)
EXTENDS PulsarConsumer, TLC

CONSTANTS c1, c2, c3, m3

\* c1 and c2 have the same label.
SharedLabel == [c \in Consumers |-> IF c = c3 THEN "own" ELSE "shared"]

\* c3 has a message, and c1 the others.
TwoSubs == [m \in Messages |-> IF m = m3 THEN c3 ELSE c1]
=============================================================================
