--------------------------- MODULE GracefulService ---------------------------
(***************************************************************************)
(* What a service promises that stops gracefully: once its stop has        *)
(* returned, no job is under way but those whose time was up before, and   *)
(* none begins until another process serves.  How it gets there (flags,    *)
(* contexts, counters, the server's own bookkeeping) is its own affair.    *)
(***************************************************************************)
CONSTANT Jobs

VARIABLES
    working,   \* jobs under way
    overdue,   \* jobs the service no longer answers for
    stopped    \* the stop has returned

vars == <<working, overdue, stopped>>

Init == working = {} /\ overdue = {} /\ stopped = FALSE

\* Jobs are begun, one or a batch of them.
Begin(J) ==
    /\ ~stopped
    /\ working' = working \union J
    /\ UNCHANGED <<overdue, stopped>>

\* They end, also after the stop.
Finish(J) ==
    /\ working' = working \ J
    /\ UNCHANGED <<overdue, stopped>>

\* The time of a job is up.
Expire(j) ==
    /\ overdue' = overdue \union {j}
    /\ UNCHANGED <<working, stopped>>

\* The stop returns.
Return ==
    /\ working \subseteq overdue
    /\ stopped' = TRUE
    /\ UNCHANGED <<working, overdue>>

\* The process ends, and every job with it; the next one is not stopped.
Crash == working' = {} /\ overdue' = {} /\ stopped' = FALSE

Next ==
    \/ \E J \in SUBSET Jobs : Begin(J) \/ Finish(J)
    \/ \E j \in Jobs : Expire(j)
    \/ Return \/ Crash

Spec == Init /\ [][Next]_vars
=============================================================================
