----------------------------- MODULE AtLeastOnce -----------------------------
(***************************************************************************)
(* What a queue consumer promises its application, whatever the broker:    *)
(* a message leaves the queue only as the outcome of an attempt at         *)
(* handling it that accepted it.  An attempt that rejects the message,     *)
(* panics, loses its acknowledgement or dies with the process leaves the   *)
(* message in the queue, for a later attempt.  Attempts of one message do  *)
(* not overlap within a consumer process.                                  *)
(***************************************************************************)
CONSTANT Messages

VARIABLES
    handling,   \* messages of which an attempt is under way
    accepted,   \* messages whose latest attempt accepted them
    removed     \* messages the queue no longer holds

vars == <<handling, accepted, removed>>

Init == handling = {} /\ accepted = {} /\ removed = {}

\* The handler is called with m.
Begin(m) ==
    /\ m \notin handling
    /\ handling' = handling \union {m}
    /\ accepted' = accepted \ {m}
    /\ UNCHANGED removed

\* The handler's verdict: the message may be removed.
Accept(m) ==
    /\ m \in handling
    /\ accepted' = accepted \union {m}
    /\ UNCHANGED <<handling, removed>>

\* The broker is told, and forgets the message.
Remove(m) ==
    /\ m \in handling \intersect accepted
    /\ removed' = removed \union {m}
    /\ handling' = handling \ {m}
    /\ UNCHANGED accepted

\* The attempt ends and the message stays in the queue.
Abandon(m) ==
    /\ m \in handling
    /\ handling' = handling \ {m}
    /\ UNCHANGED <<accepted, removed>>

\* The process ends, and every attempt with it.
Crash == handling' = {} /\ UNCHANGED <<accepted, removed>>

Next ==
    \/ \E m \in Messages : Begin(m) \/ Accept(m) \/ Remove(m) \/ Abandon(m)
    \/ Crash

Spec == Init /\ [][Next]_vars
=============================================================================
