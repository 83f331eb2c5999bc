------------------------------- MODULE Backoff -------------------------------
(***************************************************************************)
(* BackoffPolicy.Next of plugins/pulsar/backoff.go.  AddConsumer gives     *)
(* every consumer without a policy the same *DefaultBackoffPolicy          *)
(* (consumer.go:95-97), and the client calls Next from the goroutine that  *)
(* reconnects each of them: b.backoff is shared and read and written       *)
(* without a lock, one access per step below.  Durations are numbers of a  *)
(* unit in which Min and Max are small; nothing resets b.backoff.          *)
(***************************************************************************)
EXTENDS Integers

CONSTANTS
    Callers,      \* goroutines that share the policy
    Min, Max,     \* b.min and b.max as the policy is built
    DefaultMin    \* DefaultBackoffPolicy.min

ASSUME DurationAssumption ==
    Min \in Nat /\ Max \in Nat /\ DefaultMin \in Nat \ {0}

\* The minimum in force from the first call on is not above the maximum.
EffectiveMin == IF Min = 0 THEN DefaultMin ELSE Min

ASSUME RangeAssumption == EffectiveMin <= Max

VARIABLES
    backoff, min,   \* b.backoff, b.min
    pc,             \* the access each caller is about to make
    read,           \* what it last read of b.backoff
    delay,          \* what its last call returned, -1 before the first
    overlapped      \* history: two calls have been under way at a time

vars == <<backoff, min, pc, read, delay, overlapped>>

TypeOK ==
    /\ backoff \in Nat /\ min \in Nat
    /\ pc \in [Callers -> {"idle", "load", "store", "low", "high", "jitter",
                           "return"}]
    /\ read \in [Callers -> Nat]
    /\ delay \in [Callers -> Nat \union {-1}]
    /\ overlapped \in BOOLEAN

Init ==
    /\ backoff = 0 /\ min = Min
    /\ pc = [p \in Callers |-> "idle"]
    /\ read = [p \in Callers |-> 0]
    /\ delay = [p \in Callers |-> -1]
    /\ overlapped = FALSE

Step(p, from, to) == pc[p] = from /\ pc' = [pc EXCEPT ![p] = to]

Read(p) == read' = [read EXCEPT ![p] = backoff]

\* if b.min == 0 { b.min = DefaultBackoffPolicy.min }
Call(p) ==
    /\ Step(p, "idle", "load")
    /\ min' = IF min = 0 THEN DefaultMin ELSE min
    /\ overlapped' = (overlapped \/ \E q \in Callers \ {p} : pc[q] # "idle")
    /\ UNCHANGED <<backoff, read, delay>>

\* b.backoff += b.backoff
Load(p) ==
    /\ Step(p, "load", "store") /\ Read(p)
    /\ UNCHANGED <<backoff, min, delay, overlapped>>

Store(p) ==
    /\ Step(p, "store", "low")
    /\ backoff' = 2 * read[p]
    /\ UNCHANGED <<min, read, delay, overlapped>>

\* if b.backoff < b.min, raise it; else go and look at b.max.
Raise(p) ==
    /\ pc[p] = "low"
    /\ IF backoff < min
       THEN backoff' = min /\ pc' = [pc EXCEPT ![p] = "jitter"]
       ELSE UNCHANGED backoff /\ pc' = [pc EXCEPT ![p] = "high"]
    /\ UNCHANGED <<min, read, delay, overlapped>>

\* Mutant: the upper bound is checked before the doubling only.
NotCapped(p) ==
    /\ Step(p, "high", "jitter")
    /\ UNCHANGED <<backoff, min, read, delay, overlapped>>

\* else if b.backoff > b.max, lower it
Cap(p) ==
    /\ Step(p, "high", "jitter")
    /\ backoff' = IF backoff > Max THEN Max ELSE backoff
    /\ UNCHANGED <<min, read, delay, overlapped>>

\* The jitter is computed from one read of b.backoff ...
Jitter(p) ==
    /\ Step(p, "jitter", "return") /\ Read(p)
    /\ UNCHANGED <<backoff, min, delay, overlapped>>

\* ... and added to another: at most a fifth of the value read.
Return(p) ==
    /\ Step(p, "return", "idle")
    /\ \E j \in 0..(read[p] \div 5) :
        delay' = [delay EXCEPT ![p] = backoff + j]
    /\ UNCHANGED <<backoff, min, read, overlapped>>

NextCall(p) == Call(p) \/ Load(p) \/ Store(p) \/ Raise(p) \/ Cap(p)
               \/ Jitter(p) \/ Return(p)

Next == \E p \in Callers : NextCall(p)

Spec == Init /\ [][Next]_vars

-----------------------------------------------------------------------------
(* Properties.                                                             *)

\* Every delay lies between the minimum and the maximum, with a fifth of
\* jitter on top: "From 500ms to 5min with 0.2 jitter" (backoff.go:23).
DelayInBounds ==
    \A p \in Callers :
        delay[p] # -1 =>
            EffectiveMin <= delay[p] /\ delay[p] <= Max + Max \div 5

\* Consumers that share the policy and never call Next at the same time get
\* such delays (backoff.go:31-46): what one call leaves in b.backoff is a
\* sound start for the next, whoever makes it.
SerialDelayInBounds == ~overlapped => DelayInBounds
=============================================================================
