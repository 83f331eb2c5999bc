--------------------------- MODULE PulsarConsumer ---------------------------
(***************************************************************************)
(* The consumer manager of plugins/pulsar/consumer.go, on the client of    *)
(* PulsarServer, between the fx lifecycle and a Pulsar broker.             *)
(*                                                                         *)
(* AddConsumer subscribes a handler and files it under its label.  Start   *)
(* (OnStart) runs one goroutine per filed consumer: it receives a message, *)
(* calls the handler, and acks or nacks.  Shutdown (OnStop) takes the      *)
(* manager's mutex, raises IsStopped, cancels the context, waits for the   *)
(* goroutines and closes the filed consumers; the hook of PulsarServer,    *)
(* older, then closes the client.                                          *)
(***************************************************************************)
EXTENDS PulsarServer, Integers, FiniteSets

CONSTANTS
    Consumers,   \* handlers (PulsarConsumerInterface) the application has
    LabelOf,     \* the label of each
    Messages,    \* messages of the subscriptions
    SubOf,       \* the consumer whose subscription each message is in
    NoMessage

ASSUME ConsumersAssumption == IsFiniteSet(Consumers)
ASSUME SubAssumption == SubOf \in [Messages -> Consumers]
ASSUME NoMessageAssumption == NoMessage \notin Messages

VARIABLES
    main,        \* where the lifecycle goroutine (fx) is
    stopped,     \* cm.IsStopped
    cancelled,   \* cm.ctx is done
    wg,          \* counter of cm.wg
    filed,       \* values of cm.consumers, one per label
    sub,         \* state of each consumer's subscription
    loop,        \* where each consumer's goroutine is
    holds,       \* the message it was given and has not finished with
    msg,         \* state of each message at the broker
    accepted,    \* history: the latest attempt's verdict was nil
    late         \* history: messages a loop received after IsStopped

manager == <<main, stopped, cancelled, wg>>
registry == <<filed, sub>>
work == <<loop, holds>>
broker == <<msg, accepted>>
vars == <<client, manager, registry, work, broker, late>>

LoopRuns(c) == loop[c] \notin {"none", "exit"}

Running == {c \in Consumers : LoopRuns(c)}

\* Receive, Ack and Nack of the message c holds.
Handling(c) == loop[c] \in {"handle", "lock", "ack", "nack"}

TypeOK ==
    /\ ServerTypeOK
    /\ main \in {"invoke", "running", "lock", "flag", "cancel", "wait",
                 "close", "stopped", "closed", "panicked", "crashed"}
    /\ stopped \in BOOLEAN /\ cancelled \in BOOLEAN
    /\ wg \in Nat
    /\ filed \in SUBSET Consumers
    /\ sub \in [Consumers -> {"none", "open", "closed"}]
    /\ loop \in [Consumers -> {"none", "check", "select", "handle", "lock",
                               "ack", "nack", "exit"}]
    /\ holds \in [Consumers -> Messages \union {NoMessage}]
    /\ msg \in [Messages -> {"pending", "delivered", "acked"}]
    /\ accepted \in SUBSET Messages
    /\ late \in [Consumers -> Nat]

Init ==
    /\ NewPulsarServer
    /\ main = "invoke" /\ stopped = FALSE /\ cancelled = FALSE /\ wg = 0
    /\ filed = {} /\ sub = [c \in Consumers |-> "none"]
    /\ loop = [c \in Consumers |-> "none"]
    /\ holds = [c \in Consumers |-> NoMessage]
    /\ msg = [m \in Messages |-> "pending"] /\ accepted = {}
    /\ late = [c \in Consumers |-> 0]

-----------------------------------------------------------------------------
(* The process ends, with its goroutines and connections; where tells why. *)

Alive == main \notin {"panicked", "crashed"}

End(where) ==
    /\ Alive /\ main' = where
    /\ client' = "nil" /\ stopped' = FALSE /\ cancelled' = FALSE /\ wg' = 0
    /\ filed' = {} /\ sub' = [c \in Consumers |-> "none"]
    /\ loop' = [c \in Consumers |-> "none"]
    /\ holds' = [c \in Consumers |-> NoMessage]
    /\ late' = [c \in Consumers |-> 0]
    /\ UNCHANGED broker

Crash == End("crashed")

Restart ==
    /\ ~Alive /\ main' = "invoke"
    /\ UNCHANGED <<client, stopped, cancelled, wg, registry, work, broker, late>>

-----------------------------------------------------------------------------
(* What application code calls.                                            *)

ConnectClient ==
    /\ Alive /\ Connect
    /\ UNCHANGED <<manager, registry, work, broker, late>>

\* Shutdown holds cm.mu from its first statement to its last.
MuHeld == main \in {"flag", "cancel", "wait", "close"}

\* Subscribe, which panics without a client (a Crash, of the application's
\* start), then file under the label, over whatever was filed there.  A
\* topic of another type or an empty one, a closed client, and a broker that
\* refuses (a consumer already open on the subscription) are errors that
\* leave everything alone.
Subscribe(c) ==
    /\ ~MuHeld /\ client = "open" /\ sub[c] # "open"
    /\ sub' = [sub EXCEPT ![c] = "open"]
    /\ filed' = {d \in filed : LabelOf[d] # LabelOf[c]} \union {c}

\* AddConsumer by anything that is not a handler.
AddConsumer(c) ==
    /\ Alive /\ Subscribe(c)
    /\ UNCHANGED <<client, manager, work, broker, late>>

-----------------------------------------------------------------------------
(* The lifecycle.                                                          *)

\* Mutant: wg.Add(1) once, before the iteration.
StartAddsOnce ==
    /\ main = "invoke" /\ main' = "running"
    /\ wg' = 1
    /\ loop' = [c \in Consumers |-> IF c \in filed THEN "check" ELSE "none"]
    /\ UNCHANGED <<client, stopped, cancelled, registry, holds, broker, late>>

\* Start: wg.Add(1) and a goroutine for each filed consumer.
Start ==
    /\ main = "invoke" /\ main' = "running"
    /\ wg' = Cardinality(filed)
    /\ loop' = [c \in Consumers |-> IF c \in filed THEN "check" ELSE "none"]
    /\ UNCHANGED <<client, stopped, cancelled, registry, holds, broker, late>>

\* Shutdown has nothing to do without a client.
ShutdownUnconnected ==
    /\ main = "running" /\ client = "nil" /\ main' = "stopped"
    /\ UNCHANGED <<client, stopped, cancelled, wg, registry, work, broker, late>>

Shutdown ==
    /\ main = "running" /\ client # "nil" /\ main' = "lock"
    /\ UNCHANGED <<client, stopped, cancelled, wg, registry, work, broker, late>>

TakeMu ==
    /\ main = "lock" /\ main' = "flag"
    /\ UNCHANGED <<client, stopped, cancelled, wg, registry, work, broker, late>>

RaiseIsStopped ==
    /\ main = "flag" /\ main' = "cancel" /\ stopped' = TRUE
    /\ UNCHANGED <<client, cancelled, wg, registry, work, broker, late>>

CancelContext ==
    /\ main = "cancel" /\ main' = "wait" /\ cancelled' = TRUE
    /\ UNCHANGED <<client, stopped, wg, registry, work, broker, late>>

\* Mutant: Shutdown does not wait.
WaitForNobody ==
    /\ main = "wait" /\ main' = "close"
    /\ UNCHANGED <<client, stopped, cancelled, wg, registry, work, broker, late>>

WaitLoops ==
    /\ main = "wait" /\ wg = 0 /\ main' = "close"
    /\ UNCHANGED <<client, stopped, cancelled, wg, registry, work, broker, late>>

\* Close every filed consumer, and release the mutex.
CloseConsumers ==
    /\ main = "close" /\ main' = "stopped"
    /\ sub' = [c \in Consumers |-> IF c \in filed THEN "closed" ELSE sub[c]]
    /\ UNCHANGED <<client, stopped, cancelled, wg, filed, work, broker, late>>

\* PulsarServer.Shutdown, the next OnStop hook: the client closes every
\* consumer it still has.
ServerShutdown ==
    /\ main = "stopped" /\ CloseClient /\ main' = "closed"
    /\ sub' = [c \in Consumers |-> IF sub[c] = "open" THEN "closed" ELSE sub[c]]
    /\ UNCHANGED <<stopped, cancelled, wg, filed, work, broker, late>>

ServerShutdownPanics == main = "stopped" /\ client = "nil" /\ End("panicked")

Stopping ==
    \/ ShutdownUnconnected \/ TakeMu \/ RaiseIsStopped \/ CancelContext
    \/ WaitLoops \/ CloseConsumers \/ ServerShutdown \/ ServerShutdownPanics

-----------------------------------------------------------------------------
(* The goroutine of consumer c.                                            *)

Goto(c, pc) == loop' = [loop EXCEPT ![c] = pc]

\* Mutant: IsStopped is not looked at.
LoopUnchecked(c) ==
    /\ loop[c] = "check" /\ Goto(c, "select")
    /\ UNCHANGED <<client, manager, registry, holds, broker, late>>

LoopCheck(c) ==
    /\ loop[c] = "check" /\ ~stopped /\ Goto(c, "select")
    /\ UNCHANGED <<client, manager, registry, holds, broker, late>>

\* Mutant: the goroutine returns without Done.
LoopExitWithoutDone(c) ==
    /\ (loop[c] = "check" /\ stopped) \/ (loop[c] = "select" /\ cancelled)
    /\ Goto(c, "exit")
    /\ UNCHANGED <<client, manager, registry, holds, broker, late>>

\* Done and break, at the check of IsStopped or in the select.
LoopExit(c) ==
    /\ (loop[c] = "check" /\ stopped) \/ (loop[c] = "select" /\ cancelled)
    /\ Goto(c, "exit") /\ wg' = wg - 1
    /\ UNCHANGED <<client, main, stopped, cancelled, registry, holds, broker,
                   late>>

\* The other branch of the select, ready as well or not.  The handler is
\* called with the message.
LoopReceive(c) ==
    /\ loop[c] = "select" /\ sub[c] = "open" /\ client = "open"
    /\ \E m \in Messages :
        /\ SubOf[m] = c /\ msg[m] = "pending"
        /\ msg' = [msg EXCEPT ![m] = "delivered"]
        /\ holds' = [holds EXCEPT ![c] = m]
        /\ accepted' = accepted \ {m}
    /\ Goto(c, "handle")
    /\ late' = [late EXCEPT ![c] = IF stopped THEN @ + 1 ELSE @]
    /\ UNCHANGED <<client, manager, registry>>

\* Receive returns nil or an error.
HandlerReturns(c) ==
    /\ loop[c] = "handle"
    /\ \/ Goto(c, "ack") /\ accepted' = accepted \union {holds[c]}
       \/ Goto(c, "nack") /\ UNCHANGED accepted
    /\ UNCHANGED <<client, manager, registry, holds, msg, late>>

\* Receive panics: recovered and logged, and back to the loop.
HandlerPanics(c) ==
    /\ loop[c] = "handle" /\ Goto(c, "check")
    /\ holds' = [holds EXCEPT ![c] = NoMessage]
    /\ UNCHANGED <<client, manager, registry, broker, late>>

\* Receive calls AddConsumer, which first takes the mutex.
HandlerAddsConsumer(c) ==
    /\ loop[c] = "handle" /\ Goto(c, "lock")
    /\ UNCHANGED <<client, manager, registry, holds, broker, late>>

HandlerGetsMu(c) ==
    /\ loop[c] = "lock" /\ ~MuHeld /\ Goto(c, "handle")
    /\ UNCHANGED registry \/ \E d \in Consumers : Subscribe(d)
    /\ UNCHANGED <<client, manager, holds, broker, late>>

\* The broker gets the ack, or does not: the error of Ack is not looked at.
LoopAck(c) ==
    /\ loop[c] = "ack" /\ Goto(c, "check")
    /\ holds' = [holds EXCEPT ![c] = NoMessage]
    /\ UNCHANGED msg \/ msg' = [msg EXCEPT ![holds[c]] = "acked"]
    /\ UNCHANGED <<client, manager, registry, accepted, late>>

\* Mutant: no return after Nack.
LoopNackThenAck(c) ==
    /\ loop[c] = "nack" /\ Goto(c, "ack")
    /\ msg' = [msg EXCEPT ![holds[c]] = IF @ = "delivered" THEN "pending" ELSE @]
    /\ UNCHANGED <<client, manager, registry, holds, accepted, late>>

\* The broker redelivers a nacked message, after a delay left out here.
LoopNack(c) ==
    /\ loop[c] = "nack" /\ Goto(c, "check")
    /\ holds' = [holds EXCEPT ![c] = NoMessage]
    /\ msg' = [msg EXCEPT ![holds[c]] = IF @ = "delivered" THEN "pending" ELSE @]
    /\ UNCHANGED <<client, manager, registry, accepted, late>>

ConsumerLoop(c) ==
    \/ LoopCheck(c) \/ LoopExit(c) \/ LoopReceive(c)
    \/ HandlerReturns(c) \/ HandlerPanics(c) \/ HandlerAddsConsumer(c)
    \/ HandlerGetsMu(c) \/ LoopAck(c) \/ LoopNack(c)

-----------------------------------------------------------------------------
\* The broker lost the consumer's connection: what is not acked is to be
\* delivered again, also while the handler is still at it.
Redeliver(m) ==
    /\ msg[m] = "delivered" /\ msg' = [msg EXCEPT ![m] = "pending"]
    /\ UNCHANGED <<client, manager, registry, work, accepted, late>>

Next ==
    \/ Crash \/ Restart \/ ConnectClient
    \/ Start \/ Shutdown \/ Stopping
    \/ \E c \in Consumers : AddConsumer(c) \/ ConsumerLoop(c)
    \/ \E m \in Messages : Redeliver(m)

Spec == Init /\ [][Next]_vars

\* Goroutines that can run do; a handler that is called returns or panics,
\* whatever it calls before.
Fairness ==
    /\ WF_vars(Stopping)
    /\ \A c \in Consumers :
        /\ WF_vars(ConsumerLoop(c))
        /\ SF_vars(HandlerReturns(c) \/ HandlerPanics(c))

FairSpec == Spec /\ Fairness

-----------------------------------------------------------------------------
(* Properties.                                                             *)

\* cm.wg counts the goroutines under way (consumer.go:153, 159, 168), and
\* each has a message exactly while it handles one.
WgCounts ==
    /\ wg = Cardinality(Running)
    /\ \A c \in Consumers : Handling(c) <=> holds[c] # NoMessage

\* A consumer is closed only after its goroutine has acked or nacked its
\* last message and returned (consumer.go:186-190).
NoWorkOnClosedConsumer ==
    \A c \in Consumers : LoopRuns(c) => sub[c] = "open" /\ client = "open"

\* After IsStopped is raised a goroutine is given at most one more message
\* (consumer.go:158-170): the select may still pick the channel, but the
\* check before the next round does not let it happen again.
AtMostOneLateMessage == \A c \in Consumers : late[c] <= 1

\* Shutdown is graceful: once its wait is over no handler is at work, and none
\* is called again, whoever adds consumers meanwhile (consumer.go:186).
Graceful == INSTANCE GracefulService WITH
    Jobs <- Consumers,
    working <- {c \in Consumers : Handling(c)},
    overdue <- {},
    stopped <- main \in {"close", "stopped", "closed"}

StopsGracefully == Graceful!Spec

\* Shutdown completes, if handlers return, unless one of them waits for the
\* mutex that Shutdown holds (consumer.go:65, 181, 186).
CompletesUnlessHandlerAdds ==
    main = "lock" ~> \/ main \in {"closed", "crashed"}
                     \/ \E c \in Consumers : loop[c] = "lock"

\* The manager keeps the promise of AtLeastOnce: a message is acked only
\* after its handler returned nil in the same attempt (consumer.go:137-144).
Contract == INSTANCE AtLeastOnce WITH
    handling <- {m \in Messages : \E c \in Consumers : holds[c] = m},
    removed <- {m \in Messages : msg[m] = "acked"}

AcksOnlyAccepted == Contract!Spec
=============================================================================
