------------------------ MODULE PulsarConsumerProofs ------------------------
(* Theorems about PulsarConsumer, for every finite set of consumers, every  *)
(* labelling of them and every set of messages.                             *)
EXTENDS PulsarConsumer, FiniteSetTheorems, TLAPS

\* What each stage of the lifecycle says about the goroutines: none before
\* Start, none from the wait on, and at Start every filed consumer is open.
Stages ==
    /\ main \in {"invoke", "panicked", "crashed", "close", "stopped", "closed"}
         => Running = {}
    /\ main \in {"invoke", "panicked", "crashed"}
         => \A c \in filed : sub[c] = "open" /\ client = "open"

\* A goroutine that was given a message after IsStopped never selects again.
LateOnce ==
    \A c \in Consumers :
        late[c] = 0 \/ (late[c] = 1 /\ stopped = TRUE /\ loop[c] # "select")

Inv == TypeOK /\ WgCounts /\ Stages /\ NoWorkOnClosedConsumer /\ LateOnce

-----------------------------------------------------------------------------
(* The counter.                                                            *)

LEMMA RunningFinite == IsFiniteSet(Running) /\ Cardinality(Running) \in Nat
  <1>1. Running \subseteq Consumers
    BY DEF Running
  <1> QED
    BY <1>1, ConsumersAssumption, FS_Subset, FS_CardinalityType

LEMMA RunningZero == Cardinality(Running) = 0 <=> Running = {}
  BY RunningFinite, FS_EmptySet

\* A step that moves c from one running place to another, or to the end.
LEMMA RunningMoves ==
    ASSUME TypeOK, NEW c \in Consumers, NEW pc, LoopRuns(c), Goto(c, pc)
    PROVE  /\ pc \notin {"none", "exit"} => Running' = Running
           /\ pc = "exit" => /\ Running' = Running \ {c}
                             /\ Cardinality(Running') = Cardinality(Running) - 1
                             /\ Cardinality(Running) > 0
  <1>1. \A d \in Consumers : loop'[d] = IF d = c THEN pc ELSE loop[d]
    BY DEF TypeOK, Goto
  <1>2. c \in Running
    BY DEF Running
  <1>3. pc \notin {"none", "exit"} => Running' = Running
    BY <1>1, <1>2 DEF Running, LoopRuns
  <1>4. pc = "exit" => Running' = Running \ {c}
    BY <1>1 DEF Running, LoopRuns
  <1>5. Cardinality(Running \ {c}) = Cardinality(Running) - 1
    BY <1>2, RunningFinite, FS_RemoveElement
  <1>6. Cardinality(Running) > 0
    BY <1>2, RunningFinite, RunningZero
  <1> QED
    BY <1>3, <1>4, <1>5, <1>6
-----------------------------------------------------------------------------
LEMMA InitInv == Init => Inv
  <1> SUFFICES ASSUME Init PROVE Inv
    OBVIOUS
  <1>1. Running = {}
    BY DEF Init, Running, LoopRuns
  <1>2. TypeOK
    <2>1. stopped \in BOOLEAN /\ cancelled \in BOOLEAN
      BY DEF Init
    <2>2. late \in [Consumers -> Nat] /\ wg \in Nat
      BY DEF Init
    <2> QED
      BY <2>1, <2>2 DEF Init, TypeOK, ServerTypeOK, NewPulsarServer
  <1>3. WgCounts
    BY <1>1, RunningZero DEF Init, WgCounts, Handling
  <1>4. Stages
    BY <1>1 DEF Init, Stages
  <1>5. NoWorkOnClosedConsumer
    BY DEF Init, NoWorkOnClosedConsumer, LoopRuns
  <1>6. LateOnce
    BY DEF Init, LateOnce
  <1> QED
    BY <1>2, <1>3, <1>4, <1>5, <1>6 DEF Inv

\* The end of the process.
LEMMA EndInv ==
    ASSUME Inv, NEW where \in {"panicked", "crashed"}, End(where)
    PROVE  Inv'
  <1>1. Running' = {}
    BY DEF End, Running, LoopRuns
  <1>2. TypeOK'
    <2>1. stopped' \in BOOLEAN /\ cancelled' \in BOOLEAN
      BY DEF End
    <2>2. late' \in [Consumers -> Nat] /\ wg' \in Nat
      BY DEF End
    <2>3. /\ loop' \in [Consumers -> {"none", "check", "select", "handle",
                                      "lock", "ack", "nack", "exit"}]
          /\ sub' \in [Consumers -> {"none", "open", "closed"}]
          /\ holds' \in [Consumers -> Messages \union {NoMessage}]
          /\ filed' \in SUBSET Consumers
      BY DEF End
    <2> QED
      BY <2>1, <2>2, <2>3 DEF Inv, End, TypeOK, ServerTypeOK, broker
  <1>3. WgCounts'
    <2>1. wg' = Cardinality(Running')
      BY <1>1, FS_EmptySet DEF End
    <2> QED
      BY <2>1 DEF End, WgCounts, Handling
  <1>4. Stages'
    BY <1>1 DEF End, Stages
  <1>5. NoWorkOnClosedConsumer'
    BY DEF End, NoWorkOnClosedConsumer, LoopRuns
  <1>6. LateOnce'
    BY DEF End, LateOnce
  <1> QED
    BY <1>2, <1>3, <1>4, <1>5, <1>6 DEF Inv

\* Application code: subscriptions and the client change, goroutines do not.
LEMMA ApplicationInv ==
    ASSUME Inv, ConnectClient \/ \E c \in Consumers : AddConsumer(c)
    PROVE  Inv'
  <1> USE DEF Inv, manager, registry, work, broker
  <1>1. /\ UNCHANGED <<main, stopped, cancelled, wg, loop, holds, broker, late>>
        /\ client' \in {"nil", "open", "closed"}
        /\ client = "open" => client' = "open"
    BY DEF ConnectClient, Connect, AddConsumer, Subscribe, TypeOK, ServerTypeOK
  <1>2. /\ filed' \in SUBSET Consumers
        /\ sub' \in [Consumers -> {"none", "open", "closed"}]
        /\ \A c \in Consumers : sub[c] = "open" => sub'[c] = "open"
        /\ \A c \in filed' : c \in filed \/ (sub'[c] = "open" /\ client' = "open")
    BY DEF ConnectClient, AddConsumer, Subscribe, TypeOK
  <1>3. Running' = Running
    BY <1>1 DEF Running, LoopRuns
  <1>4. TypeOK'
    BY <1>1, <1>2 DEF TypeOK, ServerTypeOK
  <1>5. WgCounts'
    BY <1>1, <1>3 DEF WgCounts, Handling
  <1>6. Stages'
    BY <1>1, <1>2, <1>3 DEF Stages, TypeOK
  <1>7. NoWorkOnClosedConsumer'
    BY <1>1, <1>2 DEF NoWorkOnClosedConsumer, LoopRuns
  <1>8. LateOnce'
    BY <1>1 DEF LateOnce
  <1> QED
    BY <1>4, <1>5, <1>6, <1>7, <1>8

\* The lifecycle, apart from the end of the process.
LEMMA LifecycleInv ==
    ASSUME Inv,
           \/ Restart \/ Start \/ Shutdown
           \/ ShutdownUnconnected \/ TakeMu \/ RaiseIsStopped \/ CancelContext
           \/ WaitLoops \/ CloseConsumers \/ ServerShutdown
    PROVE  Inv'
  <1> USE DEF Inv, manager, registry, work, broker
  <1>1. CASE Start
    <2>1. Running = {}
      BY <1>1 DEF Start, Stages
    <2>2. \A c \in Consumers : LoopRuns(c)' <=> c \in filed
      BY <1>1 DEF Start, LoopRuns
    <2>3. Running' = filed
      BY <2>2 DEF Running, TypeOK
    <2>4. TypeOK'
      <3>1. Cardinality(filed) \in Nat
        BY ConsumersAssumption, FS_Subset, FS_CardinalityType DEF TypeOK
      <3> QED
        BY <1>1, <3>1 DEF Start, TypeOK, ServerTypeOK
    <2>5. WgCounts'
      <3>1. \A c \in Consumers : ~Handling(c)
        BY <2>1 DEF Running, LoopRuns, Handling, TypeOK
      <3>2. \A c \in Consumers : ~Handling(c)'
        BY <1>1 DEF Start, Handling
      <3> QED
        BY <1>1, <2>3, <3>1, <3>2 DEF Start, WgCounts
    <2>6. Stages'
      BY <1>1 DEF Start, Stages
    <2>7. NoWorkOnClosedConsumer'
      BY <1>1, <2>2 DEF Start, Stages, NoWorkOnClosedConsumer
    <2>8. LateOnce'
      BY <1>1 DEF Start, LateOnce
    <2> QED
      BY <2>4, <2>5, <2>6, <2>7, <2>8
  <1>2. CASE \/ Restart \/ Shutdown \/ ShutdownUnconnected \/ TakeMu
             \/ RaiseIsStopped \/ CancelContext \/ WaitLoops
    <2>1. UNCHANGED <<client, wg, registry, work, broker, late>>
      BY <1>2 DEF Restart, Shutdown, ShutdownUnconnected, TakeMu,
                  RaiseIsStopped, CancelContext, WaitLoops
    <2>2. /\ stopped' \in BOOLEAN /\ cancelled' \in BOOLEAN
          /\ stopped = TRUE => stopped' = TRUE
      BY <1>2 DEF Restart, Shutdown, ShutdownUnconnected, TakeMu,
                  RaiseIsStopped, CancelContext, WaitLoops, TypeOK
    <2>3. main' \in {"invoke", "running", "lock", "flag", "cancel", "wait",
                     "close", "stopped"}
      BY <1>2 DEF Restart, Shutdown, ShutdownUnconnected, TakeMu,
                  RaiseIsStopped, CancelContext, WaitLoops
    <2>4. Running' = Running
      BY <2>1 DEF Running, LoopRuns
    <2>5. TypeOK'
      BY <2>1, <2>2, <2>3 DEF TypeOK, ServerTypeOK
    <2>6. WgCounts'
      BY <2>1, <2>4 DEF WgCounts, Handling
    <2>7. Stages'
      <3>1. CASE Restart
        BY <3>1, <2>4 DEF Restart, Stages, Alive, TypeOK
      <3>2. CASE ShutdownUnconnected
        <4>1. Running = {}
          BY <3>2 DEF ShutdownUnconnected, NoWorkOnClosedConsumer, Running
        <4> QED
          BY <3>2, <2>4, <4>1 DEF ShutdownUnconnected, Stages
      <3>3. CASE WaitLoops
        <4>1. Running = {}
          BY <3>3, RunningZero DEF WaitLoops, WgCounts
        <4> QED
          BY <3>3, <2>4, <4>1 DEF WaitLoops, Stages
      <3>4. CASE Shutdown \/ TakeMu \/ RaiseIsStopped \/ CancelContext
        BY <3>4 DEF Shutdown, TakeMu, RaiseIsStopped, CancelContext, Stages
      <3> QED
        BY <1>2, <3>1, <3>2, <3>3, <3>4
    <2>8. NoWorkOnClosedConsumer'
      BY <2>1 DEF NoWorkOnClosedConsumer, LoopRuns
    <2>9. LateOnce'
      BY <2>1, <2>2 DEF LateOnce
    <2> QED
      BY <2>5, <2>6, <2>7, <2>8, <2>9
  <1>3. CASE CloseConsumers \/ ServerShutdown
    <2>1. UNCHANGED <<stopped, cancelled, wg, filed, work, broker, late>>
      BY <1>3 DEF CloseConsumers, ServerShutdown
    <2>2. /\ main' \in {"stopped", "closed"}
          /\ client' \in {"nil", "open", "closed"}
          /\ sub' \in [Consumers -> {"none", "open", "closed"}]
      BY <1>3 DEF CloseConsumers, ServerShutdown, CloseClient, TypeOK,
                  ServerTypeOK
    <2>3. Running = {}
      BY <1>3 DEF CloseConsumers, ServerShutdown, Stages
    <2>4. Running' = {}
      BY <2>1, <2>3 DEF Running, LoopRuns
    <2>5. TypeOK'
      BY <2>1, <2>2 DEF TypeOK, ServerTypeOK
    <2>6. WgCounts'
      BY <2>1, <2>3, <2>4 DEF WgCounts, Handling
    <2>7. Stages'
      BY <2>2, <2>4 DEF Stages
    <2>8. NoWorkOnClosedConsumer'
      BY <2>4 DEF NoWorkOnClosedConsumer, Running
    <2>9. LateOnce'
      BY <2>1 DEF LateOnce
    <2> QED
      BY <2>5, <2>6, <2>7, <2>8, <2>9
  <1> QED
    BY <1>1, <1>2, <1>3
-----------------------------------------------------------------------------
(* The goroutine of one consumer.                                          *)

\* What every step of a running goroutine does to the shared state.
LEMMA LoopFrame ==
    ASSUME Inv, NEW c \in Consumers, ConsumerLoop(c)
    PROVE  /\ LoopRuns(c)
           /\ \E pc \in {"check", "select", "handle", "lock", "ack", "nack",
                        "exit"} : Goto(c, pc)
           /\ UNCHANGED <<client, main, stopped, cancelled>>
           /\ wg' = IF loop'[c] = "exit" THEN wg - 1 ELSE wg
           /\ \A d \in Consumers : sub[d] = "open" => sub'[d] = "open"
           /\ \A d \in filed' : d \in filed \/ sub'[d] = "open"
  <1> USE DEF manager, registry, work, broker, Goto, LoopRuns, Inv, TypeOK
  <1>1. CASE LoopCheck(c)
    BY <1>1 DEF LoopCheck
  <1>2. CASE LoopExit(c)
    BY <1>2 DEF LoopExit
  <1>3. CASE LoopReceive(c)
    BY <1>3 DEF LoopReceive
  <1>4. CASE HandlerReturns(c) \/ HandlerPanics(c) \/ HandlerAddsConsumer(c)
    BY <1>4 DEF HandlerReturns, HandlerPanics, HandlerAddsConsumer
  <1>5. CASE HandlerGetsMu(c)
    BY <1>5 DEF HandlerGetsMu, Subscribe
  <1>6. CASE LoopAck(c) \/ LoopNack(c)
    BY <1>6 DEF LoopAck, LoopNack
  <1> QED
    BY <1>1, <1>2, <1>3, <1>4, <1>5, <1>6 DEF ConsumerLoop

LEMMA LoopTypeOK ==
    ASSUME Inv, NEW c \in Consumers, ConsumerLoop(c)
    PROVE  TypeOK'
  <1> USE DEF Inv, manager, registry, work, broker, Goto, ServerTypeOK
  <1>1. CASE LoopCheck(c)
    BY <1>1 DEF LoopCheck, TypeOK
  <1>2. CASE LoopExit(c)
    <2>1. wg - 1 \in Nat
      <3>1. LoopRuns(c)
        BY <1>2 DEF LoopExit, LoopRuns
      <3>2. Cardinality(Running) > 0
        <4>1. c \in Running
          BY <3>1 DEF Running
        <4> QED
          BY <4>1, RunningFinite, RunningZero
      <3> QED
        BY <3>2 DEF TypeOK, WgCounts
    <2> QED
      BY <1>2, <2>1 DEF LoopExit, TypeOK
  <1>3. CASE LoopReceive(c)
    <2>1. late' \in [Consumers -> Nat]
      BY <1>3 DEF LoopReceive, TypeOK
    <2>2. /\ holds' \in [Consumers -> Messages \union {NoMessage}]
          /\ msg' \in [Messages -> {"pending", "delivered", "acked"}]
          /\ accepted' \in SUBSET Messages
          /\ loop' \in [Consumers -> {"none", "check", "select", "handle",
                                      "lock", "ack", "nack", "exit"}]
      BY <1>3 DEF LoopReceive, TypeOK
    <2> QED
      BY <1>3, <2>1, <2>2 DEF LoopReceive, TypeOK
  <1>4. CASE HandlerReturns(c)
    <2>1. holds[c] \in Messages
      BY <1>4 DEF HandlerReturns, WgCounts, Handling, TypeOK
    <2> QED
      BY <1>4, <2>1 DEF HandlerReturns, TypeOK
  <1>5. CASE HandlerPanics(c) \/ HandlerAddsConsumer(c)
    BY <1>5 DEF HandlerPanics, HandlerAddsConsumer, TypeOK
  <1>6. CASE HandlerGetsMu(c)
    BY <1>6 DEF HandlerGetsMu, Subscribe, TypeOK
  <1>7. CASE LoopAck(c)
    BY <1>7 DEF LoopAck, TypeOK
  <1>8. CASE LoopNack(c)
    BY <1>8 DEF LoopNack, TypeOK
  <1> QED
    BY <1>1, <1>2, <1>3, <1>4, <1>5, <1>6, <1>7, <1>8 DEF ConsumerLoop

LEMMA LoopHolds ==
    ASSUME Inv, NEW c \in Consumers, ConsumerLoop(c)
    PROVE  \A d \in Consumers : Handling(d)' <=> holds'[d] # NoMessage
  <1> USE NoMessageAssumption
      DEF Inv, TypeOK, WgCounts, Handling, registry, work, broker, Goto
  <1>1. CASE LoopCheck(c) \/ LoopExit(c)
    BY <1>1 DEF LoopCheck, LoopExit
  <1>2. CASE LoopReceive(c)
    BY <1>2 DEF LoopReceive
  <1>3. CASE HandlerReturns(c) \/ HandlerAddsConsumer(c) \/ HandlerGetsMu(c)
    BY <1>3 DEF HandlerReturns, HandlerAddsConsumer, HandlerGetsMu
  <1>4. CASE HandlerPanics(c) \/ LoopAck(c) \/ LoopNack(c)
    BY <1>4 DEF HandlerPanics, LoopAck, LoopNack
  <1> QED
    BY <1>1, <1>2, <1>3, <1>4 DEF ConsumerLoop

LEMMA LoopLate ==
    ASSUME Inv, NEW c \in Consumers, ConsumerLoop(c)
    PROVE  LateOnce'
  <1> USE DEF Inv, TypeOK, LateOnce, manager, broker, Goto
  <1>1. CASE LoopCheck(c)
    BY <1>1 DEF LoopCheck
  <1>2. CASE LoopReceive(c)
    <2>1. CASE stopped = TRUE
      BY <1>2, <2>1 DEF LoopReceive
    <2>2. CASE stopped = FALSE
      BY <1>2, <2>2 DEF LoopReceive
    <2> QED
      BY <2>1, <2>2
  <1>3. CASE ConsumerLoop(c) /\ ~LoopCheck(c) /\ ~LoopReceive(c)
    <2>1. late' = late /\ stopped' = stopped
      BY <1>3 DEF ConsumerLoop, LoopExit, HandlerReturns, HandlerPanics,
                  HandlerAddsConsumer, HandlerGetsMu, LoopAck, LoopNack
    <2>2. loop'[c] # "select"
      BY <1>3 DEF ConsumerLoop, LoopExit, HandlerReturns, HandlerPanics,
                  HandlerAddsConsumer, HandlerGetsMu, LoopAck, LoopNack
    <2>3. \A d \in Consumers \ {c} : loop'[d] = loop[d]
      BY LoopFrame
    <2> QED
      BY <2>1, <2>2, <2>3
  <1> QED
    BY <1>1, <1>2, <1>3

LEMMA LoopInv ==
    ASSUME Inv, NEW c \in Consumers, ConsumerLoop(c)
    PROVE  Inv'
  <1>1. PICK pc \in {"check", "select", "handle", "lock", "ack", "nack",
                     "exit"} : Goto(c, pc)
    BY LoopFrame
  <1>2. /\ LoopRuns(c) /\ loop'[c] = pc
        /\ \A d \in Consumers \ {c} : loop'[d] = loop[d]
    BY <1>1, LoopFrame DEF Inv, TypeOK, Goto
  <1>3. c \in Running
    BY <1>2 DEF Running
  <1>4. wg' = Cardinality(Running')
    BY <1>1, <1>2, LoopFrame, RunningMoves DEF Inv, WgCounts
  <1>5. Stages'
    <2>1. main' = main /\ client' = client
      BY LoopFrame
    <2>2. main \notin {"invoke", "panicked", "crashed", "close", "stopped",
                      "closed"}
      BY <1>3 DEF Inv, Stages
    <2> QED
      BY <2>1, <2>2 DEF Stages
  <1>6. NoWorkOnClosedConsumer'
    BY <1>2, LoopFrame DEF Inv, NoWorkOnClosedConsumer, LoopRuns
  <1> QED
    BY <1>4, <1>5, <1>6, LoopTypeOK, LoopHolds, LoopLate DEF Inv, WgCounts

-----------------------------------------------------------------------------
LEMMA NextInv == Inv /\ [Next]_vars => Inv'
  <1> SUFFICES ASSUME Inv, [Next]_vars PROVE Inv'
    OBVIOUS
  <1>1. ASSUME NEW m \in Messages, Redeliver(m) PROVE Inv'
    <2>1. UNCHANGED <<client, manager, registry, work, late>>
      BY <1>1 DEF Redeliver
    <2>2. /\ msg' \in [Messages -> {"pending", "delivered", "acked"}]
          /\ accepted' = accepted
      BY <1>1 DEF Redeliver, Inv, TypeOK
    <2>3. Running' = Running
      BY <2>1 DEF work, Running, LoopRuns
    <2> QED
      BY <2>1, <2>2, <2>3 DEF Inv, TypeOK, ServerTypeOK, WgCounts, Handling,
         Stages, NoWorkOnClosedConsumer, LoopRuns, LateOnce, manager, registry,
         work
  <1>2. CASE UNCHANGED vars
    <2>1. Running' = Running
      BY <1>2 DEF vars, work, Running, LoopRuns
    <2> QED
      BY <1>2, <2>1 DEF vars, Inv, TypeOK, ServerTypeOK, WgCounts, Handling,
         Stages, NoWorkOnClosedConsumer, LoopRuns, LateOnce, manager, registry,
         work, broker
  <1> QED
    BY <1>1, <1>2, EndInv, ApplicationInv, LifecycleInv, LoopInv
       DEF Next, Crash, Stopping, ServerShutdownPanics

\* The manager's state is well typed; the counter of cm.wg never goes
\* negative, so Done never panics.
THEOREM TypeCorrect == Spec => []TypeOK
  BY InitInv, NextInv, PTL DEF Spec, Inv

\* cm.wg counts the goroutines that run.
THEOREM CounterCorrect == Spec => []WgCounts
  BY InitInv, NextInv, PTL DEF Spec, Inv

\* No goroutine works on a consumer that was closed.
THEOREM ClosedAfterWork == Spec => []NoWorkOnClosedConsumer
  BY InitInv, NextInv, PTL DEF Spec, Inv

\* After IsStopped each goroutine receives at most one message.
THEOREM LateBounded == Spec => []AtMostOneLateMessage
  <1>1. Inv => AtMostOneLateMessage
    BY DEF Inv, LateOnce, AtMostOneLateMessage
  <1> QED
    BY <1>1, InitInv, NextInv, PTL DEF Spec
-----------------------------------------------------------------------------
\* A consumer holds messages of its own subscription only, and acks one that
\* its handler accepted.
Verdict ==
    \A c \in Consumers :
        /\ holds[c] # NoMessage => SubOf[holds[c]] = c
        /\ loop[c] = "ack" => holds[c] \in accepted

LEMMA InitVerdict == Init => Verdict
  BY DEF Init, Verdict

LEMMA NextVerdict == Inv /\ Verdict /\ [Next]_vars => Verdict'
  <1> SUFFICES ASSUME Inv, Verdict, [Next]_vars PROVE Verdict'
    OBVIOUS
  <1> USE DEF Verdict, manager, registry, work, broker
  <1>1. ASSUME NEW where, End(where) PROVE Verdict'
    BY <1>1 DEF End
  <1>2. CASE \/ Restart \/ ConnectClient \/ Start \/ Shutdown \/ Stopping
             \/ \E c \in Consumers : AddConsumer(c)
             \/ \E m \in Messages : Redeliver(m)
    <2>1. CASE Start
      BY <2>1 DEF Start
    <2> QED
      BY <1>1, <1>2, <2>1 DEF Restart, ConnectClient, Shutdown, Stopping,
         ShutdownUnconnected, TakeMu, RaiseIsStopped, CancelContext, WaitLoops,
         CloseConsumers, ServerShutdown, ServerShutdownPanics, AddConsumer,
         Redeliver
  <1>3. ASSUME NEW c \in Consumers, ConsumerLoop(c) PROVE Verdict'
    <2> USE NoMessageAssumption DEF Inv, TypeOK, Goto
    <2>1. CASE LoopReceive(c)
      <3>1. PICK m \in Messages : /\ SubOf[m] = c
                                  /\ holds' = [holds EXCEPT ![c] = m]
                                  /\ accepted' = accepted \ {m}
        BY <2>1 DEF LoopReceive
      <3>2. loop' = [loop EXCEPT ![c] = "handle"]
        BY <2>1 DEF LoopReceive
      <3>3. ASSUME NEW d \in Consumers, d # c, loop[d] = "ack"
            PROVE  holds[d] \in accepted /\ holds[d] # m
        <4>1. holds[d] # NoMessage
          BY <3>3 DEF WgCounts, Handling
        <4> QED
          BY <3>1, <3>3, <4>1
      <3> QED
        BY <3>1, <3>2, <3>3
    <2>2. CASE LoopCheck(c) \/ LoopExit(c) \/ HandlerReturns(c)
      BY <2>2 DEF LoopCheck, LoopExit, HandlerReturns
    <2>3. CASE HandlerPanics(c) \/ HandlerAddsConsumer(c) \/ HandlerGetsMu(c)
      BY <2>3 DEF HandlerPanics, HandlerAddsConsumer, HandlerGetsMu
    <2>4. CASE LoopAck(c) \/ LoopNack(c)
      BY <2>4 DEF LoopAck, LoopNack
    <2> QED
      BY <1>3, <2>1, <2>2, <2>3, <2>4 DEF ConsumerLoop
  <1>4. CASE UNCHANGED vars
    BY <1>4 DEF vars
  <1> QED
    BY <1>1, <1>2, <1>3, <1>4 DEF Next, Crash

\* A step of the manager is a step of the contract or a stutter.
LEMMA NextContract ==
    Inv /\ Verdict /\ [Next]_vars => [Contract!Next]_Contract!vars
  <1> SUFFICES ASSUME Inv, Verdict, [Next]_vars
               PROVE  [Contract!Next]_Contract!vars
    OBVIOUS
  <1> DEFINE H == {m \in Messages : \E c \in Consumers : holds[c] = m}
             R == {m \in Messages : msg[m] = "acked"}
  <1> USE DEF manager, registry, work, broker, Contract!vars
  <1>1. ASSUME NEW where, End(where) PROVE Contract!Crash
    <2>1. H' = {} /\ R' = R /\ accepted' = accepted
      BY <1>1, NoMessageAssumption DEF End
    <2> QED
      BY <2>1 DEF Contract!Crash
  <1>2. CASE \/ Restart \/ ConnectClient \/ Start \/ Shutdown \/ Stopping
             \/ \E c \in Consumers : AddConsumer(c)
    BY <1>1, <1>2 DEF Restart, ConnectClient, Start, Shutdown, Stopping,
       ShutdownUnconnected, TakeMu, RaiseIsStopped, CancelContext, WaitLoops,
       CloseConsumers, ServerShutdown, ServerShutdownPanics, AddConsumer,
       Contract!Next
  <1>3. ASSUME NEW m \in Messages, Redeliver(m)
        PROVE  UNCHANGED Contract!vars
    <2>1. R' = R
      BY <1>3 DEF Redeliver, Inv, TypeOK
    <2> QED
      BY <1>3, <2>1 DEF Redeliver
  <1>4. ASSUME NEW c \in Consumers, ConsumerLoop(c)
        PROVE  [Contract!Next]_Contract!vars
    <2> USE NoMessageAssumption DEF Goto
    <2>1. CASE LoopCheck(c) \/ LoopExit(c) \/ HandlerAddsConsumer(c)
               \/ HandlerGetsMu(c)
      BY <2>1 DEF LoopCheck, LoopExit, HandlerAddsConsumer, HandlerGetsMu
    <2>2. CASE LoopReceive(c)
      <3>1. PICK m \in Messages :
              /\ SubOf[m] = c /\ msg[m] = "pending"
              /\ msg' = [msg EXCEPT ![m] = "delivered"]
              /\ holds' = [holds EXCEPT ![c] = m]
              /\ accepted' = accepted \ {m}
        BY <2>2 DEF LoopReceive
      <3>2. holds[c] = NoMessage
        BY <2>2 DEF LoopReceive, Inv, WgCounts, Handling
      <3>3. m \notin H
        BY <3>1, <3>2 DEF Verdict
      <3>4. H' = H \union {m}
        BY <3>1, <3>2 DEF Inv, TypeOK
      <3>5. R' = R
        BY <3>1 DEF Inv, TypeOK
      <3>6. Contract!Begin(m)
        BY <3>1, <3>3, <3>4, <3>5 DEF Contract!Begin
      <3> QED
        BY <3>6 DEF Contract!Next
    <2>3. ASSUME Handling(c)
          PROVE  \E m \in Messages : holds[c] = m
      BY <2>3 DEF Inv, WgCounts, TypeOK
    <2>4. ASSUME NEW m \in Messages, holds[c] = m
          PROVE  /\ m \in H
                 /\ holds' = [holds EXCEPT ![c] = NoMessage] => H' = H \ {m}
      <3>1. \A d \in Consumers : d # c => holds[d] # m
        BY <2>4 DEF Verdict
      <3> QED
        BY <2>4, <3>1 DEF Inv, TypeOK
    <2>5. CASE HandlerReturns(c)
      <3>1. PICK m \in Messages : holds[c] = m
        BY <2>3, <2>5 DEF HandlerReturns, Handling
      <3>2. Contract!Accept(m) \/ UNCHANGED Contract!vars
        BY <2>4, <2>5, <3>1 DEF HandlerReturns, Contract!Accept
      <3> QED
        BY <3>2 DEF Contract!Next
    <2>6. CASE HandlerPanics(c) \/ LoopNack(c)
      <3>1. PICK m \in Messages : holds[c] = m
        BY <2>3, <2>6 DEF HandlerPanics, LoopNack, Handling
      <3>2. m \in H /\ H' = H \ {m}
        BY <2>4, <2>6, <3>1 DEF HandlerPanics, LoopNack
      <3>3. R' = R
        BY <2>6 DEF HandlerPanics, LoopNack, Inv, TypeOK
      <3>4. Contract!Abandon(m)
        BY <2>6, <3>2, <3>3 DEF HandlerPanics, LoopNack, Contract!Abandon
      <3> QED
        BY <3>4 DEF Contract!Next
    <2>7. CASE LoopAck(c)
      <3>1. PICK m \in Messages : holds[c] = m
        BY <2>3, <2>7 DEF LoopAck, Handling
      <3>2. m \in H /\ H' = H \ {m}
        BY <2>4, <2>7, <3>1 DEF LoopAck
      <3>3. m \in accepted /\ accepted' = accepted
        BY <2>7, <3>1 DEF LoopAck, Verdict
      <3>4. CASE msg' = msg
        <4>1. Contract!Abandon(m)
          BY <3>2, <3>3, <3>4 DEF Contract!Abandon
        <4> QED
          BY <4>1 DEF Contract!Next
      <3>5. CASE msg' = [msg EXCEPT ![holds[c]] = "acked"]
        <4>1. R' = R \union {m}
          BY <3>1, <3>5 DEF Inv, TypeOK
        <4>2. Contract!Remove(m)
          BY <3>2, <3>3, <4>1 DEF Contract!Remove
        <4> QED
          BY <4>2 DEF Contract!Next
      <3> QED
        BY <2>7, <3>4, <3>5 DEF LoopAck
    <2> QED
      BY <1>4, <2>1, <2>2, <2>5, <2>6, <2>7 DEF ConsumerLoop
  <1>5. CASE UNCHANGED vars
    BY <1>5 DEF vars
  <1> QED
    BY <1>1, <1>2, <1>3, <1>4, <1>5 DEF Next, Crash, Contract!Next

\* The manager implements AtLeastOnce: a message is acked only as the outcome
\* of an attempt whose handler returned nil.
THEOREM ImplementsContract == Spec => AcksOnlyAccepted
  <1>1. Init => Contract!Init
    BY NoMessageAssumption DEF Init, Contract!Init
  <1> QED
    BY <1>1, InitInv, NextInv, InitVerdict, NextVerdict, NextContract, PTL
       DEF Spec, AcksOnlyAccepted, Contract!Spec
-----------------------------------------------------------------------------
\* A step of the manager is a step of a graceful service or a stutter: a
\* goroutine begins to handle a message before the wait is over, because none
\* runs later (Stages), and the wait ends at a counter of zero.
LEMMA NextGraceful == Inv /\ [Next]_vars => [Graceful!Next]_Graceful!vars
  <1> SUFFICES ASSUME Inv, [Next]_vars PROVE [Graceful!Next]_Graceful!vars
    OBVIOUS
  <1> DEFINE H == {c \in Consumers : Handling(c)}
             Over == main \in {"close", "stopped", "closed"}
  <1> USE DEF manager, registry, work, broker, Graceful!vars
  <1>1. ASSUME NEW where, where \in {"panicked", "crashed"}, End(where)
        PROVE  Graceful!Crash
    BY <1>1 DEF End, Handling, Graceful!Crash
  <1>2. ASSUME Over PROVE Running = {}
    BY <1>2 DEF Inv, Stages
  <1>3. ASSUME Running = {} PROVE H = {}
    BY <1>3 DEF Running, LoopRuns, Handling
  <1>4. CASE Start
    <2>1. H = {}
      BY <1>3, <1>4 DEF Start, Inv, Stages
    <2>2. H' = {} /\ ~Over /\ ~Over'
      BY <1>4 DEF Start, Handling
    <2> QED
      BY <2>1, <2>2
  <1>5. CASE WaitLoops
    <2>1. H = {}
      BY <1>3, <1>5, RunningZero DEF WaitLoops, Inv, WgCounts
    <2>2. H' = H /\ Over'
      BY <1>5 DEF WaitLoops, Handling
    <2>3. Graceful!Return
      BY <2>1, <2>2 DEF Graceful!Return
    <2> QED
      BY <2>3 DEF Graceful!Next
  <1>6. CASE ShutdownUnconnected
    <2>1. H = {}
      BY <1>3, <1>6 DEF ShutdownUnconnected, Inv, NoWorkOnClosedConsumer, Running
    <2>2. H' = H /\ Over'
      BY <1>6 DEF ShutdownUnconnected, Handling
    <2>3. Graceful!Return
      BY <2>1, <2>2 DEF Graceful!Return
    <2> QED
      BY <2>3 DEF Graceful!Next
  <1>7. CASE \/ Restart \/ ConnectClient \/ Shutdown \/ TakeMu \/ RaiseIsStopped
             \/ CancelContext \/ CloseConsumers \/ ServerShutdown
             \/ \E c \in Consumers : AddConsumer(c)
             \/ \E m \in Messages : Redeliver(m)
    <2>1. loop' = loop
      BY <1>7 DEF Restart, ConnectClient, Shutdown, TakeMu, RaiseIsStopped,
         CancelContext, CloseConsumers, ServerShutdown, AddConsumer, Redeliver
    <2>2. H' = H
      BY <2>1 DEF Handling
    <2>3. Over' = Over
      BY <1>7 DEF Alive, Restart, ConnectClient, Shutdown, TakeMu, RaiseIsStopped,
         CancelContext, CloseConsumers, ServerShutdown, AddConsumer, Redeliver
    <2> QED
      BY <2>2, <2>3
  <1>8. ASSUME NEW c \in Consumers, ConsumerLoop(c)
        PROVE  [Graceful!Next]_Graceful!vars
    <2>1. main' = main
      BY <1>8 DEF ConsumerLoop, LoopCheck, LoopExit, LoopReceive, HandlerReturns,
           HandlerPanics, HandlerAddsConsumer, HandlerGetsMu, LoopAck, LoopNack
    <2>2. PICK pc : Goto(c, pc)
      BY <1>8 DEF ConsumerLoop, LoopCheck, LoopExit, LoopReceive, HandlerReturns,
           HandlerPanics, HandlerAddsConsumer, HandlerGetsMu, LoopAck, LoopNack
    <2>3. LoopRuns(c)
      BY <1>8 DEF ConsumerLoop, LoopCheck, LoopExit, LoopReceive, HandlerReturns,
           HandlerPanics, HandlerAddsConsumer, HandlerGetsMu, LoopAck, LoopNack, LoopRuns
    <2>4. ~Over
      BY <1>2, <2>3 DEF Running
    <2>5. H' = IF pc \in {"handle", "lock", "ack", "nack"} THEN H \union {c} ELSE H \ {c}
      BY <2>2 DEF Goto, Handling, Inv, TypeOK
    <2>6. CASE pc \in {"handle", "lock", "ack", "nack"}
      <3>1. Graceful!Begin({c})
        BY <2>1, <2>4, <2>5, <2>6 DEF Graceful!Begin
      <3> QED
        BY <3>1 DEF Graceful!Next
    <2>7. CASE pc \notin {"handle", "lock", "ack", "nack"}
      <3>1. Graceful!Finish({c})
        BY <2>1, <2>5, <2>7 DEF Graceful!Finish
      <3> QED
        BY <3>1 DEF Graceful!Next
    <2> QED
      BY <2>6, <2>7
  <1>9. CASE UNCHANGED vars
    BY <1>9 DEF vars, Handling
  <1> QED
    BY <1>1, <1>4, <1>5, <1>6, <1>7, <1>8, <1>9
       DEF Next, Crash, Stopping, ServerShutdownPanics, Graceful!Next

\* Once Shutdown's wait is over no handler is at work, and none is called again,
\* for any consumers, labels and messages (consumer.go:186).
THEOREM StopsGracefullyCorrect == Spec => StopsGracefully
  <1>1. Init => Graceful!Init
    BY DEF Init, Handling, Graceful!Init
  <1> QED
    BY <1>1, InitInv, NextInv, NextGraceful, PTL
       DEF Spec, StopsGracefully, Graceful!Spec
=============================================================================
