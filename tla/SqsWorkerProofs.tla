--------------------------- MODULE SqsWorkerProofs ---------------------------
(* Theorems about SqsWorker, for every set of topics and messages and every *)
(* MaxNumberOfMessages.                                                     *)
EXTENDS SqsWorker, TLAPS

\* The inductive invariant: the bound on wg in TypeOK rests on what the
\* counter counts.
Inv == TypeOK /\ WgCounts

LEMMA InitInv == Init => Inv
  <1> SUFFICES ASSUME Init PROVE Inv
    OBVIOUS
  <1>1. chan \in Seq(SUBSET Messages)
    BY DEF Init
  <1>2. TypeOK
    <2>1. /\ task \in [Messages -> {"idle", "lookup", "event", "error", "delete"}]
          /\ queue \in [Messages -> {"visible", "inflight", "deleted"}]
      BY DEF Init
    <2>2. /\ batch \in SUBSET Messages /\ nilTopic \in SUBSET Messages
          /\ accepted \in SUBSET Messages /\ expired \in SUBSET Messages
      BY DEF Init
    <2>3. /\ stopping \in BOOLEAN /\ enabled \in BOOLEAN
          /\ started \in BOOLEAN /\ cancelled \in BOOLEAN
      BY DEF Init
    <2>4. wg \in 0..2
      BY DEF Init
    <2> QED
      BY <1>1, <2>1, <2>2, <2>3, <2>4 DEF Init, TypeOK, TopicsTypeOK, NewAwsTopicManager
  <1>3. WgCounts
    BY DEF Init, WgCounts, MLRuns, HLRuns, TasksIdle
  <1> QED
    BY <1>2, <1>3 DEF Inv

LEMMA NextInv == Inv /\ [Next]_vars => Inv'
  <1> SUFFICES ASSUME Inv, [Next]_vars PROVE Inv'
    OBVIOUS
  <1> USE QueueAssumption, BatchAssumption, NoTopicAssumption
      DEF Inv, TypeOK, TopicsTypeOK, WgCounts, MLRuns, HLRuns, TasksIdle,
          lifecycle, registration, loops, tasks, sqs, topicVars
  <1>1. CASE Crash
    <2>1. chan' \in Seq(SUBSET Messages)
      BY <1>1 DEF Crash
    <2>2. TypeOK'
      <3>1. task' \in [Messages -> {"idle", "lookup", "event", "error",
                                    "delete"}]
        BY <1>1 DEF Crash
      <3>2. batch' \in SUBSET Messages /\ nilTopic' \in SUBSET Messages
        BY <1>1 DEF Crash
      <3>3. /\ stopping' \in BOOLEAN /\ enabled' \in BOOLEAN
            /\ started' \in BOOLEAN /\ cancelled' \in BOOLEAN
        BY <1>1 DEF Crash
      <3>4. wg' \in 0..2
        BY <1>1 DEF Crash
      <3> QED
        BY <1>1, <2>1, <3>1, <3>2, <3>3, <3>4 DEF Crash
    <2>3. WgCounts'
      BY <1>1 DEF Crash
    <2> QED
      BY <2>2, <2>3
  <1>2. CASE Restart
    BY <1>2 DEF Restart
  <1>3. CASE Application
    BY <1>3 DEF Application, ManageTopics, Register, RegisterCheck,
                RegisterHandler, SetRegion, AddTopic, RemoveTopic
  <1>4. CASE Serve
    <2>1. CASE ServeWithoutHandler
      BY <2>1, <1>1 DEF ServeWithoutHandler
    <2>2. CASE ServeUnknownTopic
      BY <2>2 DEF ServeUnknownTopic
    <2>3. CASE ServeTopic
      <3>1. served' \in Topics \union {NoTopic}
        BY <2>3 DEF ServeTopic, GetTopic
      <3>2. TypeOK'
        BY <2>3, <3>1 DEF ServeTopic
      <3>3. WgCounts'
        BY <2>3 DEF ServeTopic
      <3> QED
        BY <3>2, <3>3
    <2>4. CASE MarkStarted
      BY <2>4 DEF MarkStarted
    <2> QED
      BY <1>4, <2>1, <2>2, <2>3, <2>4 DEF Serve
  <1>5. CASE OnStop
    BY <1>5 DEF OnStop
  <1>6. CASE Shutdown
    <2>1. CASE LowerFlags
      <3>1. TypeOK'
        BY <2>1 DEF LowerFlags
      <3>2. WgCounts'
        BY <2>1 DEF LowerFlags
      <3> QED
        BY <3>1, <3>2
    <2>2. CASE Cancel
      BY <2>2 DEF Cancel
    <2>3. CASE Wait
      BY <2>3 DEF Wait, Complete
    <2>4. CASE WaitReturns
      BY <2>4 DEF WaitReturns, Complete
    <2>5. CASE WaitPanics
      BY <2>5, <1>1 DEF WaitPanics
    <2> QED
      BY <1>6, <2>1, <2>2, <2>3, <2>4, <2>5 DEF Shutdown
  <1>7. CASE MessageLoop
    <2>1. CASE MLStart
      BY <2>1 DEF MLStart, WgAdd
    <2>2. CASE MLCheck \/ MLReceiveFails
      BY <2>2 DEF MLCheck, MLReceiveFails
    <2>3. CASE MLExit
      BY <2>3 DEF MLExit, WgDone
    <2>4. CASE MLReceive
      BY <2>4 DEF MLReceive, Visible
    <2>5. CASE MLSend
      BY <2>5 DEF MLSend
    <2> QED
      BY <1>7, <2>1, <2>2, <2>3, <2>4, <2>5 DEF MessageLoop
  <1>8. CASE HandlingLoop
    <2>1. CASE HLStart
      BY <2>1 DEF HLStart, WgAdd
    <2>2. CASE HLTake
      BY <2>2 DEF HLTake
    <2>3. CASE HLExit
      BY <2>3 DEF HLExit, WgDone
    <2>4. CASE HLBatchDone
      BY <2>4 DEF HLBatchDone
    <2> QED
      BY <1>8, <2>1, <2>2, <2>3, <2>4 DEF HandlingLoop
  <1>9. ASSUME NEW m \in Messages, HandleOne(m) PROVE Inv'
    <2>1. CASE LookupTopic(m)
      BY <2>1 DEF LookupTopic
    <2>2. CASE OnEvent(m)
      BY <2>2 DEF OnEvent, Goto, Return
    <2>3. CASE OnError(m)
      BY <2>3 DEF OnError, Goto, Return
    <2>4. CASE DeleteMessage(m)
      BY <2>4 DEF DeleteMessage, Return
    <2> QED
      BY <1>9, <2>1, <2>2, <2>3, <2>4 DEF HandleOne
  <1>10. ASSUME NEW m \in Messages, VisibilityTimeout(m) PROVE Inv'
    BY <1>10 DEF VisibilityTimeout
  <1>11. CASE UNCHANGED vars
    BY <1>11 DEF vars
  <1> QED
    BY <1>1, <1>2, <1>3, <1>4, <1>5, <1>6, <1>7, <1>8, <1>9, <1>10, <1>11
       DEF Next

\* TypeOK and WgCounts hold in every state of every instance.
THEOREM TypeCorrect == Spec => []TypeOK
  BY InitInv, NextInv, PTL DEF Spec, Inv

THEOREM CounterCorrect == Spec => []WgCounts
  BY InitInv, NextInv, PTL DEF Spec, Inv
-----------------------------------------------------------------------------
\* When wg.Wait returns the counter is zero, so no registered loop runs.
LEMMA NextQuiescent ==
    Inv /\ [Next]_vars => [Completes => ~MLRuns /\ ~HLRuns /\ TasksIdle]_vars
  <1> SUFFICES ASSUME Inv, Next, Completes
               PROVE  ~MLRuns /\ ~HLRuns /\ TasksIdle
    BY DEF Completes, vars, lifecycle
  <1>1. wg = 0 => ~MLRuns /\ ~HLRuns /\ TasksIdle
    BY DEF Inv, TypeOK, WgCounts, MLRuns, HLRuns, TasksIdle
  <1>2. CASE Wait
    BY <1>1, <1>2 DEF Wait, Completes
  <1>3. CASE WaitReturns
    BY <1>1, <1>3 DEF WaitReturns
  <1>4. CASE Crash \/ Restart \/ Application \/ Serve \/ OnStop
    BY <1>4 DEF Completes, Crash, Restart, Application, ManageTopics, Register,
                RegisterCheck, RegisterHandler, Serve, ServeWithoutHandler,
                ServeUnknownTopic, ServeTopic, MarkStarted, OnStop, lifecycle
  <1>5. CASE LowerFlags \/ Cancel \/ WaitPanics
    BY <1>5 DEF Completes, LowerFlags, Cancel, WaitPanics, Crash
  <1>6. CASE MessageLoop \/ HandlingLoop
    BY <1>6 DEF Completes, lifecycle, WgAdd, WgDone, MessageLoop, MLStart,
                MLCheck, MLExit, MLReceive, MLReceiveFails, MLSend,
                HandlingLoop, HLStart, HLTake, HLExit, HLBatchDone
  <1>7. ASSUME NEW m \in Messages, HandleOne(m) \/ VisibilityTimeout(m)
        PROVE  FALSE
    BY <1>7 DEF Completes, lifecycle, HandleOne, LookupTopic, OnEvent, OnError,
                DeleteMessage, VisibilityTimeout
  <1> QED
    BY <1>2, <1>3, <1>4, <1>5, <1>6, <1>7 DEF Next, Shutdown

\* Shutdown completes only when no registered loop and no handler runs.
THEOREM CompletionIsQuiescent == Spec => QuiescentAtCompletion
  BY InitInv, NextInv, NextQuiescent, PTL DEF Spec, QuiescentAtCompletion

-----------------------------------------------------------------------------
\* A goroutine calls DeleteMessage only after its attempt was accepted.
Verdict ==
    /\ accepted \in SUBSET Messages
    /\ task \in [Messages -> {"idle", "lookup", "event", "error", "delete"}]
    /\ \A m \in Messages : task[m] = "delete" => m \in accepted

LEMMA InitVerdict == Init => Verdict
  BY DEF Init, Verdict

LEMMA NextVerdict == Verdict /\ [Next]_vars => Verdict'
  <1> SUFFICES ASSUME Verdict, [Next]_vars PROVE Verdict'
    OBVIOUS
  <1> USE DEF Verdict, lifecycle, registration, loops, tasks, sqs, topicVars
  <1>1. CASE Crash
    BY <1>1 DEF Crash
  <1>2. CASE Restart \/ Application \/ Serve \/ OnStop \/ Shutdown
    BY <1>1, <1>2 DEF Restart, Application, ManageTopics, Register,
        RegisterCheck, RegisterHandler, OnStop, Serve, ServeWithoutHandler,
        ServeUnknownTopic, ServeTopic, MarkStarted, Shutdown, LowerFlags, Cancel,
        Wait, WaitReturns, WaitPanics
  <1>3. CASE MessageLoop
    BY <1>3 DEF MessageLoop, MLStart, MLCheck, MLExit, MLReceive,
                MLReceiveFails, MLSend
  <1>4. CASE HandlingLoop
    BY <1>4 DEF HandlingLoop, HLStart, HLTake, HLExit, HLBatchDone
  <1>5. ASSUME NEW m \in Messages, HandleOne(m) \/ VisibilityTimeout(m)
        PROVE  Verdict'
    BY <1>5 DEF HandleOne, LookupTopic, OnEvent, OnError, DeleteMessage, Goto, Return,
                VisibilityTimeout
  <1>6. CASE UNCHANGED vars
    BY <1>6 DEF vars
  <1> QED
    BY <1>1, <1>2, <1>3, <1>4, <1>5, <1>6 DEF Next

\* A step of the worker is a step of the contract or a stutter.
LEMMA NextContract == Inv /\ Verdict /\ [Next]_vars => [Contract!Next]_Contract!vars
  <1> SUFFICES ASSUME Inv, Verdict, [Next]_vars
               PROVE  [Contract!Next]_Contract!vars
    OBVIOUS
  <1> USE DEF lifecycle, registration, loops, tasks, sqs, topicVars, Contract!vars
  <1>1. CASE Crash
    <2>1. Contract!Crash
      BY <1>1 DEF Crash, Contract!Crash
    <2> QED
      BY <2>1 DEF Contract!Next
  <1>2. CASE Restart \/ Application \/ Serve \/ OnStop \/ Shutdown
    BY <1>1, <1>2 DEF Restart, Application, ManageTopics, Register,
        RegisterCheck, RegisterHandler, OnStop, Serve, ServeWithoutHandler,
        ServeUnknownTopic, ServeTopic, MarkStarted, Shutdown, LowerFlags, Cancel,
        Wait, WaitReturns, WaitPanics
  <1>3. CASE MessageLoop
    <2>1. CASE MLReceive
      <3>1. \A m \in Messages : queue'[m] = "deleted" <=> queue[m] = "deleted"
        BY <2>1 DEF MLReceive, Visible
      <3>2. task' = task /\ accepted' = accepted
        BY <2>1 DEF MLReceive
      <3> QED
        BY <3>1, <3>2
    <2> QED
      BY <1>3, <2>1 DEF MessageLoop, MLStart, MLCheck, MLExit, MLReceiveFails,
                        MLSend
  <1>4. CASE HandlingLoop
    <2>1. CASE HLTake
      <3>1. \A m \in Messages : /\ task[m] \notin {"event", "error", "delete"}
                               /\ task'[m] \notin {"event", "error", "delete"}
        BY <2>1 DEF HLTake, Verdict, Inv, WgCounts, TasksIdle
      <3>2. accepted' = accepted /\ queue' = queue
        BY <2>1 DEF HLTake
      <3> QED
        BY <3>1, <3>2
    <2> QED
      BY <1>4, <2>1 DEF HandlingLoop, HLStart, HLExit, HLBatchDone
  <1>5. ASSUME NEW m \in Messages, LookupTopic(m)
        PROVE  Contract!Begin(m)
    BY <1>5 DEF LookupTopic, Goto, Return, Verdict, Contract!Begin
  <1>6. ASSUME NEW m \in Messages, OnEvent(m) \/ OnError(m)
        PROVE  \/ Contract!Accept(m) \/ Contract!Abandon(m)
               \/ UNCHANGED Contract!vars
    BY <1>6 DEF OnEvent, OnError, Goto, Return, Verdict, Contract!Accept,
                Contract!Abandon
  <1>7. ASSUME NEW m \in Messages, DeleteMessage(m)
        PROVE  Contract!Remove(m) \/ Contract!Abandon(m)
    <2> DEFINE H == {n \in Messages : task[n] \in {"event", "error", "delete"}}
               R == {n \in Messages : queue[n] = "deleted"}
    <2>1. m \in H /\ m \in accepted /\ H' = H \ {m} /\ accepted' = accepted
      BY <1>7 DEF DeleteMessage, Goto, Return, Verdict
    <2>2. CASE queue' = queue
      BY <2>1, <2>2 DEF Contract!Abandon
    <2>3. CASE queue' = [queue EXCEPT ![m] = "deleted"]
      <3>1. R' = R \union {m}
        BY <2>3 DEF Inv, TypeOK
      <3> QED
        BY <2>1, <3>1 DEF Contract!Remove
    <2> QED
      BY <1>7, <2>2, <2>3 DEF DeleteMessage
  <1>8. ASSUME NEW m \in Messages, VisibilityTimeout(m)
        PROVE  UNCHANGED Contract!vars
    BY <1>8 DEF VisibilityTimeout
  <1>9. CASE UNCHANGED vars
    BY <1>9 DEF vars
  <1> QED
    BY <1>1, <1>2, <1>3, <1>4, <1>5, <1>6, <1>7, <1>8, <1>9
       DEF Next, HandleOne, Contract!Next

\* The worker implements AtLeastOnce: a message leaves the queue only as the
\* outcome of an attempt that accepted it.
THEOREM ImplementsContract == Spec => DeletesOnlyAccepted
  <1>1. Init => Contract!Init
    BY DEF Init, Contract!Init
  <1> QED
    BY <1>1, InitInv, NextInv, InitVerdict, NextVerdict, NextContract, PTL
       DEF Spec, DeletesOnlyAccepted, Contract!Spec
-----------------------------------------------------------------------------
(* OneCopyUnlessExpired is inductive next to Inv; it is stated of one        *)
(* message at a time.                                                        *)

OneCopy(m) ==
    /\ queue[m] # "inflight" => ~InBatch(m) /\ InChan(m) = {} /\ ~InTask(m)
    /\ InBatch(m) => InChan(m) = {} /\ ~InTask(m)
    /\ InTask(m) => InChan(m) = {}
    /\ \A i, j \in InChan(m) : i = j

\* A step that leaves the places of m alone, or takes m out of its task,
\* keeps OneCopy(m).
LEMMA OneCopyKept ==
    ASSUME NEW m \in Messages, OneCopy(m),
           queue'[m] = queue[m] \/ (InTask(m) /\ ~InTask(m)'),
           InTask(m)' => InTask(m),
           InBatch(m)' => InBatch(m), chan' = chan
    PROVE  OneCopy(m)'
  <1>1. InChan(m)' = InChan(m)
    BY DEF InChan
  <1> QED
    BY <1>1 DEF OneCopy

LEMMA InitOneCopy == Init => OneCopyUnlessExpired
  <1> SUFFICES ASSUME Init, NEW m \in Messages PROVE OneCopy(m)
    BY DEF OneCopyUnlessExpired, OneCopy
  <1>1. InChan(m) = {}
    BY DEF Init, InChan
  <1> QED
    BY <1>1 DEF Init, OneCopy, InBatch, InTask

LEMMA NextOneCopy ==
    Inv /\ OneCopyUnlessExpired /\ [Next]_vars => OneCopyUnlessExpired'
  <1> SUFFICES ASSUME Inv, OneCopyUnlessExpired, [Next]_vars,
                      NEW m \in Messages, m \notin expired'
               PROVE  OneCopy(m)'
    BY DEF OneCopyUnlessExpired, OneCopy
  <1> USE DEF lifecycle, registration, loops, tasks, sqs, topicVars
  <1>1. m \notin expired
    BY DEF vars, Next, Crash, Restart, Application, ManageTopics, Register,
           RegisterCheck, RegisterHandler, Serve, ServeWithoutHandler,
           ServeUnknownTopic, ServeTopic, MarkStarted, OnStop, Shutdown, LowerFlags,
           Cancel, Wait, WaitReturns, WaitPanics, MessageLoop, MLStart, MLCheck, MLExit,
           MLReceive, MLReceiveFails, MLSend, HandlingLoop, HLStart, HLTake,
           HLExit, HLBatchDone, HandleOne, LookupTopic, OnEvent, OnError,
           DeleteMessage, VisibilityTimeout
  <1>2. OneCopy(m)
    BY <1>1 DEF OneCopyUnlessExpired, OneCopy
  <1>3. chan \in Seq(SUBSET Messages) /\ batch \subseteq Messages
    BY DEF Inv, TypeOK
  <1>4. CASE Crash
    <2>1. InChan(m)' = {}
      BY <1>4 DEF Crash, InChan
    <2> QED
      BY <1>4, <2>1 DEF Crash, OneCopy, InBatch, InTask
  <1>5. CASE Restart \/ Application \/ Serve \/ OnStop \/ Shutdown
    <2>1. CASE UNCHANGED <<loops, task, queue>>
      BY <2>1, <1>2, OneCopyKept DEF InBatch, InTask
    <2>2. CASE ServeTopic
      BY <2>2, <1>2, OneCopyKept DEF ServeTopic, InBatch, InTask
    <2> QED
      BY <1>4, <1>5, <2>1, <2>2 DEF Restart, Application, ManageTopics,
         Register, RegisterCheck, RegisterHandler, Serve, ServeWithoutHandler,
         ServeUnknownTopic, MarkStarted, OnStop, Shutdown, LowerFlags, Cancel, Wait,
         WaitReturns, WaitPanics
  <1>6. CASE MLReceive
    <2>1. PICK b \in SUBSET Visible :
            /\ batch' = b
            /\ queue' = [n \in Messages |->
                            IF n \in b THEN "inflight" ELSE queue[n]]
      BY <1>6 DEF MLReceive
    <2>2. ml' = "send" /\ chan' = chan /\ task' = task
      BY <1>6 DEF MLReceive
    <2>3. InChan(m)' = InChan(m) /\ (InTask(m)' <=> InTask(m))
      BY <2>2 DEF InChan, InTask
    <2>4. CASE m \in b
      <3>1. queue[m] = "visible"
        BY <2>4 DEF Visible
      <3>2. queue'[m] = "inflight"
        BY <2>1, <2>4
      <3> QED
        BY <1>2, <2>3, <3>1, <3>2 DEF OneCopy
    <2>5. CASE m \notin b
      <3>1. queue'[m] = queue[m] /\ ~InBatch(m)'
        BY <2>1, <2>5 DEF InBatch
      <3> QED
        BY <1>2, <2>3, <3>1 DEF OneCopy
    <2> QED
      BY <2>4, <2>5
  <1>7. CASE MLSend
    <2>1. /\ ml = "send" /\ ml' = "check" /\ chan' = Append(chan, batch)
          /\ task' = task /\ queue' = queue
      BY <1>7 DEF MLSend
    <2>2. InChan(m)' = IF m \in batch THEN InChan(m) \union {Len(chan) + 1}
                                      ELSE InChan(m)
      BY <2>1, <1>3 DEF InChan
    <2>3. ~InBatch(m)' /\ (InTask(m)' <=> InTask(m))
      BY <2>1 DEF InBatch, InTask
    <2>4. CASE m \in batch
      <3>1. InChan(m)' = {Len(chan) + 1}
        BY <1>2, <2>1, <2>2, <2>4 DEF OneCopy, InBatch
      <3>2. queue'[m] = "inflight" /\ ~InTask(m)
        BY <1>2, <2>1, <2>4 DEF OneCopy, InBatch
      <3> QED
        BY <2>3, <3>1, <3>2 DEF OneCopy
    <2> QED
      BY <1>2, <2>1, <2>2, <2>3, <2>4 DEF OneCopy
  <1>8. CASE MLStart \/ MLCheck \/ MLExit \/ MLReceiveFails
    <2>1. ml' # "send" /\ chan' = chan /\ task' = task /\ queue' = queue
      BY <1>8 DEF MLStart, MLCheck, MLExit, MLReceiveFails
    <2> QED
      BY <2>1, <1>2, OneCopyKept DEF InBatch, InTask
  <1>9. CASE HLTake
    <2>1. /\ chan # <<>> /\ chan' = Tail(chan) /\ queue' = queue
          /\ ml' = ml /\ batch' = batch
          /\ task' = [n \in Messages |->
                         IF n \in Head(chan) THEN "lookup" ELSE task[n]]
      BY <1>9 DEF HLTake
    <2>2. InChan(m)' = {i \in 1..(Len(chan) - 1) : m \in chan[i + 1]}
      BY <2>1, <1>3 DEF InChan
    <2>3. \A i \in InChan(m)' : i + 1 \in InChan(m) /\ i + 1 # 1
      BY <2>2, <1>3 DEF InChan
    <2>4. (InBatch(m)' <=> InBatch(m)) /\ queue'[m] = queue[m]
      BY <2>1 DEF InBatch
    <2>5. CASE m \in Head(chan)
      <3>1. 1 \in InChan(m)
        BY <2>1, <2>5, <1>3 DEF InChan
      <3>2. InChan(m)' = {}
        BY <1>2, <2>3, <3>1 DEF OneCopy
      <3>3. queue[m] = "inflight" /\ ~InBatch(m)
        BY <1>2, <3>1 DEF OneCopy
      <3> QED
        BY <2>4, <3>2, <3>3 DEF OneCopy
    <2>6. CASE m \notin Head(chan)
      <3>1. InTask(m)' <=> InTask(m)
        BY <2>1, <2>6 DEF InTask
      <3>2. InChan(m) = {} => InChan(m)' = {}
        BY <2>3
      <3>3. \A i, j \in InChan(m)' : i = j
        <4> SUFFICES ASSUME NEW i \in InChan(m)', NEW j \in InChan(m)'
                     PROVE  i = j
          OBVIOUS
        <4>1. i + 1 = j + 1
          BY <1>2, <2>3 DEF OneCopy
        <4> QED
          BY <4>1, <2>2, <1>3
      <3> QED
        BY <1>2, <2>4, <3>1, <3>2, <3>3 DEF OneCopy
    <2> QED
      BY <2>5, <2>6
  <1>10. CASE HLStart \/ HLExit \/ HLBatchDone
    <2>1. UNCHANGED <<ml, batch, chan, task, queue>>
      BY <1>10 DEF HLStart, HLExit, HLBatchDone
    <2> QED
      BY <2>1, <1>2, OneCopyKept DEF InBatch, InTask
  <1>11. ASSUME NEW n \in Messages, HandleOne(n) PROVE OneCopy(m)'
    <2>1. UNCHANGED <<ml, batch, chan>>
      BY <1>11 DEF HandleOne, LookupTopic, OnEvent, OnError, DeleteMessage
    <2>2. InTask(m)' => InTask(m)
      BY <1>11 DEF HandleOne, LookupTopic, OnEvent, OnError, DeleteMessage,
                   Goto, Return, InTask, Inv, TypeOK
    <2>3. queue'[m] = queue[m] \/ (InTask(m) /\ ~InTask(m)')
      BY <1>11 DEF HandleOne, LookupTopic, OnEvent, OnError, DeleteMessage,
                   Goto, Return, InTask, Inv, TypeOK
    <2> QED
      BY <2>1, <2>2, <2>3, <1>2, OneCopyKept DEF InBatch
  <1>12. ASSUME NEW n \in Messages, VisibilityTimeout(n) PROVE OneCopy(m)'
    <2>1. n # m
      BY <1>12 DEF VisibilityTimeout
    <2>2. UNCHANGED <<ml, batch, chan, task>> /\ queue'[m] = queue[m]
      BY <1>12, <2>1 DEF VisibilityTimeout, Inv, TypeOK
    <2> QED
      BY <2>2, <1>2, OneCopyKept DEF InBatch, InTask
  <1>13. CASE UNCHANGED vars
    BY <1>13, <1>2, OneCopyKept DEF vars, InBatch, InTask
  <1> QED
    BY <1>4, <1>5, <1>6, <1>7, <1>8, <1>9, <1>10, <1>11, <1>12, <1>13
       DEF Next, MessageLoop, HandlingLoop

\* A message whose visibility timeout never passed is sent on the channel
\* once and handled once.
THEOREM OneCopyCorrect == Spec => []OneCopyUnlessExpired
  BY InitInv, NextInv, InitOneCopy, NextOneCopy, PTL DEF Spec

-----------------------------------------------------------------------------
\* A worker whose loops were spawned has its flag up from the end of Serve until
\* OnStop; the Shutdown that Serve itself calls finds no loop.
Serving ==
    LET unspawned == ml = "unspawned" /\ hl = "unspawned"
    IN  /\ main \in {"invoke", "mark", "running", "shutdown", "cancel", "wait",
                     "blocked", "released", "stopped", "crashed"}
        /\ main \in {"invoke", "crashed"} => unspawned
        /\ main \in {"running", "shutdown"} => started \/ unspawned
        /\ main \in {"shutdown", "cancel", "wait", "blocked", "released"} /\ ~stopping
            => unspawned

LEMMA InitServing == Init => Serving
  BY DEF Init, Serving

LEMMA NextServing == Serving /\ [Next]_vars => Serving'
  <1> SUFFICES ASSUME Serving, [Next]_vars PROVE Serving'
    OBVIOUS
  <1> USE DEF Serving, lifecycle, registration, loops
  <1>1. CASE Crash \/ ServeWithoutHandler \/ WaitPanics
    BY <1>1 DEF Crash, ServeWithoutHandler, WaitPanics
  <1>2. CASE Restart
    BY <1>2 DEF Restart
  <1>3. CASE Application
    BY <1>3 DEF Application, ManageTopics, Register, RegisterCheck, RegisterHandler
  <1>4. CASE ServeUnknownTopic \/ ServeTopic \/ MarkStarted
    BY <1>4 DEF ServeUnknownTopic, ServeTopic, MarkStarted
  <1>5. CASE OnStop
    BY <1>5 DEF OnStop
  <1>6. CASE LowerFlags \/ Cancel
    BY <1>6 DEF LowerFlags, Cancel
  <1>7. CASE Wait \/ WaitReturns
    BY <1>7 DEF Wait, WaitReturns, Complete
  <1>8. CASE MessageLoop
    BY <1>8 DEF MessageLoop, MLStart, MLCheck, MLExit, MLReceive, MLReceiveFails,
                MLSend, WgAdd, WgDone
  <1>9. CASE HandlingLoop
    BY <1>9 DEF HandlingLoop, HLStart, HLTake, HLExit, HLBatchDone, WgAdd, WgDone
  <1>10. CASE \E m \in Messages : HandleOne(m) \/ VisibilityTimeout(m)
    BY <1>10 DEF HandleOne, LookupTopic, OnEvent, OnError, DeleteMessage,
                 VisibilityTimeout
  <1>11. CASE UNCHANGED vars
    BY <1>11 DEF vars
  <1> QED
    BY <1>1, <1>2, <1>3, <1>4, <1>5, <1>6, <1>7, <1>8, <1>9, <1>10, <1>11
       DEF Next, Serve, Shutdown

\* Once Serve has returned and no Register is past its check, none gets past it
\* and the running loops keep their handler until a Shutdown lowers started, for
\* any topics, messages and batch size (worker.go:80, 163, 170, 182).
THEOREM HandlerKeptCorrect == Spec => HandlerKeptWhileServing
  <1> DEFINE Kept == registering' = {} /\ handler' = handler
  <1>1. ASSUME Serving, Next, main \in {"running", "shutdown"}, MLRuns \/ HLRuns,
               registering = {}, main' # "crashed"
        PROVE  Kept
    <2>1. started
      BY <1>1 DEF Serving, MLRuns, HLRuns
    <2>2. CASE Application
      <3>1. ASSUME NEW t \in Topics PROVE ~Register(t)
        BY <1>1, <2>1 DEF Register, RegisterCheck, RegisterHandler
      <3>2. ManageTopics
        BY <2>2, <3>1 DEF Application
      <3> QED
        BY <1>1, <3>2 DEF ManageTopics, registration
    <2>3. CASE Restart \/ Serve \/ OnStop \/ Shutdown
      BY <1>1, <2>3 DEF Serve, Shutdown, OnStop, Crash, Restart, ServeWithoutHandler,
         ServeUnknownTopic, ServeTopic, MarkStarted, LowerFlags, Cancel, Wait,
         WaitReturns, WaitPanics, registration
    <2>4. CASE MessageLoop \/ HandlingLoop
      BY <1>1, <2>4 DEF MessageLoop, HandlingLoop, MLStart, MLCheck, MLExit, MLReceive,
         MLReceiveFails, MLSend, HLStart, HLTake, HLExit, HLBatchDone, registration
    <2>5. CASE \E m \in Messages : HandleOne(m) \/ VisibilityTimeout(m)
      BY <1>1, <2>5 DEF HandleOne, LookupTopic, OnEvent, OnError, DeleteMessage,
         VisibilityTimeout, registration
    <2> QED
      BY <1>1, <2>2, <2>3, <2>4, <2>5 DEF Next, Crash
  <1>2. Serving /\ [Next]_vars =>
          [/\ main \in {"running", "shutdown"} /\ (MLRuns \/ HLRuns)
           /\ registering = {}
           => \/ registering' = {} /\ handler' = handler
              \/ main' = "crashed"]_vars
    BY <1>1
  <1> QED
    BY <1>2, InitServing, NextServing, PTL DEF Spec, HandlerKeptWhileServing
-----------------------------------------------------------------------------
\* Under CountedBeforeWait nothing runs, and nothing will, when the last
\* Shutdown has returned; while it sleeps the loops have all begun.
Quiet ==
    /\ main \in {"blocked", "released", "stopped"} => ml # "spawned" /\ hl # "spawned"
    /\ main = "stopped" => wg = 0

LEMMA NextQuiet ==
    Inv /\ CountedBeforeWait /\ Quiet /\ [Next]_vars => Quiet'
  <1> SUFFICES ASSUME Inv, CountedBeforeWait, Quiet, [Next]_vars PROVE Quiet'
    OBVIOUS
  <1> USE DEF Quiet, lifecycle, registration, loops
  <1>1. CASE Crash \/ ServeWithoutHandler \/ WaitPanics
    BY <1>1 DEF Crash, ServeWithoutHandler, WaitPanics
  <1>2. CASE Restart \/ ServeUnknownTopic \/ ServeTopic \/ MarkStarted
    BY <1>2 DEF Restart, ServeUnknownTopic, ServeTopic, MarkStarted
  <1>3. CASE OnStop \/ LowerFlags \/ Cancel
    BY <1>3 DEF OnStop, LowerFlags, Cancel
  <1>4. CASE Wait \/ WaitReturns
    BY <1>4 DEF Wait, WaitReturns, Complete, CountedBeforeWait
  <1>5. CASE MLStart \/ HLStart
    <2>1. main \notin {"blocked", "released", "stopped"} /\ main' = main
      BY <1>5 DEF MLStart, HLStart, WgAdd
    <2> QED
      BY <2>1
  <1>6. CASE MLExit \/ HLExit
    <2>1. wg # 0
      BY <1>6 DEF MLExit, HLExit, Inv, TypeOK, WgCounts, MLRuns, HLRuns
    <2>2. /\ main' = "released" => main \in {"blocked", "released"}
          /\ main' \in {main, "released"}
      BY <1>6 DEF MLExit, HLExit, WgDone
    <2> QED
      BY <1>6, <2>1, <2>2 DEF MLExit, HLExit
  <1>7. CASE MLCheck \/ MLReceive \/ MLReceiveFails \/ MLSend
    BY <1>7 DEF MLCheck, MLReceive, MLReceiveFails, MLSend
  <1>8. CASE HLTake \/ HLBatchDone
    BY <1>8 DEF HLTake, HLBatchDone
  <1>9. CASE Application \/ \E m \in Messages : HandleOne(m) \/ VisibilityTimeout(m)
    BY <1>9 DEF Application, ManageTopics, Register, RegisterCheck, RegisterHandler,
                HandleOne, LookupTopic, OnEvent, OnError, DeleteMessage,
                VisibilityTimeout
  <1>10. CASE UNCHANGED vars
    BY <1>10 DEF vars
  <1> QED
    BY <1>1, <1>2, <1>3, <1>4, <1>5, <1>6, <1>7, <1>8, <1>9, <1>10
       DEF Next, Serve, Shutdown, MessageLoop, HandlingLoop

\* A step of such a worker is a step of a graceful service or a stutter.
LEMMA NextGraceful ==
    Inv /\ CountedBeforeWait /\ Quiet /\ [Next]_vars => [Graceful!Next]_Graceful!vars
  <1> SUFFICES ASSUME Inv, CountedBeforeWait, Quiet, [Next]_vars
               PROVE  [Graceful!Next]_Graceful!vars
    OBVIOUS
  <1> DEFINE W == {m \in Messages : task[m] # "idle"}
             Over == main = "stopped"
  <1> USE DEF lifecycle, registration, loops, tasks, sqs, topicVars, Graceful!vars
  <1>1. ASSUME Crash PROVE Graceful!Crash
    BY <1>1 DEF Crash, Graceful!Crash
  <1>2. CASE ServeWithoutHandler \/ WaitPanics
    <2>1. Crash
      BY <1>2 DEF ServeWithoutHandler, WaitPanics
    <2> QED
      BY <1>1, <2>1 DEF Graceful!Next
  <1>3. CASE Wait \/ WaitReturns
    <2>1. W' = W
      BY <1>3 DEF Wait, WaitReturns
    <2>2. CASE Over'
      <3>1. wg = 0
        BY <1>3, <2>2 DEF Wait, WaitReturns
      <3>2. W = {}
        BY <3>1 DEF Inv, TypeOK, WgCounts, MLRuns, HLRuns, TasksIdle
      <3>3. Graceful!Return
        BY <2>1, <2>2, <3>2 DEF Graceful!Return
      <3> QED
        BY <3>3 DEF Graceful!Next
    <2>3. CASE ~Over'
      <3>1. ~Over
        BY <1>3 DEF Wait, WaitReturns
      <3> QED
        BY <2>1, <2>3, <3>1
    <2> QED
      BY <2>2, <2>3
  <1>4. CASE HLTake
    <2>1. hl = "select" /\ main' = main /\ chan # <<>>
      BY <1>4 DEF HLTake
    <2>2. ~Over
      BY <2>1 DEF Quiet, Inv, WgCounts, MLRuns, HLRuns
    <2>3. PICK J \in SUBSET Messages : J = Head(chan)
      BY <2>1 DEF Inv, TypeOK
    <2>4. W' = W \union J
      BY <1>4, <2>3 DEF HLTake
    <2>5. Graceful!Begin(J)
      BY <2>1, <2>2, <2>4 DEF Graceful!Begin
    <2> QED
      BY <2>5 DEF Graceful!Next
  <1>5. ASSUME NEW m \in Messages, HandleOne(m)
        PROVE  [Graceful!Next]_Graceful!vars
    <2>1. main' = main
      BY <1>5 DEF HandleOne, LookupTopic, OnEvent, OnError, DeleteMessage
    <2>2. m \in W /\ (W' = W \/ W' = W \ {m})
      BY <1>5 DEF HandleOne, LookupTopic, OnEvent, OnError, DeleteMessage, Goto,
                  Return, Inv, TypeOK
    <2>3. CASE W' = W \ {m}
      <3>1. Graceful!Finish({m})
        BY <2>1, <2>3 DEF Graceful!Finish
      <3> QED
        BY <3>1 DEF Graceful!Next
    <2> QED
      BY <2>1, <2>2, <2>3
  <1>6. CASE \/ Restart \/ Application \/ ServeUnknownTopic \/ ServeTopic
             \/ MarkStarted \/ OnStop \/ LowerFlags \/ Cancel
             \/ MessageLoop \/ HLStart \/ HLExit \/ HLBatchDone
             \/ \E m \in Messages : VisibilityTimeout(m)
    <2>1. task' = task
      BY <1>6 DEF Restart, Application, ManageTopics, Register, RegisterCheck,
         RegisterHandler, ServeUnknownTopic, ServeTopic, MarkStarted, OnStop,
         LowerFlags, Cancel, MessageLoop, MLStart, MLCheck, MLExit, MLReceive,
         MLReceiveFails, MLSend, HLStart, HLExit, HLBatchDone, VisibilityTimeout
    <2>2. Over' = Over
      BY <1>6 DEF Restart, Application, ManageTopics, Register, RegisterCheck,
         RegisterHandler, ServeUnknownTopic, ServeTopic, MarkStarted, OnStop,
         LowerFlags, Cancel, MessageLoop, MLStart, MLCheck, MLExit, MLReceive,
         MLReceiveFails, MLSend, HLStart, HLExit, HLBatchDone, VisibilityTimeout,
         WgAdd, WgDone
    <2> QED
      BY <2>1, <2>2
  <1>7. CASE UNCHANGED vars
    BY <1>7 DEF vars
  <1> QED
    BY <1>1, <1>2, <1>3, <1>4, <1>5, <1>6, <1>7
       DEF Next, Serve, Shutdown, HandlingLoop, Graceful!Next

\* The last Shutdown stops the worker for good if no loop is still uncounted when
\* one comes to wait, for any topics, messages and batch size (worker.go:165).
THEOREM StopsGracefullyIfCounted == Spec /\ []CountedBeforeWait => StopsGracefully
  <1>1. Init => Quiet /\ Graceful!Init
    BY DEF Init, Quiet, Graceful!Init
  <1> QED
    BY <1>1, InitInv, NextInv, NextQuiet, NextGraceful, PTL
       DEF Spec, StopsGracefully, Graceful!Spec
=============================================================================
