------------------------------ MODULE SqsWorker ------------------------------
(***************************************************************************)
(* The SQS worker of plugins/sqs_worker/worker.go, between the fx          *)
(* lifecycle that calls Serve and Shutdown, the topic manager, and an SQS  *)
(* queue.                                                                  *)
(*                                                                         *)
(* Serve spawns two goroutines.  The message loop (ml) receives batches    *)
(* from the queue and sends them on a channel of capacity                  *)
(* MaxNumberOfMessages; the handling loop (hl) takes a batch from the      *)
(* channel, spawns one goroutine per message (task) and waits for all of   *)
(* them.  Each loop adds itself to the worker's WaitGroup when it first    *)
(* runs, not when it is spawned.  Shutdown lowers the flags, cancels the   *)
(* context and waits for the WaitGroup.                                    *)
(***************************************************************************)
EXTENDS SqsTopics, Integers, Sequences, FiniteSets

CONSTANTS
    Messages,             \* messages of the queues
    QueueOf,              \* the topic each message is published to
    MaxNumberOfMessages   \* of the receive input: batch size, channel capacity

ASSUME QueueAssumption == QueueOf \in [Messages -> Topics]
ASSUME BatchAssumption == MaxNumberOfMessages \in Nat \ {0}

VARIABLES
    main,       \* where the lifecycle goroutine (fx) is
    stopping,   \* OnStop was called: the Shutdown under way is the last one
    enabled, started, cancelled,   \* w.enabled, w.started, w.ctx is done
    wg,         \* counter of w.wg
    handler,    \* w.handler, identified with the topic it names
    registering,   \* handlers whose Register is past its checks
    served,     \* the topic Serve found for the handler
    ml, batch,  \* message loop, and the batch it is about to send
    hl, chan,   \* handling loop, and the channel
    task,       \* the goroutine that handles a message
    nilTopic,   \* messages whose goroutine found no topic
    queue,      \* state of each message in SQS
    accepted,   \* history: the latest attempt's verdict was to delete
    expired     \* history: the visibility timeout of a receipt has passed

lifecycle == <<main, stopping, enabled, started, cancelled>>
registration == <<handler, registering>>
loops == <<ml, batch, hl, chan>>
tasks == <<task, nilTopic>>
sqs == <<queue, accepted, expired>>
vars == <<lifecycle, wg, registration, served, loops, tasks, sqs, topicVars>>

TypeOK ==
    /\ TopicsTypeOK
    /\ main \in {"invoke", "mark", "running", "shutdown", "cancel", "wait",
                 "blocked", "released", "stopped", "crashed"}
    /\ stopping \in BOOLEAN /\ enabled \in BOOLEAN
    /\ started \in BOOLEAN /\ cancelled \in BOOLEAN
    /\ wg \in 0..2
    /\ handler \in Topics \union {NoTopic} /\ registering \subseteq Topics
    /\ served \in Topics \union {NoTopic}
    /\ ml \in {"unspawned", "spawned", "check", "receive", "send", "exit"}
    /\ hl \in {"unspawned", "spawned", "select", "handle", "exit"}
    /\ batch \in SUBSET Messages
    /\ chan \in Seq(SUBSET Messages)
    /\ task \in [Messages -> {"idle", "lookup", "event", "error", "delete"}]
    /\ queue \in [Messages -> {"visible", "inflight", "deleted"}]
    /\ nilTopic \in SUBSET Messages
    /\ accepted \in SUBSET Messages /\ expired \in SUBSET Messages

Init ==
    /\ NewAwsTopicManager
    /\ main = "invoke" /\ stopping = FALSE
    /\ enabled = TRUE /\ started = FALSE /\ cancelled = FALSE
    /\ wg = 0 /\ handler = NoTopic /\ registering = {} /\ served = NoTopic
    /\ ml = "unspawned" /\ batch = {} /\ hl = "unspawned" /\ chan = <<>>
    /\ task = [m \in Messages |-> "idle"] /\ nilTopic = {}
    /\ queue = [m \in Messages |-> "visible"] /\ accepted = {} /\ expired = {}

-----------------------------------------------------------------------------
(* The process.                                                            *)

\* The process ends at any point: killed, fx's stop timeout, a fatal
\* concurrent access to TopicMaps, a handler's panic with a value that is no
\* error (the deferred function's own type assertion panics), or after the
\* application has stopped.  Goroutines and memory are gone; messages
\* received and not deleted stay in flight.
Crash ==
    /\ main # "crashed" /\ main' = "crashed"
    /\ stopping' = FALSE /\ enabled' = TRUE
    /\ started' = FALSE /\ cancelled' = FALSE
    /\ wg' = 0 /\ handler' = NoTopic /\ registering' = {} /\ served' = NoTopic
    /\ ml' = "unspawned" /\ batch' = {} /\ hl' = "unspawned" /\ chan' = <<>>
    /\ task' = [m \in Messages |-> "idle"] /\ nilTopic' = {}
    /\ topics' = {} /\ region' \in BOOLEAN
    /\ UNCHANGED sqs

\* A new process builds a new worker.
Restart ==
    /\ main = "crashed" /\ main' = "invoke"
    /\ UNCHANGED <<stopping, enabled, started, cancelled, wg, registration,
                   served, loops, tasks, sqs, topicVars>>

-----------------------------------------------------------------------------
(* What application code may call at any time: before Serve, and later     *)
(* from a controller, a handler or a goroutine of its own.                 *)

\* Mutant: started is not looked at.
RegisterUnchecked(t) ==
    /\ region /\ t \notin registering
    /\ registering' = registering \union {t}
    /\ UNCHANGED <<lifecycle, wg, handler, served, loops, tasks, sqs,
                   topicVars>>

\* Register takes no lock: a call that finds the worker started, or no region,
\* returns an error; any other is past its checks ...
RegisterCheck(t) ==
    /\ ~started /\ region /\ t \notin registering
    /\ registering' = registering \union {t}
    /\ UNCHANGED <<lifecycle, wg, handler, served, loops, tasks, sqs,
                   topicVars>>

\* ... and adds the topic and then replaces the handler, whatever the worker
\* has done meanwhile.  (What may happen between these two statements may as
\* well happen next to them: ManageTopics adds and removes the topic too.)
RegisterHandler(t) ==
    /\ t \in registering /\ registering' = registering \ {t}
    /\ AddTopic(t)
    /\ handler' = t
    /\ UNCHANGED <<lifecycle, wg, served, loops, tasks, sqs>>

Register(t) == RegisterCheck(t) \/ RegisterHandler(t)

ManageTopics ==
    /\ SetRegion \/ \E t \in Topics : AddTopic(t) \/ RemoveTopic(t)
    /\ UNCHANGED <<lifecycle, wg, registration, served, loops, tasks, sqs>>

Application ==
    /\ main # "crashed"
    /\ ManageTopics \/ \E t \in Topics : Register(t)

-----------------------------------------------------------------------------
(* The lifecycle: OnStart calls Serve, OnStop calls Shutdown.              *)

\* Serve dereferences a handler that was never registered.
ServeWithoutHandler == main = "invoke" /\ handler = NoTopic /\ Crash

\* An unknown topic makes Serve call Shutdown.
ServeUnknownTopic ==
    /\ main = "invoke" /\ handler # NoTopic /\ GetTopic(handler) = NoTopic
    /\ main' = "shutdown"
    /\ UNCHANGED <<stopping, enabled, started, cancelled, wg, registration,
                   served, loops, tasks, sqs, topicVars>>

ServeTopic ==
    /\ main = "invoke" /\ handler # NoTopic /\ GetTopic(handler) # NoTopic
    /\ main' = "mark"
    /\ served' = GetTopic(handler)
    /\ ml' = "spawned" /\ hl' = "spawned"
    /\ UNCHANGED <<stopping, enabled, started, cancelled, wg, registration,
                   batch, chan, tasks, sqs, topicVars>>

\* The last statement of Serve, once both goroutines are spawned.
MarkStarted ==
    /\ main = "mark" /\ main' = "running"
    /\ started' = TRUE
    /\ UNCHANGED <<stopping, enabled, cancelled, wg, registration, served,
                   loops, tasks, sqs, topicVars>>

OnStop ==
    /\ main = "running" /\ main' = "shutdown"
    /\ stopping' = TRUE
    /\ UNCHANGED <<enabled, started, cancelled, wg, registration, served,
                   loops, tasks, sqs, topicVars>>

LowerFlags ==
    /\ main = "shutdown" /\ main' = "cancel"
    /\ enabled' = FALSE /\ started' = FALSE
    /\ UNCHANGED <<stopping, cancelled, wg, registration, served, loops, tasks,
                   sqs, topicVars>>

Cancel ==
    /\ main = "cancel" /\ main' = "wait"
    /\ cancelled' = TRUE
    /\ UNCHANGED <<stopping, enabled, started, wg, registration, served, loops,
                   tasks, sqs, topicVars>>

\* Shutdown returns to its caller: Serve, hence OnStart, or OnStop.
Complete == main' = IF stopping THEN "stopped" ELSE "running"

\* wg.Wait returns at once on a zero counter and blocks otherwise.
Wait ==
    /\ main = "wait"
    /\ IF wg = 0 THEN Complete ELSE main' = "blocked"
    /\ UNCHANGED <<stopping, enabled, started, cancelled, wg, registration,
                   served, loops, tasks, sqs, topicVars>>

\* The waiter wakes up, after the Done that brought the counter to zero.
WaitReturns ==
    /\ main = "released" /\ wg = 0
    /\ Complete
    /\ UNCHANGED <<stopping, enabled, started, cancelled, wg, registration,
                   served, loops, tasks, sqs, topicVars>>

\* "WaitGroup is reused before previous Wait has returned."
WaitPanics == main = "released" /\ wg # 0 /\ Crash

Serve == ServeWithoutHandler \/ ServeUnknownTopic \/ ServeTopic \/ MarkStarted

Shutdown == LowerFlags \/ Cancel \/ Wait \/ WaitReturns \/ WaitPanics

-----------------------------------------------------------------------------
(* The WaitGroup, as the loops use it.                                     *)

WgAdd == wg' = wg + 1 /\ UNCHANGED lifecycle

\* Mutant: a deferred Done beside the explicit one.
WgDoneTwice ==
    /\ wg' = wg - 2
    /\ main' = IF wg = 2 /\ main = "blocked" THEN "released" ELSE main
    /\ UNCHANGED <<stopping, enabled, started, cancelled>>

WgDone ==
    /\ wg' = wg - 1
    /\ main' = IF wg = 1 /\ main = "blocked" THEN "released" ELSE main
    /\ UNCHANGED <<stopping, enabled, started, cancelled>>

-----------------------------------------------------------------------------
(* The message loop.                                                       *)

\* Mutant: wg.Add(1) is forgotten.
MLStartUncounted ==
    /\ ml = "spawned" /\ ml' = "check"
    /\ UNCHANGED <<lifecycle, wg, registration, served, batch, hl, chan, tasks,
                   sqs, topicVars>>

MLStart ==
    /\ ml = "spawned" /\ ml' = "check"
    /\ WgAdd
    /\ UNCHANGED <<registration, served, batch, hl, chan, tasks, sqs,
                   topicVars>>

MLCheck ==
    /\ ml = "check" /\ enabled /\ ml' = "receive"
    /\ UNCHANGED <<lifecycle, wg, registration, served, batch, hl, chan, tasks,
                   sqs, topicVars>>

MLExit ==
    /\ ml = "check" /\ ~enabled /\ ml' = "exit"
    /\ WgDone
    /\ UNCHANGED <<registration, served, batch, hl, chan, tasks, sqs,
                   topicVars>>

Visible == {m \in Messages : QueueOf[m] = served /\ queue[m] = "visible"}

\* SQS answers with any of the visible messages, or with none.
MLReceive ==
    /\ ml = "receive" /\ ml' = "send"
    /\ \E b \in SUBSET Visible :
        /\ Cardinality(b) <= MaxNumberOfMessages
        /\ batch' = b
        /\ queue' = [m \in Messages |->
                        IF m \in b THEN "inflight" ELSE queue[m]]
    /\ UNCHANGED <<lifecycle, wg, registration, served, hl, chan, tasks,
                   accepted, expired, topicVars>>

\* ReceiveMessage fails: logged, and tried again.
MLReceiveFails ==
    /\ ml = "receive" /\ ml' = "check"
    /\ UNCHANGED <<lifecycle, wg, registration, served, batch, hl, chan, tasks,
                   sqs, topicVars>>

\* Mutant: the send is given up when the channel is full.
MLSendOrDrop ==
    /\ ml = "send" /\ ml' = "check"
    /\ chan' = IF Len(chan) < MaxNumberOfMessages
               THEN Append(chan, batch) ELSE chan
    /\ batch' = {}
    /\ UNCHANGED <<lifecycle, wg, registration, served, hl, tasks, sqs,
                   topicVars>>

\* Mutant: the send is retried after it succeeded.
MLSendTwice ==
    /\ ml = "send" /\ Len(chan) < MaxNumberOfMessages
    /\ chan' = Append(chan, batch)
    /\ \/ ml' = "check" /\ batch' = {}
       \/ UNCHANGED <<ml, batch>>
    /\ UNCHANGED <<lifecycle, wg, registration, served, hl, tasks, sqs,
                   topicVars>>

\* An empty batch is sent like any other; the send blocks on a full channel.
MLSend ==
    /\ ml = "send" /\ Len(chan) < MaxNumberOfMessages /\ ml' = "check"
    /\ chan' = Append(chan, batch)
    /\ batch' = {}
    /\ UNCHANGED <<lifecycle, wg, registration, served, hl, tasks, sqs,
                   topicVars>>

MessageLoop ==
    MLStart \/ MLCheck \/ MLExit \/ MLReceive \/ MLReceiveFails \/ MLSend

-----------------------------------------------------------------------------
(* The handling loop.  When a batch is ready and the context is done, the  *)
(* select picks either.                                                    *)

HLStart ==
    /\ hl = "spawned" /\ hl' = "select"
    /\ WgAdd
    /\ UNCHANGED <<registration, served, ml, batch, chan, tasks, sqs,
                   topicVars>>

HLTake ==
    /\ hl = "select" /\ chan # <<>> /\ hl' = "handle"
    /\ task' = [m \in Messages |->
                   IF m \in Head(chan) THEN "lookup" ELSE task[m]]
    /\ chan' = Tail(chan)
    /\ UNCHANGED <<lifecycle, wg, registration, served, ml, batch, nilTopic,
                   sqs, topicVars>>

\* Mutant: the handling loop returns without wg.Done.
HLExitWithoutDone ==
    /\ hl = "select" /\ cancelled /\ hl' = "exit"
    /\ UNCHANGED <<lifecycle, wg, registration, served, ml, batch, chan, tasks,
                   sqs, topicVars>>

HLExit ==
    /\ hl = "select" /\ cancelled /\ hl' = "exit"
    /\ WgDone
    /\ UNCHANGED <<registration, served, ml, batch, chan, tasks, sqs,
                   topicVars>>

\* Mutant: handleMessage does not wait for its goroutines.
HLBatchNotAwaited ==
    /\ hl = "handle" /\ hl' = "select"
    /\ UNCHANGED <<lifecycle, wg, registration, served, ml, batch, chan, tasks,
                   sqs, topicVars>>

\* handleMessage returns when every goroutine of the batch is done.
HLBatchDone ==
    /\ hl = "handle" /\ \A m \in Messages : task[m] = "idle"
    /\ hl' = "select"
    /\ UNCHANGED <<lifecycle, wg, registration, served, ml, batch, chan, tasks,
                   sqs, topicVars>>

HandlingLoop == HLStart \/ HLTake \/ HLExit \/ HLBatchDone

-----------------------------------------------------------------------------
(* The goroutine of one message.  A panic is recovered: the goroutine ends *)
(* and the message is not deleted.                                         *)

Goto(m, pc) == task' = [task EXCEPT ![m] = pc] /\ UNCHANGED nilTopic

\* The goroutine ends, and its variable topic with it.
Return(m) == task' = [task EXCEPT ![m] = "idle"] /\ nilTopic' = nilTopic \ {m}

LookupTopic(m) ==
    /\ task[m] = "lookup" /\ task' = [task EXCEPT ![m] = "event"]
    /\ nilTopic' = IF GetTopic(QueueOf[m]) = NoTopic
                   THEN nilTopic \union {m} ELSE nilTopic
    /\ accepted' = accepted \ {m}
    /\ UNCHANGED <<lifecycle, wg, registration, served, loops, queue, expired,
                   topicVars>>

\* OnEvent returns nil, returns an error, or panics.
OnEvent(m) ==
    /\ task[m] = "event"
    /\ \/ Goto(m, "delete") /\ accepted' = accepted \union {m}
       \/ Goto(m, "error") /\ UNCHANGED accepted
       \/ Return(m) /\ UNCHANGED accepted
    /\ UNCHANGED <<lifecycle, wg, registration, served, loops, queue, expired,
                   topicVars>>

\* Mutant: the answer of OnError is not looked at.
OnErrorIgnored(m) ==
    /\ task[m] = "error" /\ Goto(m, "delete")
    /\ UNCHANGED <<lifecycle, wg, registration, served, loops, queue, accepted,
                   expired, topicVars>>

\* OnError returns true (delete), returns false (keep), or panics.
OnError(m) ==
    /\ task[m] = "error"
    /\ \/ Goto(m, "delete") /\ accepted' = accepted \union {m}
       \/ Return(m) /\ UNCHANGED accepted
    /\ UNCHANGED <<lifecycle, wg, registration, served, loops, queue, expired,
                   topicVars>>

\* The call fails and is logged, panics on a nil topic, or deletes.
DeleteMessage(m) ==
    /\ task[m] = "delete" /\ Return(m)
    /\ \/ UNCHANGED queue
       \/ m \notin nilTopic /\ queue' = [queue EXCEPT ![m] = "deleted"]
    /\ UNCHANGED <<lifecycle, wg, registration, served, loops, accepted,
                   expired, topicVars>>

HandleOne(m) == LookupTopic(m) \/ OnEvent(m) \/ OnError(m) \/ DeleteMessage(m)

-----------------------------------------------------------------------------
(* SQS: a message received and not deleted within the visibility timeout   *)
(* becomes visible again, wherever its copies are.                         *)

VisibilityTimeout(m) ==
    /\ queue[m] = "inflight"
    /\ queue' = [queue EXCEPT ![m] = "visible"]
    /\ expired' = expired \union {m}
    /\ UNCHANGED <<lifecycle, wg, registration, served, loops, tasks, accepted,
                   topicVars>>

-----------------------------------------------------------------------------
Next ==
    \/ Crash \/ Restart \/ Application
    \/ Serve \/ OnStop \/ Shutdown
    \/ MessageLoop \/ HandlingLoop
    \/ \E m \in Messages : HandleOne(m) \/ VisibilityTimeout(m)

Spec == Init /\ [][Next]_vars

\* Go runs every goroutine that can run.  The calls a goroutine makes
\* (ReceiveMessage, DeleteMessage, the handler) are assumed to return; the
\* code sets no deadline on any of them.
Fairness ==
    /\ WF_vars(Shutdown)
    /\ WF_vars(MessageLoop)
    /\ WF_vars(HandlingLoop)
    /\ \A m \in Messages : WF_vars(HandleOne(m))

FairSpec == Spec /\ Fairness

-----------------------------------------------------------------------------
(* Properties.                                                             *)

\* The loops that are counted in the WaitGroup.
MLRuns == ml \in {"check", "receive", "send"}
HLRuns == hl \in {"select", "handle"}

TasksIdle == \A m \in Messages : task[m] = "idle"

\* The WaitGroup's counter is the number of loops under way (worker.go:59,
\* 61, 67, 74), and goroutines of single messages exist only while the
\* handling loop is inside handleMessage.  Shutdown sleeps in wg.Wait only
\* on a loop that is still counted, and no loop exists before Serve.
WgCounts ==
    /\ wg = (IF MLRuns THEN 1 ELSE 0) + (IF HLRuns THEN 1 ELSE 0)
    /\ hl # "handle" => TasksIdle
    /\ main = "blocked" => wg > 0
    /\ main \in {"invoke", "crashed"} => ml = "unspawned" /\ hl = "unspawned"

\* Where a message received by this process can be.
InBatch(m) == ml = "send" /\ m \in batch
InChan(m) == {i \in 1..Len(chan) : m \in chan[i]}
InTask(m) == task[m] # "idle"

\* A message whose visibility timeout never passed is in one place at a
\* time: a batch that is received, queued or handled is never sent or
\* handled a second time (worker.go:83-139), so a duplicate comes only from
\* a timeout.
OneCopyUnlessExpired ==
    \A m \in Messages \ expired :
        /\ queue[m] # "inflight" => ~InBatch(m) /\ InChan(m) = {} /\ ~InTask(m)
        /\ InBatch(m) => InChan(m) = {} /\ ~InTask(m)
        /\ InTask(m) => InChan(m) = {}
        /\ \A i, j \in InChan(m) : i = j

\* wg.Wait returns.
Completes ==
    main \in {"wait", "released"} /\ main' \in {"running", "stopped"}

\* Shutdown returns (worker.go:165-166) only when no loop that has begun to
\* run is still under way and no handler is being executed.
QuiescentAtCompletion ==
    [][Completes => ~MLRuns /\ ~HLRuns /\ TasksIdle]_vars

\* The one state in which Shutdown waits for ever: the handling loop is gone
\* and the message loop is blocked on a full channel (worker.go:72-75, 100).
Stuck ==
    /\ main = "blocked" /\ hl = "exit"
    /\ ml = "send" /\ Len(chan) = MaxNumberOfMessages

\* Shutdown, once called, completes in every other case, if handlers return.
CompletesUnlessStuck ==
    main = "shutdown" ~> main \in {"running", "stopped", "crashed"} \/ Stuck

\* A batch that was received reaches the handler, unless a Shutdown or the
\* end of the process comes first (worker.go:70-71, 100): nothing between
\* the two loops loses or starves it.
ReceivedIsHandled ==
    \A m \in Messages :
        InBatch(m) ~> InTask(m) \/ ~enabled \/ main = "crashed"

\* "not allow register after Serve" (worker.go:171): once Serve has returned
\* and no Register is past its check, none gets past it and the running
\* loops keep their handler, until a Shutdown lowers started.
HandlerKeptWhileServing ==
    [][/\ main \in {"running", "shutdown"} /\ (MLRuns \/ HLRuns)
       /\ registering = {}
       => \/ registering' = {} /\ handler' = handler
          \/ main' = "crashed"]_vars

\* The worker keeps the promise of AtLeastOnce: a message is deleted from
\* the queue only after OnEvent returned nil or OnError returned true
\* (event_handler.go:14) in the same attempt.
Contract == INSTANCE AtLeastOnce WITH
    handling <- {m \in Messages : task[m] \in {"event", "error", "delete"}},
    removed <- {m \in Messages : queue[m] = "deleted"}

DeletesOnlyAccepted == Contract!Spec

\* The last Shutdown is graceful: when it has returned no message is being
\* handled, and none will be (worker.go:165-166) ...
Graceful == INSTANCE GracefulService WITH
    Jobs <- Messages,
    working <- {m \in Messages : task[m] # "idle"},
    overdue <- {},
    stopped <- main = "stopped"

StopsGracefully == Graceful!Spec

\* ... if both loops have added themselves to the WaitGroup when Shutdown comes
\* to wait for them (worker.go:59, 67).
CountedBeforeWait == main = "wait" => ml # "spawned" /\ hl # "spawned"

-----------------------------------------------------------------------------
(* What the documentation says and the code does not do.                   *)

\* README.md:3 of the plugin, "gracefully shutdown": Shutdown terminates.
ShutdownTerminates ==
    main = "shutdown" ~> main \in {"running", "stopped", "crashed"}

\* worker.go:166, "Shutdown Complete": no message is handled after it.
NoHandlingAfterShutdown ==
    main = "stopped" => TasksIdle
=============================================================================
