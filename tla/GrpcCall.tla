------------------------------ MODULE GrpcCall ------------------------------
(***************************************************************************)
(* A unary call through the interceptors that the presets of               *)
(* plugins/grpc/presets chain.  The server runs the call in a goroutine    *)
(* (call) that enters the interceptors one after the other; the deadline   *)
(* interceptor starts another goroutine (task) for the rest of the chain   *)
(* and the handler, and selects between its result and the context.        *)
(* Results travel back up the chain, where recovery turns a panic into an  *)
(* error, the reporters notice errors, and the request log writes a line.  *)
(* Health checks, which the request log lets pass in silence, are left out.*)
(***************************************************************************)
EXTENDS Naturals, Sequences

CONSTANTS
    Calls,       \* calls that clients make
    Reporters    \* the preset's interceptors that report errors, in order

ASSUME ReportersAssumption == Reporters \in Seq({"newrelic", "sentry"})

\* Mutant: recovery outside deadline.
RecoveryOutside ==
    <<"trace_id", "locale", "request_log">> \o Reporters
        \o <<"recovery", "deadline", "otlp">>

\* Mutant: the reporters inside deadline.
ReportersInside ==
    <<"trace_id", "locale", "request_log", "deadline">> \o Reporters
        \o <<"recovery", "otlp">>

Chain ==
    <<"trace_id", "locale", "request_log">> \o Reporters
        \o <<"deadline", "recovery", "otlp">>

\* An error is an expected ApplicationError, or it is not: "unexpected" is
\* the handler's, "recovered" and "deadline" the interceptors' own.
Errors == {"expected", "unexpected", "recovered", "deadline"}
Results == Errors \union {"response", "panic", "none"}
Observers == {"request_log", "newrelic", "sentry"}

VARIABLES
    process,    \* "up", or why it ended
    call,       \* what the server's goroutine is doing
    pos,        \* the interceptor it is in
    result,     \* what it carries up, and in the end the answer
    task,       \* what the goroutine of the deadline interceptor is doing
    taskPos, taskResult,
    sent,       \* what is in resCh or errCh
    expired,    \* innerCtx is done: time is up, or the client cancelled
    outcome,    \* history: what the handler did
    noticed     \* history: the result each observer wrote about

callVars == <<call, pos, result>>
taskVars == <<task, taskPos, taskResult, sent>>
grpcVars == <<process, callVars, taskVars, expired, outcome, noticed>>

CallTypeOK ==
    /\ process \in {"up", "panicked", "fatal", "exited"}
    /\ call \in [Calls -> {"none", "down", "select", "up", "answered"}]
    /\ pos \in [Calls -> 0..Len(Chain)]
    /\ result \in [Calls -> Results]
    /\ task \in [Calls -> {"none", "down", "handler", "up", "gone"}]
    /\ taskPos \in [Calls -> 0..Len(Chain)]
    /\ taskResult \in [Calls -> Results]
    /\ sent \in [Calls -> Results]
    /\ expired \in [Calls -> BOOLEAN]
    /\ outcome \in [Calls -> Results \union {"exit"}]
    /\ noticed \in [Calls -> [Observers -> Results]]

CallInit ==
    /\ process = "up"
    /\ call = [c \in Calls |-> "none"] /\ pos = [c \in Calls |-> 0]
    /\ result = [c \in Calls |-> "none"]
    /\ task = [c \in Calls |-> "none"] /\ taskPos = [c \in Calls |-> 0]
    /\ taskResult = [c \in Calls |-> "none"]
    /\ sent = [c \in Calls |-> "none"]
    /\ expired = [c \in Calls |-> FALSE]
    /\ outcome = [c \in Calls |-> "none"]
    /\ noticed = [c \in Calls |-> [o \in Observers |-> "none"]]

-----------------------------------------------------------------------------
(* What an interceptor does with a result on its way up.                   *)

\* Mutant: the error recovery makes is not the named result.
LeaveSilently(i, r) == IF i = "recovery" /\ r = "panic" THEN "response" ELSE r

\* Anything but a panic passes unchanged; recovery makes an unexpected
\* ApplicationError of a panic.
Leave(i, r) == IF i = "recovery" /\ r = "panic" THEN "recovered" ELSE r

\* The request log writes about everything, the reporters about errors that
\* are no expected ApplicationError.  A panic passes them by.
Writes(i, r) ==
    \/ i = "request_log" /\ r # "panic"
    \/ i \in {"newrelic", "sentry"} /\ r \notin {"response", "expected", "panic"}

Notice(c, i, r) ==
    noticed' = IF Writes(i, r) THEN [noticed EXCEPT ![c][i] = r] ELSE noticed

-----------------------------------------------------------------------------
(* The server's goroutine.                                                 *)

Arrive(c) ==
    /\ call[c] = "none"
    /\ call' = [call EXCEPT ![c] = "down"] /\ pos' = [pos EXCEPT ![c] = 1]
    /\ UNCHANGED <<process, result, taskVars, expired, outcome, noticed>>

\* On to the next interceptor.
Forward(c) ==
    /\ call[c] = "down" /\ Chain[pos[c]] # "deadline"
    /\ pos' = [pos EXCEPT ![c] = @ + 1]
    /\ UNCHANGED <<process, call, result, taskVars, expired, outcome, noticed>>

\* The deadline interceptor: context, channels, goroutine, select.
Spawn(c) ==
    /\ call[c] = "down" /\ Chain[pos[c]] = "deadline"
    /\ call' = [call EXCEPT ![c] = "select"]
    /\ task' = [task EXCEPT ![c] = "down"]
    /\ taskPos' = [taskPos EXCEPT ![c] = pos[c] + 1]
    /\ UNCHANGED <<process, pos, result, taskResult, sent, expired, outcome,
                   noticed>>

Expire(c) ==
    /\ call[c] \in {"down", "select"} /\ ~expired[c]
    /\ expired' = [expired EXCEPT ![c] = TRUE]
    /\ UNCHANGED <<process, callVars, taskVars, outcome, noticed>>

BackUp(c, r) ==
    /\ call' = [call EXCEPT ![c] = "up"]
    /\ pos' = [pos EXCEPT ![c] = @ - 1]
    /\ result' = [result EXCEPT ![c] = r]
    /\ UNCHANGED <<process, taskVars, expired, outcome, noticed>>

\* With a result and the context both ready, the select picks either.
SelectResult(c) == call[c] = "select" /\ sent[c] # "none" /\ BackUp(c, sent[c])

\* Mutant: the select has no case for the context.
SelectNever(c) == FALSE /\ BackUp(c, "deadline")

SelectDone(c) == call[c] = "select" /\ expired[c] /\ BackUp(c, "deadline")

Up(c) ==
    /\ call[c] = "up" /\ pos[c] > 0
    /\ result' = [result EXCEPT ![c] = Leave(Chain[pos[c]], @)]
    /\ Notice(c, Chain[pos[c]], result[c])
    /\ pos' = [pos EXCEPT ![c] = @ - 1]
    /\ UNCHANGED <<process, call, taskVars, expired, outcome>>

\* Out of the chain: the server answers.  It recovers nothing.
Answer(c) ==
    /\ call[c] = "up" /\ pos[c] = 0
    /\ IF result[c] = "panic"
       THEN process' = "panicked" /\ UNCHANGED call
       ELSE call' = [call EXCEPT ![c] = "answered"] /\ UNCHANGED process
    /\ UNCHANGED <<pos, result, taskVars, expired, outcome, noticed>>

-----------------------------------------------------------------------------
(* The goroutine of the deadline interceptor.                              *)

\* The last interceptor calls the handler.
TaskForward(c) ==
    /\ task[c] = "down"
    /\ IF taskPos[c] = Len(Chain)
       THEN task' = [task EXCEPT ![c] = "handler"] /\ UNCHANGED taskPos
       ELSE taskPos' = [taskPos EXCEPT ![c] = @ + 1] /\ UNCHANGED task
    /\ UNCHANGED <<process, callVars, taskResult, sent, expired, outcome,
                   noticed>>

\* The handler returns a response or an error, or panics.
HandlerReturns(c) ==
    /\ task[c] = "handler" /\ task' = [task EXCEPT ![c] = "up"]
    /\ \E r \in {"response", "expected", "unexpected", "panic"} :
        /\ taskResult' = [taskResult EXCEPT ![c] = r]
        /\ outcome' = [outcome EXCEPT ![c] = r]
    /\ UNCHANGED <<process, callVars, taskPos, sent, expired, noticed>>

\* runtime.Goexit: the error that recovery's deferred function makes of it
\* goes nowhere.
HandlerExits(c) ==
    /\ task[c] = "handler" /\ task' = [task EXCEPT ![c] = "gone"]
    /\ outcome' = [outcome EXCEPT ![c] = "exit"]
    /\ UNCHANGED <<process, callVars, taskPos, taskResult, sent, expired,
                   noticed>>

TaskUp(c) ==
    /\ task[c] = "up" /\ Chain[taskPos[c]] # "deadline"
    /\ taskResult' = [taskResult EXCEPT ![c] = Leave(Chain[taskPos[c]], @)]
    /\ Notice(c, Chain[taskPos[c]], taskResult[c])
    /\ taskPos' = [taskPos EXCEPT ![c] = @ - 1]
    /\ UNCHANGED <<process, callVars, task, sent, expired, outcome>>

\* Mutant: the channels have no buffer.
TaskSendUnbuffered(c) ==
    /\ task[c] = "up" /\ Chain[taskPos[c]] = "deadline" /\ call[c] = "select"
    /\ task' = [task EXCEPT ![c] = "gone"]
    /\ sent' = [sent EXCEPT ![c] = taskResult[c]]
    /\ UNCHANGED <<process, callVars, taskPos, taskResult, expired, outcome,
                   noticed>>

\* The buffered channels take the result whether or not anyone waits for it.
\* A panic that comes this far ends the process.
TaskSend(c) ==
    /\ task[c] = "up" /\ Chain[taskPos[c]] = "deadline"
    /\ IF taskResult[c] = "panic"
       THEN process' = "panicked" /\ UNCHANGED <<task, sent>>
       ELSE /\ task' = [task EXCEPT ![c] = "gone"]
            /\ sent' = [sent EXCEPT ![c] = taskResult[c]]
            /\ UNCHANGED process
    /\ UNCHANGED <<callVars, taskPos, taskResult, expired, outcome, noticed>>

-----------------------------------------------------------------------------
ServerGoroutine(c) ==
    Forward(c) \/ Spawn(c) \/ SelectResult(c) \/ SelectDone(c) \/ Up(c) \/ Answer(c)

Handler(c) == HandlerReturns(c) \/ HandlerExits(c)

TaskGoroutine(c) == TaskForward(c) \/ TaskUp(c) \/ TaskSend(c)

CallNext ==
    /\ process = "up"
    /\ \E c \in Calls : \/ ServerGoroutine(c) \/ Expire(c)
                        \/ TaskGoroutine(c) \/ Handler(c)

-----------------------------------------------------------------------------
(* Properties.                                                             *)

\* A panic of a handler never ends the process: recovery is inside the
\* goroutine that would let it through (timeout.go:37, recovery.go:31).
PanicsContained == process # "panicked"

\* What the caller is told is what the handler did, or that time was up when
\* it was (timeout.go:46-53).
AnswersFit ==
    \A c \in Calls : call[c] = "answered" =>
        \/ result[c] = "deadline" /\ expired[c]
        \/ result[c] = "recovered" /\ outcome[c] = "panic"
        \/ result[c] = outcome[c] /\ outcome[c] # "panic"

\* The request log and the reporters of the preset tell of a call what its
\* caller was told (request_log.go:149-153, newrelic.go:80-96,
\* sentry.go:60-86), once it is answered and whatever its handler does later.
Told(c, o) ==
    IF o = "request_log" \/ result[c] \notin {"response", "expected"}
    THEN result[c] ELSE "none"

Preset == {"request_log"} \union {Reporters[i] : i \in 1..Len(Reporters)}

ObserversAgree ==
    \A c \in Calls : call[c] = "answered" =>
        \A o \in Preset : noticed[c][o] = Told(c, o)

-----------------------------------------------------------------------------
\* recovery.go:42, "to be reported in newrelic interceptor": the error that
\* recovery makes of a panic is reported.
PanicsReported ==
    \A c \in Calls :
        outcome[c] = "panic" /\ call[c] = "answered" /\ task[c] = "gone"
            => \A o \in Preset : noticed[c][o] = "recovered"
=============================================================================
