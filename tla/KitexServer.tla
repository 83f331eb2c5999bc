----------------------------- MODULE KitexServer -----------------------------
(***************************************************************************)
(* The Kitex server of plugins/kitex/kitex.go under its fx hooks, with     *)
(* calls through the middlewares of the server or of its preset.  OnStart  *)
(* leaves server.Run to a goroutine (run); OnStop sends on kitexExit,      *)
(* starts a goroutine (poller) that looks for the server's private field   *)
(* svr to become nil, and waits for it.  Run itself is kitex's: it may     *)
(* fail before or after it has set svr, and clears svr when it stops.      *)
(***************************************************************************)
EXTENDS Naturals, Sequences

CONSTANT Calls    \* calls that clients make

\* The middlewares of NewKitexServer, and those of the preset.
Default == <<"trace_id", "request_log", "deadline">>
Newrelic == <<"trace_id", "request_log", "newrelic", "deadline">>
Observers == {"request_log", "newrelic"}
Answers == {"none", "ok", "error", "deadline"}

VARIABLES
    process,     \* "up", or why it ended
    fx,          \* where the lifecycle goroutine is
    configured,  \* server and kitexExit are set
    middlewares, \* the field of that name
    chain,       \* what Configure has handed to kitex
    kitexExit,   \* signals in the channel, which has room for one
    wg,          \* the WaitGroup's counter
    poller,      \* the goroutine of OnStop
    run, svr,    \* kitex: where Run is, and its field
    call,        \* what the goroutine of the call is doing
    pos,         \* the middleware it is in
    traced,      \* the middlewares that know the call's trace id
    noticed,     \* what each observer wrote about the call (history)
    endpoint,    \* what the goroutine of the deadline middleware is doing
    sent,        \* what is in resCh or errCh
    expired,     \* innerCtx is done
    written,     \* the endpoint has filled in the response
    answer       \* what the deadline middleware returned

lifecycle == <<process, fx, configured, kitexExit, wg, poller>>
chosen == <<middlewares, chain>>
kitex == <<run, svr>>
walk == <<call, pos, traced, noticed>>
calls == <<walk, endpoint, sent, expired, written, answer>>
vars == <<lifecycle, chosen, kitex, calls>>

TypeOK ==
    /\ process \in {"up", "panicked", "exited"}
    /\ fx \in {"invoke", "running", "signal", "wait", "stopped"}
    /\ configured \in BOOLEAN /\ svr \in BOOLEAN
    /\ kitexExit \in 0..1 /\ wg \in 0..1
    /\ poller \in {"none", "polling", "done"}
    /\ run \in {"none", "spawned", "starting", "serving", "stopping",
                "returned", "failed"}
    /\ {middlewares, chain} \subseteq {Default, Newrelic}
    /\ call \in [Calls -> {"none", "down", "select", "up", "answered"}]
    /\ pos \in [Calls -> 0..Len(chain)]
    /\ traced \in [Calls -> SUBSET ({"trace_id"} \union Observers)]
    /\ noticed \in [Calls -> [Observers -> Answers]]
    /\ endpoint \in [Calls -> {"none", "running", "returning", "gone"}]
    /\ sent \in [Calls -> {"none", "ok", "error"}]
    /\ expired \in [Calls -> BOOLEAN]
    /\ written \in [Calls -> BOOLEAN]
    /\ answer \in [Calls -> Answers]

Init ==
    /\ process = "up" /\ fx = "invoke"
    /\ configured = FALSE /\ kitexExit = 0 /\ wg = 0 /\ poller = "none"
    /\ run = "none" /\ svr = FALSE
    /\ middlewares = Default /\ chain = Default
    /\ call = [c \in Calls |-> "none"] /\ pos = [c \in Calls |-> 0]
    /\ traced = [c \in Calls |-> {}]
    /\ noticed = [c \in Calls |-> [o \in Observers |-> "none"]]
    /\ endpoint = [c \in Calls |-> "none"]
    /\ sent = [c \in Calls |-> "none"] /\ expired = [c \in Calls |-> FALSE]
    /\ written = [c \in Calls |-> FALSE] /\ answer = [c \in Calls |-> "none"]

-----------------------------------------------------------------------------
(* The lifecycle.                                                          *)

\* Mutant: New Relic inside the deadline.
SetMiddlewaresInside ==
    /\ fx = "invoke"
    /\ middlewares' = <<"trace_id", "request_log", "deadline", "newrelic">>
    /\ UNCHANGED <<lifecycle, chain, kitex, calls>>

\* The preset, whose constructor may also run after Configure.
SetMiddlewares ==
    /\ fx = "invoke"
    /\ middlewares' = Newrelic
    /\ UNCHANGED <<lifecycle, chain, kitex, calls>>

\* While fx builds the application, or never.  The channel is a new one.
Configure ==
    /\ fx = "invoke"
    /\ configured' = TRUE /\ kitexExit' = 0
    /\ chain' = middlewares
    /\ UNCHANGED <<process, fx, wg, poller, middlewares, kitex, calls>>

\* The go statement dereferences a server that was never configured.
OnStart ==
    /\ fx = "invoke" /\ wg' = wg + 1
    /\ IF configured
       THEN fx' = "running" /\ run' = "spawned" /\ UNCHANGED process
       ELSE process' = "panicked" /\ UNCHANGED <<fx, run>>
    /\ UNCHANGED <<configured, kitexExit, poller, chosen, svr, calls>>

OnStop ==
    /\ fx = "running" /\ fx' = "signal"
    /\ UNCHANGED <<process, configured, kitexExit, wg, poller, chosen, kitex, calls>>

\* Mutant: the exit signal is not sent.
SignalNobody ==
    /\ fx = "signal" /\ fx' = "wait" /\ poller' = "polling"
    /\ UNCHANGED <<process, configured, kitexExit, wg, chosen, kitex, calls>>

\* Mutant: kitexExit has no buffer.
SignalUnbuffered ==
    /\ fx = "signal" /\ run = "serving" /\ run' = "stopping"
    /\ fx' = "wait" /\ poller' = "polling"
    /\ UNCHANGED <<process, configured, kitexExit, wg, chosen, svr, calls>>

\* The channel has room for the signal, whether or not Run gets to read it.
Signal ==
    /\ fx = "signal" /\ kitexExit < 1
    /\ kitexExit' = kitexExit + 1
    /\ fx' = "wait" /\ poller' = "polling"
    /\ UNCHANGED <<process, configured, wg, chosen, kitex, calls>>

\* The poll that finds svr nil.
Poll ==
    /\ poller = "polling" /\ ~svr
    /\ wg' = wg - 1 /\ poller' = "done"
    /\ UNCHANGED <<process, fx, configured, kitexExit, chosen, kitex, calls>>

\* wg.Wait returns.
Bye ==
    /\ fx = "wait" /\ wg = 0 /\ fx' = "stopped"
    /\ UNCHANGED <<process, configured, kitexExit, wg, poller, chosen, kitex, calls>>

\* The end of main, or of fx's patience with a stop that takes too long.
Exit ==
    /\ fx \in {"signal", "wait", "stopped"} /\ process' = "exited"
    /\ UNCHANGED <<fx, configured, kitexExit, wg, poller, chosen, kitex, calls>>

-----------------------------------------------------------------------------
(* kitex's Run.  Its error is not looked at.                               *)

Goto(where) == run' = where /\ UNCHANGED <<lifecycle, chosen, calls>>

\* It fails before there is an svr: a bad configuration.
RunFails == run = "spawned" /\ Goto("failed") /\ UNCHANGED svr

RunSetsSvr == run = "spawned" /\ Goto("starting") /\ svr' = TRUE

\* It fails after: the port is taken.  svr stays.
RunCannotListen == run = "starting" /\ Goto("failed") /\ UNCHANGED svr

RunServes == run = "starting" /\ Goto("serving") /\ UNCHANGED svr

RunReceivesExit ==
    /\ run = "serving" /\ kitexExit = 1
    /\ run' = "stopping" /\ kitexExit' = 0
    /\ UNCHANGED <<process, fx, configured, wg, poller, chosen, svr, calls>>

\* The accept loop fails.
RunStops == run = "serving" /\ Goto("stopping") /\ UNCHANGED svr

\* The calls under way have ended, or the time to wait for them has.
RunReturns == run = "stopping" /\ Goto("returned") /\ svr' = FALSE

Run ==
    \/ RunFails \/ RunSetsSvr \/ RunCannotListen \/ RunServes
    \/ RunReceivesExit \/ RunReturns

-----------------------------------------------------------------------------
(* A call in the middlewares.                                              *)

Request(c) ==
    /\ run \in {"serving", "stopping"} /\ call[c] = "none"
    /\ call' = [call EXCEPT ![c] = "down"]
    /\ pos' = [pos EXCEPT ![c] = 1]
    /\ UNCHANGED <<lifecycle, chosen, kitex, traced, noticed>>
    /\ UNCHANGED <<endpoint, sent, expired, written, answer>>

\* A middleware outside the deadline prepares the context and calls the next
\* one.  The first has the caller's trace id, or a new one.
Forward(c) ==
    LET m == chain[pos[c]] IN
    /\ call[c] = "down" /\ m # "deadline"
    /\ pos' = [pos EXCEPT ![c] = @ + 1]
    /\ traced' = IF m = "trace_id" \/ "trace_id" \in traced[c]
                 THEN [traced EXCEPT ![c] = @ \union {m}] ELSE traced
    /\ UNCHANGED <<lifecycle, chosen, kitex, call, noticed>>
    /\ UNCHANGED <<endpoint, sent, expired, written, answer>>

\* The deadline middleware: context, channels, goroutine, select.
Spawn(c) ==
    /\ call[c] = "down" /\ chain[pos[c]] = "deadline"
    /\ call' = [call EXCEPT ![c] = "select"]
    /\ endpoint' = [endpoint EXCEPT ![c] = "running"]
    /\ UNCHANGED <<lifecycle, chosen, kitex, pos, traced, noticed>>
    /\ UNCHANGED <<sent, expired, written, answer>>

Expire(c) ==
    /\ call[c] \in {"down", "select"} /\ ~expired[c]
    /\ expired' = [expired EXCEPT ![c] = TRUE]
    /\ UNCHANGED <<lifecycle, chosen, kitex, walk, endpoint, sent, written, answer>>

\* The endpoint fills in the response its caller gave it, also after the
\* caller has gone.
EndpointWrites(c) ==
    /\ endpoint[c] = "running"
    /\ written' = [written EXCEPT ![c] = TRUE]
    /\ endpoint' = [endpoint EXCEPT ![c] = "returning"]
    /\ UNCHANGED <<lifecycle, chosen, kitex, walk, sent, expired, answer>>

\* Mutant: resCh gets its 1 before the endpoint has ended.
EndpointReturnsEarly(c) ==
    /\ endpoint[c] \in {"running", "returning"} /\ sent[c] = "none"
    /\ sent' = [sent EXCEPT ![c] = "ok"]
    /\ UNCHANGED <<lifecycle, chosen, kitex, walk, endpoint, expired, written, answer>>

\* It returns nil after it has written, or an error, which a panic is, too,
\* once kitex has recovered it.  The channels have room.
EndpointReturns(c) ==
    /\ \/ endpoint[c] = "returning" /\ sent' = [sent EXCEPT ![c] = "ok"]
       \/ endpoint[c] = "running" /\ sent' = [sent EXCEPT ![c] = "error"]
    /\ endpoint' = [endpoint EXCEPT ![c] = "gone"]
    /\ UNCHANGED <<lifecycle, chosen, kitex, walk, expired, written, answer>>

AnswerWith(c, r) ==
    /\ call' = [call EXCEPT ![c] = "up"]
    /\ pos' = [pos EXCEPT ![c] = @ - 1]
    /\ answer' = [answer EXCEPT ![c] = r]
    /\ UNCHANGED <<lifecycle, chosen, kitex, traced, noticed>>
    /\ UNCHANGED <<endpoint, sent, expired, written>>

\* With a result and the context both ready, the select picks either.
SelectResult(c) ==
    call[c] = "select" /\ sent[c] # "none" /\ AnswerWith(c, sent[c])

\* Mutant: the select has no case for the context.
SelectNever(c) == FALSE /\ AnswerWith(c, "deadline")

SelectDone(c) == call[c] = "select" /\ expired[c] /\ AnswerWith(c, "deadline")

\* The request log writes about everything, New Relic about errors.
Writes(m, r) == m = "request_log" \/ (m = "newrelic" /\ r # "ok")

\* Every middleware returns what the next one returned.
Up(c) ==
    LET m == chain[pos[c]] IN
    /\ call[c] = "up" /\ pos[c] > 0
    /\ noticed' = IF Writes(m, answer[c])
                  THEN [noticed EXCEPT ![c][m] = answer[c]] ELSE noticed
    /\ pos' = [pos EXCEPT ![c] = @ - 1]
    /\ UNCHANGED <<lifecycle, chosen, kitex, call, traced>>
    /\ UNCHANGED <<endpoint, sent, expired, written, answer>>

Answer(c) ==
    /\ call[c] = "up" /\ pos[c] = 0
    /\ call' = [call EXCEPT ![c] = "answered"]
    /\ UNCHANGED <<lifecycle, chosen, kitex, pos, traced, noticed>>
    /\ UNCHANGED <<endpoint, sent, expired, written, answer>>

Middlewares(c) ==
    \/ Forward(c) \/ Spawn(c) \/ SelectResult(c) \/ SelectDone(c)
    \/ Up(c) \/ Answer(c)

-----------------------------------------------------------------------------
Lifecycle == SetMiddlewares \/ Configure \/ OnStart \/ OnStop \/ Signal \/ Poll \/ Bye \/ Exit

CallStep(c) ==
    \/ Request(c) \/ Expire(c) \/ Middlewares(c)
    \/ EndpointWrites(c) \/ EndpointReturns(c)

Next ==
    /\ process = "up"
    /\ Lifecycle \/ Run \/ RunStops \/ \E c \in Calls : CallStep(c)

Spec == Init /\ [][Next]_vars

\* The framework's goroutines and kitex's Run go on, and time passes; an
\* endpoint need not return.
Fairness ==
    LET Runs(A) == process = "up" /\ A
    IN  /\ WF_vars(Runs(Signal)) /\ WF_vars(Runs(Poll)) /\ WF_vars(Runs(Bye))
        /\ WF_vars(Runs(Run))
        /\ \A c \in Calls :
            WF_vars(Runs(Middlewares(c))) /\ WF_vars(Runs(Expire(c)))

FairSpec == Spec /\ Fairness

-----------------------------------------------------------------------------
(* Properties.                                                             *)

\* A server that comes up after the stop has begun, even after "Bye" because
\* the poll was early, finds the exit signal waiting (kitex.go:42, 84, 93).
StopAwaitsServer ==
    fx \in {"wait", "stopped"} /\ run \in {"spawned", "starting", "serving"}
        => kitexExit = 1

\* A caller is told that its call went well only once the endpoint has filled
\* in the response and ended: it does not read what is still being written
\* (timeout.go:35-45).
AnswersFit ==
    \A c \in Calls : call[c] = "answered" =>
        CASE answer[c] = "ok" -> written[c] /\ endpoint[c] = "gone"
          [] answer[c] = "error" -> sent[c] = "error" /\ ~written[c]
          [] answer[c] = "deadline" -> expired[c]
          [] OTHER -> FALSE

\* The log and New Relic tell of a call what its caller was told, and which call
\* it was: they are outside the deadline and inside the middleware that sets the
\* trace id (request_log.go:40-44, newrelic.go:77-92).
ObserversAgree ==
    \A c \in Calls, o \in Observers :
        call[c] = "answered" /\ (\E i \in 1..Len(chain) : chain[i] = o) =>
            /\ noticed[c][o] = IF Writes(o, answer[c]) THEN answer[c] ELSE "none"
            /\ o \in traced[c]

\* OnStop returns, but for the one case in which it polls for ever: Run has
\* failed after it had set svr (kitex.go:79, 93).
OnStopReturns ==
    fx = "signal" ~> \/ fx = "stopped" \/ process # "up"
                     \/ run = "failed" /\ svr

\* A stop ends the server, however early it comes (kitex.go:84).
ServerStops ==
    fx = "signal" ~> run \in {"returned", "failed"} \/ process # "up"

\* Every call is answered, though its endpoint may never return
\* (timeout.go:48).
CallsAnswered ==
    \A c \in Calls : call[c] = "down" ~> call[c] = "answered" \/ process # "up"
=============================================================================
