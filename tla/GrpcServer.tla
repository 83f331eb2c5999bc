----------------------------- MODULE GrpcServer -----------------------------
(***************************************************************************)
(* The gRPC server of plugins/grpc/grpc.go under the fx hooks that every   *)
(* preset installs, with the calls of GrpcCall.  OnStart calls Serve,      *)
(* which listens and leaves the accept loop to a goroutine; OnStop calls   *)
(* Shutdown, which is GracefulStop: no new connection, and a wait for the  *)
(* server's goroutines of the calls it has accepted.                       *)
(***************************************************************************)
EXTENDS GrpcCall

VARIABLES
    fx,        \* where the lifecycle goroutine is
    listener,  \* "unset", "open", "nil" (net.Listen failed)
    acceptor   \* the goroutine that Serve starts

vars == <<grpcVars, fx, listener, acceptor>>

TypeOK ==
    /\ CallTypeOK
    /\ fx \in {"invoke", "running", "stopping", "stopped"}
    /\ listener \in {"unset", "open", "nil"}
    /\ acceptor \in {"none", "spawned", "serving", "returned"}

Init == CallInit /\ fx = "invoke" /\ listener = "unset" /\ acceptor = "none"

Idle == UNCHANGED <<callVars, taskVars, expired, outcome, noticed>>

\* The process ends, with every goroutine where it is.
End(why) == process' = why /\ Idle

SetListener ==
    /\ fx = "invoke" /\ listener' = "open"
    /\ Idle /\ UNCHANGED <<process, fx, acceptor>>

\* OnStart.  An error of net.Listen is logged, and the listener is nil.
Serve ==
    /\ fx = "invoke" /\ fx' = "running"
    /\ IF listener = "unset" THEN listener' \in {"open", "nil"}
                             ELSE UNCHANGED listener
    /\ acceptor' = "spawned"
    /\ Idle /\ UNCHANGED process

\* The goroutine gets as far as server.Serve, which serves.
Accept ==
    /\ acceptor = "spawned" /\ listener = "open" /\ fx = "running"
    /\ acceptor' = "serving"
    /\ Idle /\ UNCHANGED <<process, fx, listener>>

\* lis.Addr() of the nil listener panics.
AcceptNil ==
    /\ acceptor = "spawned" /\ listener = "nil"
    /\ End("fatal") /\ UNCHANGED <<fx, listener, acceptor>>

\* server.Serve refuses a server that was stopped before: Fatalf.
AcceptStopped ==
    /\ acceptor = "spawned" /\ listener = "open" /\ fx \in {"stopping", "stopped"}
    /\ End("fatal") /\ UNCHANGED <<fx, listener, acceptor>>

\* The listener fails under server.Serve: Fatalf.
AcceptFails ==
    /\ acceptor = "serving"
    /\ End("fatal") /\ UNCHANGED <<fx, listener, acceptor>>

\* OnStop: GracefulStop closes the listener, and server.Serve returns nil.
Shutdown ==
    /\ fx = "running" /\ fx' = "stopping"
    /\ acceptor' = IF acceptor = "serving" THEN "returned" ELSE acceptor
    /\ Idle /\ UNCHANGED <<process, listener>>

\* A call on an open connection: also one that was on its way when the
\* connection was told to go away.
Request(c) ==
    /\ acceptor \in {"serving", "returned"} /\ fx \in {"running", "stopping"}
    /\ Arrive(c) /\ UNCHANGED <<fx, listener, acceptor>>

\* Mutant: Stop in place of GracefulStop.
ByeAtOnce ==
    /\ fx = "stopping" /\ fx' = "stopped"
    /\ Idle /\ UNCHANGED <<process, listener, acceptor>>

\* GracefulStop returns when the server's goroutine of every call has.
Bye ==
    /\ fx = "stopping" /\ \A c \in Calls : call[c] \in {"none", "answered"}
    /\ fx' = "stopped"
    /\ Idle /\ UNCHANGED <<process, listener, acceptor>>

\* The end of main, or of fx's patience with a stop that takes too long.
Exit ==
    /\ fx \in {"stopping", "stopped"}
    /\ End("exited") /\ UNCHANGED <<fx, listener, acceptor>>

Acceptor == Accept \/ AcceptNil \/ AcceptStopped \/ AcceptFails

ServerNext ==
    /\ process = "up"
    /\ \/ SetListener \/ Serve \/ Acceptor \/ Shutdown \/ Bye \/ Exit
       \/ \E c \in Calls : Request(c)

Next == ServerNext \/ (CallNext /\ UNCHANGED <<fx, listener, acceptor>>)

Spec == Init /\ [][Next]_vars

\* Goroutines run and time passes.  Nothing is assumed of handlers: a call
\* is answered whether or not its handler ever returns.
Fairness ==
    /\ WF_vars(process = "up" /\ Bye)
    /\ \A c \in Calls :
        LET Runs(A) == process = "up" /\ A /\ UNCHANGED <<fx, listener, acceptor>>
        IN  /\ WF_vars(Runs(ServerGoroutine(c)))
            /\ WF_vars(Runs(TaskGoroutine(c)))
            /\ WF_vars(Runs(Expire(c)))

FairSpec == Spec /\ Fairness

-----------------------------------------------------------------------------
(* Properties.                                                             *)

\* A handler that is still at work when the stop has returned belongs to a call
\* whose time was up: GracefulStop, which knows nothing of the goroutine that
\* runs it, awaits every other one through the deadline interceptor's select
\* (grpc.go:67, timeout.go:35-53).
HandlersAwaited ==
    fx = "stopped" => \A c \in Calls : task[c] \in {"none", "gone"} \/ expired[c]

\* The server stops gracefully: a handler at work after GracefulStop belongs to
\* an overdue call, and none is called any more, though the goroutines that
\* call them are not GracefulStop's (grpc.go:67, timeout.go:35-53).
Graceful == INSTANCE GracefulService WITH
    Jobs <- Calls,
    working <- {c \in Calls : task[c] \notin {"none", "gone"}},
    overdue <- {c \in Calls : expired[c]},
    stopped <- fx = "stopped"

StopsGracefully == Graceful!Spec

\* Every call that arrives is answered, though its handler may never return,
\* as long as the process is up (timeout.go:51).
CallsAnswered ==
    \A c \in Calls : call[c] = "down" ~> call[c] = "answered" \/ process # "up"

\* The goroutine of an abandoned call ends once the handler has returned:
\* nobody has to read its result (timeout.go:35-43).
TasksEnd == \A c \in Calls : task[c] = "up" ~> task[c] = "gone" \/ process # "up"

\* Stopping the server comes to an end, whatever the handlers do
\* (grpc.go:65-69, timeout.go:51).
StopCompletes == fx = "stopping" ~> fx = "stopped" \/ process # "up"

=============================================================================
