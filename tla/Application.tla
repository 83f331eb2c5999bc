----------------------------- MODULE Application -----------------------------
(***************************************************************************)
(* An application from its modules to the end of the process: app.go, with *)
(* the hooks of the Pulsar plugin's client holder and producer manager, of *)
(* the Pyroscope agent, and of a service of the application.               *)
(*                                                                         *)
(* fx itself is external.  As app.go uses it, it refuses to provide a type *)
(* twice; it constructs what the functions given to Run need, and only     *)
(* that, dependencies first; it calls these functions; it runs the hooks   *)
(* OnStart in the order of construction and, on a signal, the hooks OnStop *)
(* in the reverse order.  If a hook OnStart fails, the hooks OnStop of     *)
(* those before it run and the process exits.                              *)
(***************************************************************************)
EXTENDS AppRegistry, PulsarProducer, Pyroscope

CONSTANTS
  Needs,   \* the constructors whose values a constructor takes
  Demand,  \* what the functions given to Run need, directly or not
  NoApp    \* no application

ASSUME DemandAssumption ==
  /\ Needs \in [Constructors -> SUBSET Constructors]
  /\ Demand \subseteq Constructors
  /\ \A c \in Demand : Needs[c] \subseteq Demand
  /\ NoApp \notin Apps

\* The producer manager's constructor takes the client's holder.
ASSUME ManagerAssumption ==
  "NewPulsarProducerManager" \in Constructors =>
    "NewPulsarServer" \in Needs["NewPulsarProducerManager"]

VARIABLES
  runner,    \* the application whose Run was called
  fx,        \* what fx is at
  built,     \* the constructors called, in order, each with its hooks
  started,   \* lifecycle.numStarted: hooks that are to be stopped
  reached,   \* the number of hooks that were started (history)
  byHand     \* whether application code has called the agent's Start (history)

fxVars == <<runner, fx, built, started, reached, byHand>>
vars == <<registryVars, producerVars, agentVars, fxVars>>

Init ==
  /\ RegistryInit /\ ProducerInit /\ AgentInit
  /\ runner = NoApp /\ fx = "setup" /\ built = <<>>
  /\ started = 0 /\ reached = 0 /\ byHand = FALSE

At(phase) == fx = phase
Goto(phase) == fx' = phase

Elements(s) == {s[i] : i \in DOMAIN s}
NoDuplicates(s) == \A i, j \in DOMAIN s : s[i] = s[j] => i = j
Provided == Contents(arrays, slice[runner])
IsBuilt(c) == \E i \in DOMAIN built : built[i] = c
Before(c) == {i \in DOMAIN built : built[i] = c /\ i <= reached}

-----------------------------------------------------------------------------
\* main puts the application together, and calls Run.

Setup == At("setup") /\ RegistryNext /\ UNCHANGED <<producerVars, agentVars, fxVars>>

Run(a) ==
  /\ At("setup") /\ Exists(a)
  /\ runner' = a /\ Goto("building")
  /\ UNCHANGED <<built, started, reached, byHand, registryVars, producerVars, agentVars>>

\* fx.Provide or fx.Invoke fails: a type is provided twice, or not at all.
Misfit ==
  /\ At("building")
  /\ ~NoDuplicates(Provided) \/ ~(Demand \subseteq Elements(Provided))
  /\ Goto("misfit")
  /\ UNCHANGED <<runner, built, started, reached, byHand>>
  /\ UNCHANGED <<registryVars, producerVars, agentVars>>

\* Mutant: constructors are called in any order.
ConstructUnordered(c) ==
  /\ At("building") /\ NoDuplicates(Provided) /\ Demand \subseteq Elements(Provided)
  /\ c \in Demand /\ ~IsBuilt(c)
  /\ built' = Append(built, c)
  /\ UNCHANGED <<runner, fx, started, reached, byHand>>
  /\ UNCHANGED <<registryVars, producerVars, agentVars>>

Construct(c) ==
  /\ At("building") /\ NoDuplicates(Provided) /\ Demand \subseteq Elements(Provided)
  /\ c \in Demand /\ ~IsBuilt(c)
  /\ \A d \in Needs[c] : IsBuilt(d)
  /\ built' = Append(built, c)
  /\ UNCHANGED <<runner, fx, started, reached, byHand>>
  /\ UNCHANGED <<registryVars, producerVars, agentVars>>

\* Everything is there: the functions given to Run are called, and return.
Invoke ==
  /\ At("building") /\ \A c \in Demand : IsBuilt(c)
  /\ Goto("invoking")
  /\ UNCHANGED <<runner, built, started, reached, byHand>>
  /\ UNCHANGED <<registryVars, producerVars, agentVars>>

InvokeReturns ==
  /\ At("invoking")
  /\ \/ Goto("starting") \/ Goto("failed")
  /\ UNCHANGED <<runner, built, started, reached, byHand>>
  /\ UNCHANGED <<registryVars, producerVars, agentVars>>

-----------------------------------------------------------------------------
\* The code of the application: in the functions given to Run, in the hooks of
\* its own services, in goroutines.

Alive == fx \in {"invoking", "starting", "running", "stopping", "rollback"}
Settled == fx \in {"invoking", "starting", "running"}

Application ==
  /\ Settled
  /\ \/ IsBuilt("NewPulsarServer") /\ ConnectClient /\ UNCHANGED <<agentVars, byHand>>
     \/ /\ IsBuilt("NewPyroscopeAgent")
        /\ UNCHANGED <<producerVars, byHand>>
        /\ \E name, address \in BOOLEAN : Configure(name, address)
     \/ /\ IsBuilt("NewPyroscopeAgent")
        /\ StartRuns /\ byHand' = TRUE
        /\ UNCHANGED producerVars
  /\ UNCHANGED <<runner, fx, built, started, reached, registryVars>>

Caller(c) ==
  /\ Alive /\ IsBuilt("NewPulsarProducerManager")
  /\ CallerNext(c)
  /\ UNCHANGED <<registryVars, agentVars, fxVars>>

-----------------------------------------------------------------------------
\* The lifecycle.

\* The next hook's OnStart: the agent's, a service's, or none.
OnStart ==
  /\ At("starting") /\ started < Len(built)
  /\ started' = started + 1 /\ reached' = started + 1
  /\ IF built[started + 1] = "NewPyroscopeAgent" THEN Start ELSE UNCHANGED agentVars
  /\ UNCHANGED <<runner, fx, built, byHand, registryVars, producerVars>>

OnStartFails ==
  /\ At("starting") /\ started < Len(built)
  /\ \/ built[started + 1] = "NewPyroscopeAgent" /\ StartFails
     \/ built[started + 1] = "NewService" /\ UNCHANGED agentVars
  /\ Goto("rollback")
  /\ UNCHANGED <<runner, built, started, reached, byHand, registryVars, producerVars>>

AllStarted ==
  /\ At("starting") /\ started = Len(built)
  /\ Goto("running")
  /\ UNCHANGED <<runner, built, started, reached, byHand>>
  /\ UNCHANGED <<registryVars, producerVars, agentVars>>

Signal ==
  /\ At("running") /\ Goto("stopping")
  /\ UNCHANGED <<runner, built, started, reached, byHand>>
  /\ UNCHANGED <<registryVars, producerVars, agentVars>>

Stopping == At("stopping") \/ At("rollback")

\* The hook OnStop of a constructor's value.
HookStops(c) ==
  \/ /\ c = "NewPulsarServer"
     /\ ServerShutdown /\ UNCHANGED agentVars
  \/ /\ c = "NewPulsarProducerManager"
     /\ ShutdownUnconnected \/ Shutdown
     /\ UNCHANGED agentVars
  \/ /\ c = "NewPyroscopeAgent"
     /\ Stop /\ UNCHANGED producerVars
  \/ /\ c \notin {"NewPulsarServer", "NewPulsarProducerManager", "NewPyroscopeAgent"}
     /\ UNCHANGED <<producerVars, agentVars>>

OnStop ==
  /\ Stopping /\ started > 0
  /\ HookStops(built[started])
  /\ started' = started - 1
  /\ UNCHANGED <<runner, fx, built, reached, byHand, registryVars>>

\* p.Close() of the nil client: a panic, which fx does not recover.
OnStopPanics ==
  /\ Stopping /\ started > 0
  /\ built[started] = "NewPulsarServer" /\ client = "nil"
  /\ Goto("crashed")
  /\ UNCHANGED <<runner, built, started, reached, byHand>>
  /\ UNCHANGED <<registryVars, producerVars, agentVars>>

Exit ==
  /\ Stopping /\ started = 0
  /\ Goto("exited")
  /\ UNCHANGED <<runner, built, started, reached, byHand>>
  /\ UNCHANGED <<registryVars, producerVars, agentVars>>

\* The hooks have taken longer than fx's stop timeout.
StopTimeout ==
  /\ Stopping /\ started > 0
  /\ Goto("timedOut")
  /\ UNCHANGED <<runner, built, started, reached, byHand>>
  /\ UNCHANGED <<registryVars, producerVars, agentVars>>

Lifecycle == \/ Misfit \/ (\E c \in Constructors : Construct(c)) \/ Invoke
             \/ InvokeReturns \/ OnStart \/ OnStartFails \/ AllStarted
             \/ OnStop \/ OnStopPanics \/ Exit

Next == \/ Setup \/ (\E a \in Apps : Run(a))
        \/ Lifecycle \/ Signal \/ StopTimeout
        \/ Application \/ (\E c \in Callers : Caller(c))

Spec == Init /\ [][Next]_vars

\* fx goes on.  The broker answers a request or times out, and Go's mutex is
\* fair: who waits for it gets it, however often others take it.
Fairness == /\ SF_vars(Lifecycle)
            /\ \A c \in Callers :
                 WF_vars(Caller(c) /\ at[c] = "create" /\ at'[c] = "idle")

FairSpec == Spec /\ Fairness

-----------------------------------------------------------------------------

TypeOK ==
  /\ RegistryTypeOK /\ ProducerTypeOK /\ AgentTypeOK
  /\ runner \in Apps \cup {NoApp}
  /\ fx \in {"setup", "building", "invoking", "starting", "running", "stopping",
             "rollback", "exited", "misfit", "failed", "crashed", "timedOut"}
  /\ built \in Seq(Demand) /\ NoDuplicates(built)
  /\ started \in 0..reached /\ reached \in 0..Len(built)
  /\ byHand \in BOOLEAN

\* An application that cannot be built was given too little or one thing twice,
\* or has been robbed: what one application is put together from does not
\* depend on another (app.go:28-39), unless both had room to append.
MisfitHasReason ==
  fx = "misfit" =>
    \/ ~NoDuplicates(given[runner]) \/ ~(Demand \subseteq Elements(given[runner]))
    \/ runner \in appended /\ \E b \in appended : b # runner

\* The producer manager is stopped before the client it got its producers from
\* is closed (producer.go:118-120, pulsar.go:61-63), although neither knows of
\* the other's hook: the manager takes the client's holder, so it is built
\* later, and stopped earlier.  Only a manager that never got as far as its
\* hook is left out.
ManagerStopsFirst ==
  [][client = "open" /\ client' = "closed" =>
       pmDown \/ Before("NewPulsarProducerManager") = {}]_vars

\* A process that exits in good order leaves no profiler running and no
\* producer open with the broker, with two exceptions.  An agent started by
\* hand has lost one of its profilers (pyroscope.go:77).  And a hook that comes
\* after one that failed is never stopped: with a client connected by the
\* functions given to Run, an agent built before the client's holder and not
\* configured leaves the producers open (pyroscope.go:68-70).
NothingLeftBehind ==
  fx = "exited" =>
    /\ open # {} => Before("NewPulsarServer") = {}
    /\ profiling # {} => byHand

\* Once it has begun, stopping comes to an end, with callers that ask for
\* producers all the while and the mutex held during slow requests; it ends in
\* a panic only if the client was never connected (pulsar.go:62).
StopEnds ==
  Stopping ~> (fx \in {"exited", "timedOut"} \/ (fx = "crashed" /\ client = "nil"))
=============================================================================
