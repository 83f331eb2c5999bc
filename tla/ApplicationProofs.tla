------------------------- MODULE ApplicationProofs -------------------------
(***************************************************************************)
(* Theorems about the composed application: it is an execution of the      *)
(* registry and of the producer manager, so what is proved of these holds  *)
(* in it; and what only their composition shows.                           *)
(***************************************************************************)
EXTENDS Application, ApplicationPartsProofs

\* Every step is one of the registry or none; and of the producer manager.
LEMMA RegistrySteps == Next => [RegistryNext]_registryVars
BY DEF Next, Setup, Run, Lifecycle, Misfit, Construct, Invoke, InvokeReturns,
       OnStart, OnStartFails, AllStarted, OnStop, OnStopPanics, Exit, Signal,
       StopTimeout, Application, Caller

LEMMA ProducerSteps == Next => [ProducerNext]_producerVars
<1> SUFFICES ASSUME Next PROVE [ProducerNext]_producerVars
  OBVIOUS
<1>1. CASE Application
  BY <1>1 DEF Application, ProducerNext
<1>2. CASE \E c \in Callers : Caller(c)
  BY <1>2 DEF Caller, ProducerNext
<1>3. CASE OnStop
  BY <1>3 DEF OnStop, HookStops, ShutdownUnconnected, ProducerNext
<1>4. CASE Setup \/ (\E a \in Apps : Run(a)) \/ Signal \/ StopTimeout
  BY <1>4 DEF Setup, Run, Signal, StopTimeout
<1>5. CASE \/ Misfit \/ (\E c \in Constructors : Construct(c)) \/ Invoke
           \/ InvokeReturns \/ OnStart \/ OnStartFails \/ AllStarted
           \/ OnStopPanics \/ Exit
  BY <1>5 DEF Misfit, Construct, Invoke, InvokeReturns, OnStart, OnStartFails,
              AllStarted, OnStopPanics, Exit
<1> QED BY <1>1, <1>2, <1>3, <1>4, <1>5 DEF Next, Lifecycle

\* The application's registry is that of AppRegistry, whatever fx does with it.
THEOREM ImplementsRegistry == Spec => RegistrySpec
<1>1. Init => RegistryInit
  BY DEF Init
<1>2. [Next]_vars => [RegistryNext]_registryVars
  BY RegistrySteps DEF vars
<1> QED BY <1>1, <1>2, PTL DEF Spec, RegistrySpec

\* Its producer manager is that of PulsarProducer, under fx's hooks.
THEOREM ImplementsProducer == Spec => ProducerSpec
<1>1. Init => ProducerInit
  BY DEF Init
<1>2. [Next]_vars => [ProducerNext]_producerVars
  BY ProducerSteps DEF vars
<1> QED BY <1>1, <1>2, PTL DEF Spec, ProducerSpec

\* ... so what is proved of the registry is proved of every process: its
\* applications keep their constructors unless robbed (app.go:33-38).
THEOREM ApplicationKeeps ==
  Spec => [](RegistryTypeOK /\ KeepsUnlessRobbed /\ RegistryIntact)
BY ImplementsRegistry, RegistryTypeCorrect, KeepsUnlessRobbedCorrect,
   RegistryIntactCorrect, PTL

\* Whatever fx builds and stops, and whenever, one producer is created for a
\* label and everybody gets that one (producer.go:88-108).
THEOREM ApplicationSharesProducers ==
  Spec => [](ProducerTypeOK /\ OneProducerPerLabel)
BY ImplementsProducer, ProducerTypeCorrect, OneProducerCorrect, PTL

\* ... and what is answered is open until one of the hooks has run
\* (producer.go:61-66, 89-91).
THEOREM ApplicationAnswersOpen == Spec => AnsweredOpen
BY ImplementsProducer, AnsweredOpenCorrect, PTL

-----------------------------------------------------------------------------
\* The types of what is not the registry's or the manager's.

FxTypeOK ==
  /\ runner \in Apps \cup {NoApp}
  /\ fx \in {"setup", "building", "invoking", "starting", "running", "stopping",
             "rollback", "exited", "misfit", "failed", "crashed", "timedOut"}
  /\ built \in Seq(Demand) /\ NoDuplicates(built)
  /\ started \in Nat /\ reached \in Nat /\ started <= reached /\ reached <= Len(built)
  /\ byHand \in BOOLEAN

LEMMA AgentSteps == AgentTypeOK /\ Next => AgentTypeOK'
<1> SUFFICES ASSUME AgentTypeOK, Next PROVE AgentTypeOK'
  OBVIOUS
<1>1. CASE UNCHANGED agentVars
  BY <1>1 DEF agentVars, AgentTypeOK
<1>2. CASE \E name, address \in BOOLEAN : Configure(name, address)
  <2>1. configured \in BOOLEAN /\ configured' \in BOOLEAN
    BY <1>2, Zenon DEF Configure, AgentTypeOK
  <2> QED BY <1>2, <2>1 DEF Configure, AgentTypeOK
<1>3. CASE StartRuns
  BY <1>3, ProfilersAssumption DEF StartRuns, AgentTypeOK
<1>4. CASE Stop
  BY <1>4 DEF Stop, AgentTypeOK
<1>5. \/ UNCHANGED agentVars \/ StartRuns \/ Stop
      \/ \E name, address \in BOOLEAN : Configure(name, address)
  <2>1. CASE Application
    BY <2>1 DEF Application
  <2>2. CASE OnStart
    BY <2>2 DEF OnStart, Start, StartDisabled
  <2>3. CASE OnStartFails
    BY <2>3 DEF OnStartFails, StartFails
  <2>4. CASE OnStop
    BY <2>4 DEF OnStop, HookStops
  <2>5. CASE Setup \/ (\E a \in Apps : Run(a)) \/ Signal \/ StopTimeout
             \/ \E c \in Callers : Caller(c)
    BY <2>5 DEF Setup, Run, Signal, StopTimeout, Caller
  <2>6. CASE \/ Misfit \/ (\E c \in Constructors : Construct(c)) \/ Invoke
             \/ InvokeReturns \/ AllStarted \/ OnStopPanics \/ Exit
    BY <2>6 DEF Misfit, Construct, Invoke, InvokeReturns, AllStarted, OnStopPanics, Exit
  <2> QED BY <2>1, <2>2, <2>3, <2>4, <2>5, <2>6 DEF Next, Lifecycle
<1> QED BY <1>1, <1>2, <1>3, <1>4, <1>5

LEMMA ConstructTypes ==
  ASSUME FxTypeOK, NEW c \in Constructors, Construct(c)
  PROVE  /\ built' \in Seq(Demand) /\ Len(built') = Len(built) + 1
         /\ \A i \in 1..Len(built) : built'[i] = built[i]
         /\ built'[Len(built) + 1] = c
         /\ NoDuplicates(built')
<1>1. built \in Seq(Demand) /\ c \in Demand /\ built' = Append(built, c)
  BY DEF FxTypeOK, Construct
<1>2. /\ built' \in Seq(Demand) /\ Len(built') = Len(built) + 1
      /\ \A i \in 1..Len(built) : built'[i] = built[i]
      /\ built'[Len(built) + 1] = c
  BY <1>1, AppendProperties
<1>3. Len(built) \in Nat
  BY <1>1, LenProperties
<1>4. /\ \A i \in 1..Len(built) : built[i] # c
      /\ \A i, j \in 1..Len(built) : built[i] = built[j] => i = j
  BY <1>1, LenProperties DEF Construct, IsBuilt, FxTypeOK, NoDuplicates
<1>5. DOMAIN built' = 1..(Len(built) + 1)
  BY <1>2, LenProperties
<1>6. ASSUME NEW i \in DOMAIN built', NEW j \in DOMAIN built', built'[i] = built'[j]
      PROVE  i = j
  BY <1>2, <1>3, <1>4, <1>5, <1>6
<1> QED BY <1>2, <1>6 DEF NoDuplicates

LEMMA FxSteps == FxTypeOK /\ Next => FxTypeOK'
<1> SUFFICES ASSUME FxTypeOK, Next PROVE FxTypeOK'
  OBVIOUS
<1>0. /\ built \in Seq(Demand) /\ Len(built) \in Nat
      /\ started \in Nat /\ reached \in Nat /\ started <= reached /\ reached <= Len(built)
  BY LenProperties DEF FxTypeOK
<1>b. byHand' \in BOOLEAN
  <2>1. byHand \in BOOLEAN
    BY DEF FxTypeOK
  <2>2. byHand' = byHand \/ byHand' = TRUE
    BY DEF Next, Setup, Run, Lifecycle, Misfit, Construct, Invoke, InvokeReturns,
           OnStart, OnStartFails, AllStarted, OnStop, OnStopPanics, Exit, Signal,
           StopTimeout, Application, Caller, fxVars
  <2> QED BY <2>1, <2>2
<1>1. CASE \E c \in Constructors : Construct(c)
  <2>1. PICK c \in Constructors : Construct(c)
    BY <1>1
  <2>2. built' \in Seq(Demand) /\ Len(built') = Len(built) + 1 /\ NoDuplicates(built')
    BY <2>1, ConstructTypes
  <2>3. UNCHANGED <<runner, fx, started, reached, byHand>>
    BY <2>1 DEF Construct
  <2>4. started' \in Nat /\ reached' \in Nat /\ started' <= reached' /\ reached' <= Len(built')
    BY <1>0, <2>2, <2>3
  <2> QED BY <2>2, <2>3, <2>4 DEF FxTypeOK
<1>2. ASSUME UNCHANGED built,
             runner' \in Apps \cup {NoApp},
             fx' \in {"setup", "building", "invoking", "starting", "running", "stopping",
                     "rollback", "exited", "misfit", "failed", "crashed", "timedOut"},
             started' \in Nat /\ reached' \in Nat /\ started' <= reached',
             reached' <= Len(built)
      PROVE  FxTypeOK'
  <2>1. NoDuplicates(built')
    BY <1>2 DEF FxTypeOK
  <2>2. built' \in Seq(Demand) /\ reached' <= Len(built')
    BY <1>0, <1>2
  <2> QED BY <1>2, <1>b, <2>1, <2>2 DEF FxTypeOK
<1>3. CASE OnStart
  BY <1>0, <1>2, <1>3 DEF OnStart, FxTypeOK
<1>4. CASE OnStop
  BY <1>0, <1>2, <1>4 DEF OnStop, FxTypeOK
<1>5. CASE \E a \in Apps : Run(a)
  BY <1>0, <1>2, <1>5 DEF Run, Goto, FxTypeOK
<1>6. CASE Setup \/ Application \/ \E c \in Callers : Caller(c)
  BY <1>0, <1>2, <1>6 DEF Setup, Application, Caller, fxVars, FxTypeOK
<1>7. CASE \/ Misfit \/ Invoke \/ InvokeReturns \/ OnStartFails \/ AllStarted
           \/ OnStopPanics \/ Exit \/ Signal \/ StopTimeout
  BY <1>0, <1>2, <1>7 DEF Misfit, Invoke, InvokeReturns, OnStartFails, AllStarted,
       OnStopPanics, Exit, Signal, StopTimeout, Goto, FxTypeOK
<1> QED BY <1>1, <1>3, <1>4, <1>5, <1>6, <1>7 DEF Next, Lifecycle

LEMMA InitTypes == Init => FxTypeOK /\ AgentTypeOK
<1> SUFFICES ASSUME Init PROVE FxTypeOK /\ AgentTypeOK
  OBVIOUS
<1>1. byHand \in BOOLEAN /\ enabled \in BOOLEAN /\ configured \in BOOLEAN
  BY Zenon DEF Init, AgentInit
<1>2. built \in Seq(Demand) /\ Len(built) = 0 /\ NoDuplicates(built)
  BY DEF Init, NoDuplicates
<1>3. FxTypeOK
  BY <1>1, <1>2 DEF Init, FxTypeOK
<1>4. AgentTypeOK
  BY <1>1, ProfilersAssumption DEF Init, AgentInit, AgentTypeOK
<1> QED BY <1>3, <1>4

LEMMA FxTypes == Spec => [](FxTypeOK /\ AgentTypeOK)
<1>1. FxTypeOK /\ AgentTypeOK /\ UNCHANGED vars => FxTypeOK' /\ AgentTypeOK'
  <2> SUFFICES ASSUME FxTypeOK, AgentTypeOK, UNCHANGED vars
               PROVE  FxTypeOK' /\ AgentTypeOK'
    OBVIOUS
  <2>1. UNCHANGED fxVars /\ UNCHANGED agentVars
    BY DEF vars
  <2> QED BY <2>1 DEF FxTypeOK, AgentTypeOK, NoDuplicates, fxVars, agentVars
<1> QED BY <1>1, InitTypes, FxSteps, AgentSteps, PTL DEF Spec

\* The state of an application stays well formed, for any modules,
\* constructors, callers and labels: no constructor is called twice, and no
\* hook is stopped that was not started.
THEOREM ApplicationTypeCorrect == Spec => []TypeOK
<1>1. RegistryTypeOK /\ ProducerTypeOK /\ FxTypeOK /\ AgentTypeOK => TypeOK
  <2> SUFFICES ASSUME RegistryTypeOK, ProducerTypeOK, FxTypeOK, AgentTypeOK
               PROVE  TypeOK
    OBVIOUS
  <2>1. started \in 0..reached /\ reached \in 0..Len(built)
    BY LenProperties DEF FxTypeOK
  <2> QED BY <2>1 DEF FxTypeOK, TypeOK
<1> QED BY <1>1, ApplicationKeeps, ApplicationSharesProducers, FxTypes, PTL

-----------------------------------------------------------------------------
\* Why an application may not fit together.  What fx found stays true, since
\* nobody adds a module after Run.

MisfitInv ==
  /\ fx # "setup" => runner \in Apps /\ Exists(runner)
  /\ fx = "misfit" => \/ ~NoDuplicates(Provided)
                      \/ ~(Demand \subseteq Elements(Provided))

LEMMA MisfitSteps == MisfitInv /\ [Next]_vars => MisfitInv'
<1> SUFFICES ASSUME MisfitInv, [Next]_vars PROVE MisfitInv'
  OBVIOUS
<1>1. CASE Setup
  BY <1>1 DEF Setup, At, fxVars, MisfitInv
<1>2. CASE \E a \in Apps : Run(a)
  BY <1>2 DEF Run, Goto, Exists, registryVars, MisfitInv
<1>3. ASSUME fx # "setup", UNCHANGED <<runner, arrays, slice>>,
             fx' = "misfit" => fx = "misfit" \/ Misfit
      PROVE  MisfitInv'
  <2>1. runner' \in Apps /\ Exists(runner)'
    BY <1>3 DEF MisfitInv, Exists
  <2>2. Provided' = Provided
    BY <1>3 DEF Provided, Contents
  <2>3. fx' = "misfit" => \/ ~NoDuplicates(Provided)
                         \/ ~(Demand \subseteq Elements(Provided))
    BY <1>3 DEF MisfitInv, Misfit
  <2> QED BY <2>1, <2>2, <2>3 DEF MisfitInv
<1>4. CASE Misfit
  BY <1>4, <1>3 DEF Misfit, At, registryVars
<1>5. CASE Lifecycle /\ ~Misfit
  BY <1>5, <1>3 DEF Lifecycle, Construct, Invoke, InvokeReturns, OnStart, OnStartFails,
       AllStarted, OnStop, OnStopPanics, Exit, At, Goto, Stopping, registryVars
<1>6. CASE Application \/ Signal \/ StopTimeout \/ \E c \in Callers : Caller(c)
  BY <1>6, <1>3 DEF Application, Signal, StopTimeout, Caller, At, Goto, Stopping,
       Settled, Alive, registryVars, fxVars
<1>7. CASE UNCHANGED vars
  BY <1>7 DEF vars, fxVars, registryVars, MisfitInv, Exists, Provided, Contents
<1> QED BY <1>1, <1>2, <1>4, <1>5, <1>6, <1>7 DEF Next

\* An application that cannot be built was given too little or one thing twice,
\* or has been robbed by another (app.go:28-39).
THEOREM MisfitCorrect == Spec => []MisfitHasReason
<1>1. Init => MisfitInv
  BY DEF Init, MisfitInv
<1>2. Spec => []MisfitInv
  BY <1>1, MisfitSteps, PTL DEF Spec
<1>3. MisfitInv /\ KeepsUnlessRobbed => MisfitHasReason
  BY DEF MisfitInv, KeepsUnlessRobbed, MisfitHasReason, Provided
<1> QED BY <1>2, <1>3, ApplicationKeeps, PTL

-----------------------------------------------------------------------------
\* Why the producer manager is stopped before the client is closed: its
\* constructor needs the client's holder, so its hook comes after the holder's
\* (HolderFirst); hooks are stopped from the last one that was started
\* (Together); and who connects the client does so before stopping begins, so
\* that the manager, once its hook is done with, has closed its producers or
\* there will never be a client (StoppedManager).

Manager == "NewPulsarProducerManager"
Holder == "NewPulsarServer"

HolderFirst ==
  \A i \in 1..Len(built) :
    built[i] = Manager => \E j \in 1..Len(built) : j < i /\ built[j] = Holder
Together ==
  fx \in {"setup", "building", "invoking", "starting", "running"} => started = reached
StoppedManager ==
  \A i \in 1..Len(built) :
    started < i /\ i <= reached /\ built[i] = Manager => pmDown \/ client = "nil"

HooksInv == FxTypeOK /\ HolderFirst /\ Together /\ StoppedManager

LEMMA LenBuilt == FxTypeOK =>
  /\ Len(built) \in Nat /\ DOMAIN built = 1..Len(built)
  /\ started \in Nat /\ reached \in Nat /\ started <= reached /\ reached <= Len(built)
BY LenProperties DEF FxTypeOK

\* What callers do is nothing to the client and the hooks.
LEMMA CallerKeepsClient ==
  ASSUME NEW c \in Callers, CallerNext(c)
  PROVE  UNCHANGED <<client, pmDown>>
BY DEF CallerNext, AddProducer, Producer, Reuse, BeginCreate, Created, CreateFails

LEMMA ConstructHooks ==
  ASSUME HooksInv, NEW c \in Constructors, Construct(c)
  PROVE  HolderFirst' /\ Together' /\ StoppedManager'
<1>1. FxTypeOK /\ HolderFirst /\ Together /\ StoppedManager
  BY DEF HooksInv
<1>2. /\ Len(built) \in Nat /\ DOMAIN built = 1..Len(built)
      /\ reached \in Nat /\ reached <= Len(built)
  BY <1>1, LenBuilt
<1>3. /\ Len(built') = Len(built) + 1
      /\ \A i \in 1..Len(built) : built'[i] = built[i]
      /\ built'[Len(built) + 1] = c
  BY <1>1, ConstructTypes
<1>4. UNCHANGED <<fx, started, reached, client, pmDown>>
  BY DEF Construct, producerVars
<1>5. c = Manager => \E j \in 1..Len(built) : built[j] = Holder
  <2>1. c = Manager => Holder \in Needs[c]
    BY ManagerAssumption DEF Manager, Holder
  <2>2. \A d \in Needs[c] : \E j \in 1..Len(built) : built[j] = d
    BY <1>2 DEF Construct, IsBuilt
  <2> QED BY <2>1, <2>2
<1>6. HolderFirst'
  <2>1. ASSUME NEW i \in 1..(Len(built) + 1), built'[i] = Manager
        PROVE  \E j \in 1..(Len(built) + 1) : j < i /\ built'[j] = Holder
    <3>1. CASE i \in 1..Len(built)
      <4>1. PICK j \in 1..Len(built) : j < i /\ built[j] = Holder
        BY <1>1, <1>3, <2>1, <3>1 DEF HolderFirst
      <4> QED BY <1>2, <1>3, <4>1
    <3>2. CASE i = Len(built) + 1
      <4>1. PICK j \in 1..Len(built) : built[j] = Holder
        BY <1>3, <1>5, <2>1, <3>2
      <4> QED BY <1>2, <1>3, <3>2, <4>1
    <3> QED BY <1>2, <3>1, <3>2
  <2> QED BY <2>1, <1>3 DEF HolderFirst
<1>7. StoppedManager'
  <2>1. ASSUME NEW i \in 1..(Len(built) + 1), started < i, i <= reached,
               built'[i] = Manager
        PROVE  pmDown \/ client = "nil"
    <3>1. i \in 1..Len(built)
      BY <1>2, <2>1
    <3> QED BY <1>1, <1>3, <2>1, <3>1 DEF StoppedManager
  <2> QED BY <2>1, <1>3, <1>4 DEF StoppedManager
<1>8. Together'
  BY <1>1, <1>4 DEF Together
<1> QED BY <1>6, <1>7, <1>8

LEMMA OnStopHooks ==
  ASSUME HooksInv, OnStop
  PROVE  HolderFirst' /\ Together' /\ StoppedManager'
<1>1. FxTypeOK /\ HolderFirst /\ Together /\ StoppedManager
  BY DEF HooksInv
<1>2. /\ Len(built) \in Nat /\ started \in Nat /\ reached \in Nat
      /\ started <= reached /\ reached <= Len(built)
  BY <1>1, LenBuilt
<1>3. /\ UNCHANGED <<fx, built, reached>> /\ started > 0 /\ started' = started - 1
      /\ fx \in {"stopping", "rollback"}
  BY DEF OnStop, Stopping, At
<1>4. pmDown \/ client = "nil" => pmDown' \/ client' = "nil"
  BY DEF OnStop, HookStops, ServerShutdown, CloseClient, ShutdownUnconnected, Shutdown,
         producerVars
<1>5. built[started] = Manager => pmDown' \/ client' = "nil"
  BY DEF OnStop, HookStops, Manager, ShutdownUnconnected, Shutdown, producerVars
<1>6. StoppedManager'
  <2>1. ASSUME NEW i \in 1..Len(built), started - 1 < i, i <= reached, built[i] = Manager
        PROVE  pmDown' \/ client' = "nil"
    <3>1. i = started \/ started < i
      BY <1>2, <2>1
    <3> QED BY <1>1, <1>4, <1>5, <2>1, <3>1 DEF StoppedManager
  <2> QED BY <2>1, <1>3 DEF StoppedManager
<1>7. HolderFirst' /\ Together'
  BY <1>1, <1>3 DEF HolderFirst, Together
<1> QED BY <1>6, <1>7

LEMMA HooksSteps == HooksInv /\ [Next]_vars => HooksInv'
<1> SUFFICES ASSUME HooksInv, [Next]_vars PROVE HooksInv'
  OBVIOUS
<1>1. FxTypeOK /\ HolderFirst /\ Together /\ StoppedManager
  BY DEF HooksInv
<1>2. FxTypeOK'
  <2>1. CASE Next
    BY <1>1, <2>1, FxSteps
  <2>2. CASE UNCHANGED vars
    BY <1>1, <2>2 DEF vars, fxVars, FxTypeOK, NoDuplicates
  <2> QED BY <2>1, <2>2
<1>3. /\ Len(built) \in Nat /\ started \in Nat /\ reached \in Nat
      /\ started <= reached /\ reached <= Len(built)
  BY <1>1, LenBuilt
<1>4. CASE \E c \in Constructors : Construct(c)
  BY <1>2, <1>4, ConstructHooks DEF HooksInv
<1>5. CASE OnStop
  BY <1>2, <1>5, OnStopHooks DEF HooksInv
<1>6. CASE OnStart
  <2>1. /\ UNCHANGED <<fx, built>> /\ started' = started + 1 /\ reached' = started + 1
    BY <1>6 DEF OnStart
  <2> QED BY <1>1, <1>2, <1>3, <2>1 DEF HooksInv, HolderFirst, Together, StoppedManager
<1>7. CASE Application
  <2>1. started = reached /\ UNCHANGED <<fx, built, started, reached>>
    BY <1>1, <1>7 DEF Application, Settled, Together
  <2> QED BY <1>1, <1>2, <1>3, <2>1 DEF HooksInv, HolderFirst, Together, StoppedManager
<1>8. ASSUME UNCHANGED <<built, started, reached, client, pmDown>>,
             \/ fx' = fx
             \/ fx' \notin {"setup", "building", "invoking", "starting", "running"}
             \/ fx \in {"setup", "building", "invoking", "starting", "running"}
      PROVE  HooksInv'
  BY <1>1, <1>2, <1>8 DEF HooksInv, HolderFirst, Together, StoppedManager
<1>9. CASE Setup \/ UNCHANGED vars
  BY <1>8, <1>9 DEF Setup, vars, fxVars, producerVars
<1>10. CASE \E c \in Callers : Caller(c)
  BY <1>8, <1>10, CallerKeepsClient DEF Caller, fxVars
<1>11. CASE (\E a \in Apps : Run(a)) \/ Signal \/ StopTimeout
  BY <1>8, <1>11 DEF Run, Signal, StopTimeout, At, Goto, producerVars
<1>12. CASE \/ Misfit \/ Invoke \/ InvokeReturns \/ OnStartFails \/ AllStarted
            \/ OnStopPanics \/ Exit
  BY <1>8, <1>12 DEF Misfit, Invoke, InvokeReturns, OnStartFails, AllStarted,
       OnStopPanics, Exit, At, Goto, producerVars
<1> QED BY <1>4, <1>5, <1>6, <1>7, <1>9, <1>10, <1>11, <1>12 DEF Next, Lifecycle

LEMMA HooksInvariance == Spec => []HooksInv
<1>1. Init => HooksInv
  <2>1. Init => FxTypeOK
    BY InitTypes
  <2>2. Init => HolderFirst /\ Together /\ StoppedManager
    BY DEF Init, HolderFirst, Together, StoppedManager
  <2> QED BY <2>1, <2>2 DEF HooksInv
<1> QED BY <1>1, HooksSteps, PTL DEF Spec

\* The manager closes its producers before the client under them is closed,
\* whatever else the application is built from (producer.go:118, pulsar.go:61).
THEOREM ManagerStopsFirstCorrect == Spec => ManagerStopsFirst
<1>3. HooksInv /\ Next =>
        (client = "open" /\ client' = "closed" => pmDown \/ Before(Manager) = {})
  <2> SUFFICES ASSUME HooksInv, Next, client = "open", client' = "closed",
                      NEW i \in Before(Manager)
               PROVE  pmDown
    BY DEF HooksInv
  <2>1. FxTypeOK /\ HolderFirst /\ Together /\ StoppedManager
    BY DEF HooksInv
  <2>2. /\ Len(built) \in Nat /\ DOMAIN built = 1..Len(built)
        /\ started \in Nat /\ reached \in Nat /\ started <= reached /\ reached <= Len(built)
    BY <2>1, LenBuilt
  <2>3. started > 0 /\ built[started] = Holder
    <3>1. OnStop
      <4>1. ~Application
        BY DEF Application, ConnectClient, Connect, producerVars
      <4>2. ~\E c \in Callers : Caller(c)
        BY CallerKeepsClient DEF Caller
      <4>3. ~(Setup \/ (\E a \in Apps : Run(a)) \/ Signal \/ StopTimeout)
        BY DEF Setup, Run, Signal, StopTimeout, producerVars
      <4>4. ~(\/ Misfit \/ (\E c \in Constructors : Construct(c)) \/ Invoke
              \/ InvokeReturns \/ OnStart \/ OnStartFails \/ AllStarted
              \/ OnStopPanics \/ Exit)
        BY DEF Misfit, Construct, Invoke, InvokeReturns, OnStart, OnStartFails,
               AllStarted, OnStopPanics, Exit, producerVars
      <4> QED BY <4>1, <4>2, <4>3, <4>4 DEF Next, Lifecycle
    <3> QED BY <3>1 DEF OnStop, HookStops, Shutdown, ShutdownUnconnected, producerVars,
                        Holder
  <2>4. i \in 1..Len(built) /\ built[i] = Manager /\ i <= reached
    BY <2>2 DEF Before
  <2>5. PICK j \in 1..Len(built) : j < i /\ built[j] = Holder
    BY <2>1, <2>4 DEF HolderFirst
  <2>6. j = started
    BY <2>1, <2>2, <2>3, <2>5 DEF FxTypeOK, NoDuplicates
  <2> QED BY <2>1, <2>2, <2>4, <2>5, <2>6 DEF StoppedManager
<1>4. HooksInv /\ [Next]_vars =>
        [client = "open" /\ client' = "closed" => pmDown \/ Before(Manager) = {}]_vars
  BY <1>3
<1> QED BY HooksInvariance, <1>4, PTL DEF Spec, ManagerStopsFirst, Manager

-----------------------------------------------------------------------------
\* Why nothing is left behind.  A holder whose hook has run has closed its
\* client (StoppedHolder), and with it every producer (ClosedIsEmpty); the
\* process exits once every hook has run (ExitedStopped).  A profiler that
\* nobody started by hand is the one the agent holds, and the agent's hook is
\* still to be stopped (ProfilerHeld).

Agent == "NewPyroscopeAgent"

StoppedHolder ==
  \A i \in 1..Len(built) :
    started < i /\ i <= reached /\ built[i] = Holder => client = "closed"
ExitedStopped == fx = "exited" => started = 0
ProfilerHeld ==
  profiling # {} =>
    /\ profiling \subseteq {profile}
    /\ \E i \in 1..Len(built) : i <= started /\ built[i] = Agent

LeftInv == StoppedHolder /\ ExitedStopped /\ (byHand \/ ProfilerHeld)

\* The steps of fx and of the application that stop and start no hook.
LEMMA QuietLeft ==
  ASSUME HooksInv, LeftInv, UNCHANGED <<built, started, reached>>,
         client = "closed" => client' = "closed",
         (UNCHANGED byHand /\ UNCHANGED <<profile, profiling>>) \/ byHand' = TRUE,
         fx' = "exited" => fx = "exited" \/ started = 0
  PROVE  LeftInv'
<1>1. StoppedHolder'
  BY DEF LeftInv, StoppedHolder
<1>2. ExitedStopped'
  BY DEF LeftInv, ExitedStopped
<1>3. CASE byHand' = TRUE
  BY <1>1, <1>2, <1>3 DEF LeftInv
<1>4. CASE UNCHANGED byHand /\ UNCHANGED <<profile, profiling>>
  <2>1. ProfilerHeld => ProfilerHeld'
    BY <1>4 DEF ProfilerHeld
  <2> QED BY <1>1, <1>2, <1>4, <2>1 DEF LeftInv
<1> QED BY <1>3, <1>4

LEMMA ConstructLeft ==
  ASSUME HooksInv, LeftInv, NEW c \in Constructors, Construct(c)
  PROVE  LeftInv'
<1>1. FxTypeOK
  BY DEF HooksInv
<1>2. Len(built) \in Nat /\ started \in Nat /\ reached \in Nat /\ reached <= Len(built)
  BY <1>1, LenBuilt
<1>3. /\ Len(built') = Len(built) + 1
      /\ \A i \in 1..Len(built) : built'[i] = built[i]
  BY <1>1, ConstructTypes
<1>4. UNCHANGED <<fx, started, reached, byHand, client, profile, profiling>>
  BY DEF Construct, producerVars, agentVars
<1>5. StoppedHolder'
  <2>1. ASSUME NEW i \in 1..(Len(built) + 1), started < i, i <= reached,
               built'[i] = Holder
        PROVE  client = "closed"
    <3>1. i \in 1..Len(built)
      BY <1>2, <2>1
    <3> QED BY <1>3, <2>1, <3>1 DEF LeftInv, StoppedHolder
  <2> QED BY <2>1, <1>3, <1>4 DEF StoppedHolder
<1>6. ExitedStopped'
  BY <1>4 DEF LeftInv, ExitedStopped
<1>7. ProfilerHeld => ProfilerHeld'
  <2> SUFFICES ASSUME ProfilerHeld, profiling # {}
               PROVE  \E i \in 1..Len(built') : i <= started /\ built'[i] = Agent
    BY <1>4 DEF ProfilerHeld
  <2>1. PICK i \in 1..Len(built) : i <= started /\ built[i] = Agent
    BY DEF ProfilerHeld
  <2>2. i \in 1..Len(built') /\ built'[i] = Agent
    BY <1>2, <1>3, <2>1
  <2> QED BY <2>1, <2>2
<1> QED BY <1>4, <1>5, <1>6, <1>7 DEF LeftInv

LEMMA OnStartLeft ==
  ASSUME HooksInv, LeftInv, AgentTypeOK, OnStart
  PROVE  LeftInv'
<1>1. FxTypeOK /\ Together
  BY DEF HooksInv
<1>2. /\ Len(built) \in Nat /\ started \in Nat /\ started < Len(built)
      /\ \A i, j \in 1..Len(built) : built[i] = built[j] => i = j
  BY <1>1, LenBuilt DEF OnStart, FxTypeOK, NoDuplicates
<1>3. /\ fx = "starting" /\ started = reached
      /\ started' = started + 1 /\ reached' = started + 1
      /\ UNCHANGED <<fx, built, client>>
  BY <1>1 DEF OnStart, At, Together, producerVars
<1>4. UNCHANGED byHand
  BY DEF OnStart
<1>5. StoppedHolder' /\ ExitedStopped'
  BY <1>2, <1>3 DEF StoppedHolder, ExitedStopped
<1>6. ProfilerHeld => ProfilerHeld'
  <2> SUFFICES ASSUME ProfilerHeld PROVE ProfilerHeld'
    OBVIOUS
  <2>1. CASE built[started + 1] = Agent /\ StartRuns
    <3>1. profiling = {}
      BY <1>2, <2>1 DEF ProfilerHeld
    <3>2. profiling' = {profile'}
      BY <2>1, <3>1 DEF StartRuns
    <3> QED BY <1>2, <1>3, <2>1, <3>2 DEF ProfilerHeld
  <2>2. CASE UNCHANGED agentVars
    <3>1. UNCHANGED <<profile, profiling>>
      BY <2>2 DEF agentVars
    <3> QED BY <1>2, <1>3, <3>1 DEF ProfilerHeld
  <2> QED BY <2>1, <2>2 DEF OnStart, Start, StartDisabled, Agent
<1> QED BY <1>4, <1>5, <1>6 DEF LeftInv

LEMMA OnStopLeft ==
  ASSUME HooksInv, LeftInv, OnStop
  PROVE  LeftInv'
<1>1. FxTypeOK
  BY DEF HooksInv
<1>2. /\ Len(built) \in Nat /\ started \in Nat /\ reached \in Nat
      /\ started > 0 /\ started <= Len(built)
      /\ \A i, j \in 1..Len(built) : built[i] = built[j] => i = j
  BY <1>1, LenBuilt DEF OnStop, FxTypeOK, NoDuplicates
<1>3. /\ UNCHANGED <<fx, built, reached>> /\ started' = started - 1
      /\ fx # "exited" /\ HookStops(built[started])
  BY DEF OnStop, Stopping, At
<1>4. UNCHANGED byHand
  BY DEF OnStop
<1>5. ExitedStopped'
  BY <1>3 DEF ExitedStopped
<1>6. StoppedHolder'
  <2>1. client = "closed" => client' = "closed"
    BY <1>3 DEF HookStops, ServerShutdown, CloseClient, ShutdownUnconnected, Shutdown,
                producerVars
  <2>2. built[started] = Holder => client' = "closed"
    BY <1>3 DEF HookStops, Holder, ServerShutdown, CloseClient
  <2>3. ASSUME NEW i \in 1..Len(built), started - 1 < i, i <= reached, built[i] = Holder
        PROVE  client' = "closed"
    <3>1. i = started \/ started < i
      BY <1>2, <2>3
    <3> QED BY <2>1, <2>2, <2>3, <3>1 DEF LeftInv, StoppedHolder
  <2> QED BY <2>3, <1>3 DEF StoppedHolder
<1>7. ProfilerHeld => ProfilerHeld'
  <2> SUFFICES ASSUME ProfilerHeld, profiling' # {} PROVE ProfilerHeld'
    BY DEF ProfilerHeld
  <2>1. CASE built[started] = Agent
    <3>1. Stop
      BY <1>3, <2>1 DEF HookStops, Agent
    <3>2. profiling \subseteq {profile}
      BY DEF ProfilerHeld
    <3>3. profiling' = {}
      BY <3>1, <3>2 DEF Stop
    <3> QED BY <3>3
  <2>2. CASE built[started] # Agent
    <3>1. UNCHANGED <<profile, profiling>>
      BY <1>3, <2>2 DEF HookStops, Agent, agentVars
    <3>2. PICK i \in 1..Len(built) : i <= started /\ built[i] = Agent
      BY <3>1 DEF ProfilerHeld
    <3>3. i <= started - 1
      BY <1>2, <2>2, <3>2
    <3> QED BY <1>3, <3>1, <3>2, <3>3 DEF ProfilerHeld
  <2> QED BY <2>1, <2>2
<1> QED BY <1>4, <1>5, <1>6, <1>7 DEF LeftInv

LEMMA LeftSteps ==
  HooksInv /\ AgentTypeOK /\ LeftInv /\ [Next]_vars => LeftInv'
<1> SUFFICES ASSUME HooksInv, AgentTypeOK, LeftInv, [Next]_vars PROVE LeftInv'
  OBVIOUS
<1>1. CASE \E c \in Constructors : Construct(c)
  BY <1>1, ConstructLeft
<1>2. CASE OnStart
  BY <1>2, OnStartLeft
<1>3. CASE OnStop
  BY <1>3, OnStopLeft
<1>4. CASE Application
  <2>1. /\ UNCHANGED <<fx, built, started, reached>>
        /\ client = "closed" => client' = "closed"
    BY <1>4 DEF Application, ConnectClient, Connect, producerVars
  <2>2. (UNCHANGED byHand /\ UNCHANGED <<profile, profiling>>) \/ byHand' = TRUE
    BY <1>4 DEF Application, Configure, agentVars
  <2> QED BY <2>1, <2>2, QuietLeft
<1>5. ASSUME UNCHANGED <<built, started, reached, client, profile, profiling>>,
             UNCHANGED byHand,
             fx' = "exited" => fx = "exited" \/ started = 0
      PROVE  LeftInv'
  BY <1>5, QuietLeft
<1>6. CASE Setup \/ UNCHANGED vars
  BY <1>5, <1>6 DEF Setup, vars, fxVars, agentVars, producerVars
<1>7. CASE \E c \in Callers : Caller(c)
  BY <1>5, <1>7, CallerKeepsClient DEF Caller, fxVars, agentVars
<1>8. CASE (\E a \in Apps : Run(a)) \/ Signal \/ StopTimeout
  BY <1>5, <1>8 DEF Run, Signal, StopTimeout, At, Goto, producerVars, agentVars
<1>9. CASE OnStartFails
  BY <1>5, <1>9 DEF OnStartFails, StartFails, Goto, producerVars, agentVars
<1>10. CASE \/ Misfit \/ Invoke \/ InvokeReturns \/ AllStarted \/ OnStopPanics \/ Exit
  BY <1>5, <1>10 DEF Misfit, Invoke, InvokeReturns, AllStarted, OnStopPanics, Exit, At,
       Goto, producerVars, agentVars
<1> QED BY <1>1, <1>2, <1>3, <1>4, <1>6, <1>7, <1>8, <1>9, <1>10 DEF Next, Lifecycle

\* A process that exits in good order leaves no producer open once the holder's
\* hook was reached, and no profiler but one that was started by hand, whatever
\* else it is built from (pulsar.go:61-63, pyroscope.go:77, 81-88).
THEOREM NothingLeftBehindCorrect == Spec => []NothingLeftBehind
<1>1. Init => LeftInv
  <2>1. Init => StoppedHolder /\ ExitedStopped /\ ProfilerHeld
    BY DEF Init, AgentInit, StoppedHolder, ExitedStopped, ProfilerHeld
  <2> QED BY <2>1 DEF LeftInv
<1>2. Spec => []LeftInv
  BY <1>1, LeftSteps, HooksInvariance, FxTypes, PTL DEF Spec
<1>3. HooksInv /\ LeftInv /\ OpenInv => NothingLeftBehind
  <2> SUFFICES ASSUME HooksInv, LeftInv, OpenInv, fx = "exited"
               PROVE  /\ open # {} => Before(Holder) = {}
                      /\ profiling # {} => byHand
    BY DEF NothingLeftBehind, Holder
  <2>1. started = 0
    BY DEF LeftInv, ExitedStopped
  <2>2. ASSUME open # {}, NEW i \in Before(Holder) PROVE FALSE
    <3>1. i \in 1..Len(built) /\ built[i] = Holder /\ i <= reached
      BY <2>2, LenBuilt DEF Before, HooksInv
    <3>2. started < i
      BY <2>1, <3>1
    <3>3. client = "closed"
      BY <3>1, <3>2 DEF LeftInv, StoppedHolder
    <3> QED BY <2>2, <3>3 DEF OpenInv, ClosedIsEmpty
  <2>3. profiling # {} => byHand
    <3>1. ProfilerHeld => profiling = {}
      BY <2>1 DEF ProfilerHeld
    <3> QED BY <3>1 DEF LeftInv
  <2> QED BY <2>2, <2>3
<1> QED BY <1>2, <1>3, HooksInvariance, ImplementsProducer, OpenInvariance, PTL
=============================================================================
