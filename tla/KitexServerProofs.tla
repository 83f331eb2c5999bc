------------------------- MODULE KitexServerProofs -------------------------
(***************************************************************************)
(* Safety of KitexServer for any calls.                                    *)
(***************************************************************************)
EXTENDS KitexServer, TLAPS

\* The counter, the poller and the channel go with the lifecycle: nothing is
\* in the channel before the signal, and a poll that goes on is counted.
LifecycleInv ==
    /\ fx = "invoke" => run = "none" /\ poller = "none" /\ kitexExit = 0
    /\ fx = "invoke" /\ process = "up" => wg = 0
    /\ fx = "invoke" => \A c \in Calls : call[c] = "none" /\ pos[c] = 0
    /\ fx \in {"running", "signal"} =>
        poller = "none" /\ wg = 1 /\ kitexExit = 0
    /\ fx \in {"wait", "stopped"} => poller # "none"
    /\ poller = "polling" => wg = 1

\* How far the endpoint's goroutine is tells what it has left behind.
EndpointInv(c) ==
    /\ call[c] \in {"none", "down"} => endpoint[c] = "none"
    /\ endpoint[c] \in {"none", "running"} => sent[c] = "none" /\ ~written[c]
    /\ endpoint[c] = "returning" => sent[c] = "none" /\ written[c]
    /\ endpoint[c] = "gone" => sent[c] # "none"
    /\ sent[c] = "ok" => written[c] /\ endpoint[c] = "gone"
    /\ sent[c] = "error" => ~written[c] /\ endpoint[c] = "gone"

AnswerInv(c) ==
    call[c] \in {"up", "answered"} =>
        \/ answer[c] = "ok" /\ sent[c] = "ok"
        \/ answer[c] = "error" /\ sent[c] = "error"
        \/ answer[c] = "deadline" /\ expired[c]

\* Where a call is in the chain tells who knows its trace id and who has
\* written about it.
PlaceInv(c) ==
    /\ call[c] \in {"none", "answered"} => pos[c] = 0
    /\ call[c] = "down" => pos[c] > 0
    /\ call[c] = "select" => pos[c] = Len(chain)
    /\ call[c] = "up" => pos[c] < Len(chain)

TracedInv(c) ==
    call[c] # "none" =>
        \A i \in 1..(Len(chain) - 1) :
            (call[c] = "down" => i < pos[c]) => chain[i] \in traced[c]

NoticedInv(c) ==
    /\ call[c] \notin {"up", "answered"} =>
        \A o \in Observers : noticed[c][o] = "none"
    /\ call[c] \in {"up", "answered"} =>
        \A i \in 1..Len(chain) : chain[i] \in Observers =>
            noticed[c][chain[i]] =
                IF i > pos[c] /\ Writes(chain[i], answer[c]) THEN answer[c] ELSE "none"

WalkInv(c) == PlaceInv(c) /\ TracedInv(c) /\ NoticedInv(c)

CallInv(c) == EndpointInv(c) /\ AnswerInv(c) /\ WalkInv(c)

\* Both chains begin with the trace id, have only observers between it and the
\* deadline, which is last, and each only once.
ChainFacts(ms) ==
    /\ Len(ms) \in Nat /\ Len(ms) > 1
    /\ ms[1] = "trace_id" /\ ms[Len(ms)] = "deadline"
    /\ \A i \in 1..Len(ms) : i # 1 /\ i # Len(ms) => ms[i] \in Observers
    /\ \A i, j \in 1..Len(ms) : ms[i] = ms[j] => i = j

LEMMA Chains == ChainFacts(Default) /\ ChainFacts(Newrelic)
  <1>1. /\ Len(Default) = 3 /\ Default[1] = "trace_id" /\ Default[2] = "request_log"
        /\ Default[3] = "deadline"
    BY DEF Default
  <1>2. ChainFacts(Default)
    BY <1>1 DEF ChainFacts, Observers
  <1>3. /\ Len(Newrelic) = 4 /\ Newrelic[1] = "trace_id"
        /\ Newrelic[2] = "request_log" /\ Newrelic[3] = "newrelic"
        /\ Newrelic[4] = "deadline"
    BY DEF Newrelic
  <1>4. ChainFacts(Newrelic)
    BY <1>3 DEF ChainFacts, Observers
  <1> QED
    BY <1>2, <1>4

Inv ==
    /\ TypeOK /\ LifecycleInv /\ StopAwaitsServer
    /\ \A c \in Calls : CallInv(c)

LEMMA InitInv == Init => Inv
  <1> SUFFICES ASSUME Init PROVE Inv
    OBVIOUS
  <1>1. TypeOK
    <2>1. kitexExit \in 0..1 /\ wg \in 0..1
      BY DEF Init
    <2>2. /\ expired \in [Calls -> BOOLEAN] /\ written \in [Calls -> BOOLEAN]
          /\ configured \in BOOLEAN /\ svr \in BOOLEAN
      BY Zenon DEF Init
    <2>3. pos \in [Calls -> 0..Len(chain)]
      BY Chains DEF Init, ChainFacts
    <2>4. noticed \in [Calls -> [Observers -> Answers]]
      BY DEF Init, Answers
    <2> QED
      BY <2>1, <2>2, <2>3, <2>4 DEF Init, TypeOK, Answers
  <1>2. LifecycleInv /\ StopAwaitsServer
    BY DEF Init, LifecycleInv, StopAwaitsServer
  <1>3. ASSUME NEW c \in Calls PROVE CallInv(c)
    BY DEF Init, CallInv, EndpointInv, AnswerInv, WalkInv, PlaceInv, TracedInv,
           NoticedInv
  <1> QED
    BY <1>1, <1>2, <1>3 DEF Inv

-----------------------------------------------------------------------------
\* The lifecycle and kitex leave the calls alone.
LEMMA CallsKept ==
    ASSUME Inv, UNCHANGED calls, UNCHANGED chain
    PROVE  \A c \in Calls : CallInv(c)'
  BY DEF Inv, CallInv, EndpointInv, AnswerInv, WalkInv, PlaceInv, TracedInv,
         NoticedInv, calls, walk

\* What a call knows before its first step is nothing, whatever the chain.
LEMMA ConfigureSteps ==
    ASSUME Inv, process = "up", Configure
    PROVE  Inv'
  <1>1. /\ UNCHANGED <<process, fx, wg, poller, middlewares, run, svr>>
        /\ UNCHANGED calls
        /\ configured' = TRUE /\ kitexExit' = 0 /\ chain' = middlewares
        /\ fx = "invoke"
    BY DEF Configure, kitex
  <1>2. \A c \in Calls : call[c] = "none" /\ pos[c] = 0
    BY <1>1 DEF Inv, LifecycleInv
  <1>3. chain' \in {Default, Newrelic} /\ ChainFacts(chain')
    BY <1>1, Chains DEF Inv, TypeOK
  <1>4. pos' \in [Calls -> 0..Len(chain')]
    BY <1>1, <1>2, <1>3 DEF Inv, TypeOK, ChainFacts, calls, walk
  <1>5. TypeOK'
    BY <1>1, <1>3, <1>4 DEF Inv, TypeOK, calls, walk
  <1>6. LifecycleInv' /\ StopAwaitsServer'
    BY <1>1 DEF Inv, LifecycleInv, StopAwaitsServer, calls, walk
  <1>7. ASSUME NEW c \in Calls PROVE CallInv(c)'
    BY <1>1, <1>2 DEF Inv, CallInv, EndpointInv, AnswerInv, WalkInv, PlaceInv,
                      TracedInv, NoticedInv, calls, walk
  <1> QED
    BY <1>5, <1>6, <1>7 DEF Inv

\* They keep the types and what ties them to each other.
LEMMA LifecycleSteps ==
    ASSUME Inv, process = "up", Lifecycle \/ Run \/ RunStops
    PROVE  Inv'
  <1>0. CASE Configure
    BY <1>0, ConfigureSteps
  <1> SUFFICES ASSUME ~Configure PROVE Inv'
    BY <1>0
  <1> USE DEF Inv, TypeOK, LifecycleInv, StopAwaitsServer, kitex, lifecycle, chosen
  <1>1. UNCHANGED calls /\ UNCHANGED chain
    BY DEF Lifecycle, SetMiddlewares, OnStart, OnStop, Signal, Poll, Bye, Exit, Run,
           RunFails, RunSetsSvr, RunCannotListen, RunServes, RunReceivesExit,
           RunStops, RunReturns, Goto
  <1>2. \A c \in Calls : CallInv(c)'
    BY <1>1, CallsKept
  <1>3. CASE SetMiddlewares
    BY <1>1, <1>2, <1>3 DEF SetMiddlewares, calls, walk
  <1>4. CASE OnStart
    BY <1>1, <1>2, <1>4 DEF OnStart, calls, walk
  <1>5. CASE OnStop
    BY <1>1, <1>2, <1>5 DEF OnStop, calls, walk
  <1>6. CASE Signal
    BY <1>1, <1>2, <1>6 DEF Signal, calls, walk
  <1>7. CASE Poll
    BY <1>1, <1>2, <1>7 DEF Poll, calls, walk
  <1>8. CASE Bye
    BY <1>1, <1>2, <1>8 DEF Bye, calls, walk
  <1>9. CASE Exit
    BY <1>1, <1>2, <1>9 DEF Exit, calls, walk
  <1>10. CASE RunFails \/ RunSetsSvr \/ RunCannotListen \/ RunServes
    BY <1>1, <1>2, <1>10
       DEF RunFails, RunSetsSvr, RunCannotListen, RunServes, Goto, calls, walk
  <1>11. CASE RunReceivesExit
    BY <1>1, <1>2, <1>11 DEF RunReceivesExit, calls, walk
  <1>12. CASE RunStops \/ RunReturns
    BY <1>1, <1>2, <1>12 DEF RunStops, RunReturns, Goto, calls, walk
  <1> QED
    BY <1>3, <1>4, <1>5, <1>6, <1>7, <1>8, <1>9, <1>10, <1>11, <1>12
       DEF Lifecycle, Run

-----------------------------------------------------------------------------
\* A step of a call leaves the lifecycle, kitex and the other calls alone.
LEMMA CallTypes ==
    ASSUME Inv, NEW c \in Calls, CallStep(c)
    PROVE  TypeOK'
  <1>0. TypeOK /\ PlaceInv(c) /\ ChainFacts(chain)
    BY Chains DEF Inv, CallInv, WalkInv, TypeOK
  <1>1. UNCHANGED lifecycle /\ UNCHANGED kitex /\ UNCHANGED chosen
    BY DEF CallStep, Request, Expire, Middlewares, Forward, Spawn, SelectResult,
           SelectDone, Up, Answer, AnswerWith, EndpointWrites, EndpointReturns
  <1>2. pos \in [Calls -> 0..Len(chain)] /\ Len(chain) \in Nat /\ Len(chain) > 1
    BY <1>0 DEF TypeOK, ChainFacts
  <1>3. pos' \in [Calls -> 0..Len(chain)]
    <2>1. CASE Request(c)
      BY <1>2, <2>1 DEF Request
    <2>2. CASE Forward(c)
      <3>1. pos[c] # Len(chain) /\ pos[c] \in 0..Len(chain)
        BY <1>0, <1>2, <2>2 DEF Forward, ChainFacts
      <3> QED
        BY <1>2, <2>2, <3>1 DEF Forward
    <2>3. CASE SelectResult(c) \/ SelectDone(c)
      <3>1. pos[c] = Len(chain) /\ pos' = [pos EXCEPT ![c] = @ - 1]
        BY <1>0, <2>3 DEF SelectResult, SelectDone, AnswerWith, PlaceInv
      <3> QED
        BY <1>2, <3>1
    <2>4. CASE Up(c)
      BY <1>2, <2>4 DEF Up
    <2>5. CASE UNCHANGED pos
      BY <1>2, <2>5
    <2> QED
      BY <2>1, <2>2, <2>3, <2>4, <2>5
         DEF CallStep, Middlewares, Spawn, Answer, Expire, EndpointWrites,
             EndpointReturns, walk
  <1>4. noticed' \in [Calls -> [Observers -> Answers]]
    <2>1. /\ noticed \in [Calls -> [Observers -> Answers]]
          /\ answer \in [Calls -> Answers]
      BY <1>0 DEF TypeOK
    <2>2. CASE UNCHANGED noticed
      BY <2>1, <2>2
    <2>3. CASE Up(c)
      BY <2>1, <2>3 DEF Up
    <2> QED
      BY <2>2, <2>3
         DEF CallStep, Middlewares, Request, Forward, Spawn, SelectResult, SelectDone,
             AnswerWith, Answer, Expire, EndpointWrites, EndpointReturns, walk
  <1>5. traced' \in [Calls -> SUBSET ({"trace_id"} \union Observers)]
    <2>1. traced \in [Calls -> SUBSET ({"trace_id"} \union Observers)]
      BY <1>0 DEF TypeOK
    <2>2. CASE UNCHANGED traced
      BY <2>1, <2>2
    <2>3. CASE Forward(c)
      <3>1. pos[c] \in 1..Len(chain)
        BY <1>0, <1>2, <2>3 DEF Forward, PlaceInv
      <3>2. chain[pos[c]] \in {"trace_id"} \union Observers
        BY <1>0, <2>3, <3>1 DEF Forward, ChainFacts
      <3> QED
        BY <2>1, <2>3, <3>2 DEF Forward
    <2> QED
      BY <2>2, <2>3
         DEF CallStep, Middlewares, Request, Up, Spawn, SelectResult, SelectDone,
             AnswerWith, Answer, Expire, EndpointWrites, EndpointReturns, walk
  <1>6. /\ expired' \in [Calls -> BOOLEAN] /\ written' \in [Calls -> BOOLEAN]
        /\ call' \in [Calls -> {"none", "down", "select", "up", "answered"}]
        /\ endpoint' \in [Calls -> {"none", "running", "returning", "gone"}]
        /\ sent' \in [Calls -> {"none", "ok", "error"}]
        /\ answer' \in [Calls -> Answers]
    <2> USE <1>0 DEF TypeOK, walk, Answers
    <2>1. CASE Request(c) \/ Spawn(c)
      BY <2>1 DEF Request, Spawn
    <2>2. CASE Forward(c)
      BY <2>2 DEF Forward
    <2>3. CASE SelectResult(c)
      BY <2>3 DEF SelectResult, AnswerWith
    <2>4. CASE SelectDone(c)
      BY <2>4 DEF SelectDone, AnswerWith
    <2>5. CASE Up(c) \/ Answer(c)
      BY <2>5 DEF Up, Answer
    <2>6. CASE Expire(c)
      BY <2>6 DEF Expire
    <2>7. CASE EndpointWrites(c)
      BY <2>7 DEF EndpointWrites
    <2>8. CASE EndpointReturns(c)
      BY <2>8 DEF EndpointReturns
    <2> QED
      BY <2>1, <2>2, <2>3, <2>4, <2>5, <2>6, <2>7, <2>8 DEF CallStep, Middlewares
  <1> QED
    BY <1>0, <1>1, <1>3, <1>4, <1>5, <1>6 DEF TypeOK, lifecycle, kitex, chosen

Untouched(d) ==
    /\ call'[d] = call[d] /\ pos'[d] = pos[d] /\ traced'[d] = traced[d]
    /\ noticed'[d] = noticed[d] /\ endpoint'[d] = endpoint[d]
    /\ sent'[d] = sent[d] /\ expired'[d] = expired[d]
    /\ written'[d] = written[d] /\ answer'[d] = answer[d]

LEMMA OthersKept ==
    ASSUME Inv, NEW c \in Calls, CallStep(c), NEW d \in Calls, d # c
    PROVE  Untouched(d)
  <1>0. TypeOK
    BY DEF Inv
  <1> QED
    BY <1>0 DEF TypeOK, Untouched, CallStep, Middlewares, Request, Forward, Spawn,
           SelectResult, SelectDone, AnswerWith, Up, Answer, Expire, EndpointWrites,
           EndpointReturns, walk

LEMMA EndpointSteps ==
    ASSUME Inv, NEW c \in Calls, CallStep(c)
    PROVE  EndpointInv(c)' /\ AnswerInv(c)'
  <1> USE DEF EndpointInv, AnswerInv, TypeOK, walk
  <1>0. TypeOK /\ EndpointInv(c) /\ AnswerInv(c)
    BY DEF Inv, CallInv
  <1>1. CASE Request(c)
    BY <1>0, <1>1 DEF Request
  <1>2. CASE Forward(c) \/ Up(c) \/ Answer(c)
    BY <1>0, <1>2 DEF Forward, Up, Answer
  <1>3. CASE Spawn(c)
    BY <1>0, <1>3 DEF Spawn
  <1>4. CASE SelectResult(c)
    BY <1>0, <1>4 DEF SelectResult, AnswerWith
  <1>5. CASE SelectDone(c)
    BY <1>0, <1>5 DEF SelectDone, AnswerWith
  <1>6. CASE Expire(c)
    BY <1>0, <1>6 DEF Expire
  <1>7. CASE EndpointWrites(c)
    BY <1>0, <1>7 DEF EndpointWrites
  <1>8. CASE EndpointReturns(c)
    BY <1>0, <1>8 DEF EndpointReturns
  <1> QED
    BY <1>1, <1>2, <1>3, <1>4, <1>5, <1>6, <1>7, <1>8 DEF CallStep, Middlewares

LEMMA WalkSteps ==
    ASSUME Inv, NEW c \in Calls, CallStep(c)
    PROVE  WalkInv(c)'
  <1> USE DEF WalkInv, PlaceInv, TracedInv, NoticedInv
  <1>0. WalkInv(c) /\ ChainFacts(chain)
    BY Chains DEF Inv, TypeOK, CallInv
  <1>1. /\ call \in [Calls -> {"none", "down", "select", "up", "answered"}]
        /\ pos \in [Calls -> 0..Len(chain)]
        /\ traced \in [Calls -> SUBSET ({"trace_id"} \union Observers)]
        /\ noticed \in [Calls -> [Observers -> Answers]]
        /\ answer \in [Calls -> Answers]
    BY DEF Inv, TypeOK
  <1>2. Len(chain) \in Nat /\ Len(chain) > 1 /\ pos[c] \in 0..Len(chain)
    BY <1>0, <1>1 DEF ChainFacts
  <1>3. UNCHANGED chain
    BY DEF chosen, CallStep, Request, Expire, Middlewares, Forward, Spawn, SelectResult,
           SelectDone, Up, Answer, AnswerWith, EndpointWrites, EndpointReturns
  <1>4. CASE Request(c)
    BY <1>0, <1>1, <1>2, <1>3, <1>4 DEF Request
  <1>5. CASE Forward(c)
    <2>1. pos[c] \in 1..(Len(chain) - 1)
      BY <1>0, <1>2, <1>5 DEF Forward, ChainFacts
    <2>2. chain[pos[c]] = "trace_id" \/ "trace_id" \in traced[c]
      BY <1>0, <1>2, <1>5, <2>1 DEF Forward, ChainFacts
    <2>3. traced' = [traced EXCEPT ![c] = @ \union {chain[pos[c]]}]
      BY <1>5, <2>2 DEF Forward
    <2>4. /\ pos' = [pos EXCEPT ![c] = @ + 1] /\ UNCHANGED <<call, noticed, answer>>
          /\ call[c] = "down"
      BY <1>5 DEF Forward
    <2> QED
      BY <1>0, <1>1, <1>2, <1>3, <2>1, <2>3, <2>4
  <1>6. CASE Spawn(c)
    <2>1. pos[c] = Len(chain)
      BY <1>0, <1>2, <1>6 DEF Spawn, ChainFacts
    <2> QED
      BY <1>0, <1>1, <1>2, <1>3, <1>6, <2>1 DEF Spawn
  <1>7. CASE SelectResult(c) \/ SelectDone(c)
    <2>1. /\ call[c] = "select" /\ pos[c] = Len(chain)
          /\ call' = [call EXCEPT ![c] = "up"] /\ pos' = [pos EXCEPT ![c] = @ - 1]
          /\ UNCHANGED <<traced, noticed>>
      BY <1>0, <1>7 DEF SelectResult, SelectDone, AnswerWith
    <2>2. chain[Len(chain)] \notin Observers
      BY <1>0 DEF ChainFacts, Observers
    <2>3. call'[c] = "up" /\ pos'[c] = Len(chain) - 1 /\ traced'[c] = traced[c]
          /\ noticed'[c] = noticed[c]
      BY <1>1, <1>2, <2>1
    <2>4. ASSUME NEW i \in 1..Len(chain), chain[i] \in Observers
          PROVE  noticed[c][chain[i]] = "none" /\ ~(i > pos'[c])
      BY <1>0, <1>2, <2>1, <2>2, <2>3, <2>4
    <2> QED
      BY <1>0, <1>2, <1>3, <2>1, <2>3, <2>4
  <1>8. CASE Up(c)
    <2> DEFINE m == chain[pos[c]]
    <2>1. /\ call[c] = "up" /\ pos[c] \in 1..(Len(chain) - 1)
          /\ UNCHANGED <<call, traced, answer>> /\ pos' = [pos EXCEPT ![c] = @ - 1]
          /\ noticed' = IF Writes(m, answer[c])
                        THEN [noticed EXCEPT ![c][m] = answer[c]] ELSE noticed
      BY <1>0, <1>2, <1>8 DEF Up
    <2>2. pos'[c] = pos[c] - 1
      BY <1>1, <2>1
    <2>3. ASSUME NEW i \in 1..Len(chain), chain[i] \in Observers
          PROVE  noticed'[c][chain[i]] =
                   IF i > pos'[c] /\ Writes(chain[i], answer[c]) THEN answer[c] ELSE "none"
      <3>1. CASE i = pos[c]
        <4>1. noticed[c][m] = "none" /\ m \in Observers
          BY <1>0, <1>2, <2>1, <2>3, <3>1
        <4>2. noticed'[c][m] = IF Writes(m, answer[c]) THEN answer[c] ELSE "none"
          BY <1>1, <2>1, <4>1
        <4> QED
          BY <1>2, <2>1, <2>2, <3>1, <4>2
      <3>2. CASE i # pos[c]
        <4>1. chain[i] # m
          BY <1>0, <1>2, <2>1, <3>2 DEF ChainFacts
        <4>2. noticed'[c][chain[i]] = noticed[c][chain[i]]
          BY <1>1, <2>1, <2>3, <4>1
        <4>3. i > pos'[c] <=> i > pos[c]
          BY <1>2, <2>1, <2>2, <3>2
        <4> QED
          BY <1>0, <2>1, <2>3, <4>2, <4>3
      <3> QED
        BY <3>1, <3>2
    <2> QED
      BY <1>0, <1>2, <1>3, <2>1, <2>2, <2>3
  <1>9. CASE Answer(c)
    BY <1>0, <1>1, <1>2, <1>3, <1>9 DEF Answer
  <1>10. CASE UNCHANGED <<call, pos, traced, noticed, answer>>
    BY <1>0, <1>3, <1>10
  <1> QED
    BY <1>4, <1>5, <1>6, <1>7, <1>8, <1>9, <1>10
       DEF CallStep, Middlewares, Expire, EndpointWrites, EndpointReturns, walk

LEMMA CallSteps ==
    ASSUME Inv, NEW c \in Calls, CallStep(c)
    PROVE  Inv'
  <1>1. /\ UNCHANGED lifecycle /\ UNCHANGED kitex /\ UNCHANGED chosen
    BY DEF CallStep, Request, Expire, Middlewares, Forward, Spawn, SelectResult,
           SelectDone, Up, Answer, AnswerWith, EndpointWrites, EndpointReturns
  <1>2. fx # "invoke"
    <2>1. CASE Request(c)
      BY <2>1 DEF Request, Inv, LifecycleInv
    <2>2. CASE call[c] # "none"
      BY <2>2 DEF Inv, LifecycleInv
    <2>3. CASE ~Request(c) /\ call[c] = "none"
      BY <2>3 DEF Inv, CallInv, EndpointInv, CallStep, Middlewares, Expire, Forward,
                  Spawn, SelectResult, SelectDone, Up, Answer, EndpointWrites,
                  EndpointReturns
    <2> QED
      BY <2>1, <2>2, <2>3
  <1>3. LifecycleInv' /\ StopAwaitsServer'
    BY <1>1, <1>2 DEF Inv, LifecycleInv, StopAwaitsServer, lifecycle, kitex
  <1>4. ASSUME NEW d \in Calls, d # c PROVE CallInv(d)'
    <2>1. CallInv(d) /\ Untouched(d) /\ UNCHANGED chain
      BY <1>1, <1>4, OthersKept DEF Inv, chosen
    <2> QED
      BY <2>1 DEF Untouched, CallInv, EndpointInv, AnswerInv, WalkInv, PlaceInv,
                  TracedInv, NoticedInv
  <1>5. CallInv(c)'
    BY EndpointSteps, WalkSteps DEF CallInv
  <1> QED
    BY <1>3, <1>4, <1>5, CallTypes DEF Inv

LEMMA NextInv == Inv /\ [Next]_vars => Inv'
  <1> SUFFICES ASSUME Inv, [Next]_vars PROVE Inv'
    OBVIOUS
  <1>1. CASE Next
    BY <1>1, LifecycleSteps, CallSteps DEF Next
  <1>2. CASE UNCHANGED vars
    <2>1. \A c \in Calls : CallInv(c)'
      BY <1>2, CallsKept DEF vars, chosen
    <2> QED
      BY <1>2, <2>1 DEF Inv, TypeOK, LifecycleInv, StopAwaitsServer, vars,
                        lifecycle, chosen, kitex, calls, walk
  <1> QED
    BY <1>1, <1>2

LEMMA Invariance == Spec => []Inv
  BY InitInv, NextInv, PTL DEF Spec

-----------------------------------------------------------------------------
\* Every state is of the types the code gives it; the WaitGroup's counter
\* never goes below zero, and the exit channel never holds more than its
\* buffer (kitex.go:42, 78, 94).
THEOREM TypeCorrect == Spec => []TypeOK
  <1>1. Inv => TypeOK
    BY DEF Inv
  <1> QED
    BY <1>1, Invariance, PTL

\* A server that comes up after the stop has begun finds the exit signal
\* (kitex.go:84, 93).
THEOREM StopAwaitsServerCorrect == Spec => []StopAwaitsServer
  <1>1. Inv => StopAwaitsServer
    BY DEF Inv
  <1> QED
    BY <1>1, Invariance, PTL

\* A caller is told what its endpoint did, after the endpoint has ended, or
\* that time was up, for any number of calls (timeout.go:35-50).
THEOREM AnswersFitCorrect == Spec => []AnswersFit
  <1>1. Inv => AnswersFit
    BY DEF Inv, CallInv, EndpointInv, AnswerInv, AnswersFit
  <1> QED
    BY <1>1, Invariance, PTL

\* The request log and New Relic write of a call what its caller was told, with
\* its trace id, whichever of the two chains the server was configured with
\* (request_log.go:40-44, newrelic.go:77-92, kitex_with_newrelic.go:37-42).
THEOREM ObserversAgreeCorrect == Spec => []ObserversAgree
  <1>1. Inv => ObserversAgree
    <2> SUFFICES ASSUME Inv, NEW c \in Calls, NEW o \in Observers, call[c] = "answered",
                        NEW i \in 1..Len(chain), chain[i] = o
                 PROVE  /\ noticed[c][o] = IF Writes(o, answer[c]) THEN answer[c] ELSE "none"
                        /\ o \in traced[c]
      BY DEF ObserversAgree
    <2>1. WalkInv(c) /\ ChainFacts(chain)
      BY Chains DEF Inv, TypeOK, CallInv
    <2>2. i \in 1..(Len(chain) - 1)
      BY <2>1 DEF ChainFacts, Observers
    <2>3. pos[c] = 0 /\ i > pos[c]
      BY <2>1, <2>2 DEF WalkInv, PlaceInv, ChainFacts
    <2> QED
      BY <2>1, <2>2, <2>3 DEF WalkInv, TracedInv, NoticedInv
  <1> QED
    BY <1>1, Invariance, PTL
=============================================================================
