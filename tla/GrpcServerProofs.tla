-------------------------- MODULE GrpcServerProofs --------------------------
(***************************************************************************)
(* Safety of GrpcServer for any calls and any sequence of reporters.       *)
(***************************************************************************)
EXTENDS GrpcServer, SequenceTheorems, TLAPS

\* The position of the deadline interceptor in the chain.
D == Len(Reporters) + 4

\* Three names before and three after a sequence of any length.
LEMMA Surrounded ==
    ASSUME NEW S, NEW a \in Seq(S), NEW b \in Seq(S), NEW z \in Seq(S),
           Len(a) = 3, Len(z) = 3
    PROVE  /\ Len(a \o b \o z) = Len(b) + 6
           /\ \A i \in 1..3 : (a \o b \o z)[i] = a[i]
           /\ \A i \in 1..Len(b) : (a \o b \o z)[i + 3] = b[i]
           /\ \A i \in 1..3 : (a \o b \o z)[Len(b) + 3 + i] = z[i]
  <1> DEFINE ab == a \o b
  <1>0. Len(b) \in Nat
    BY LenProperties
  <1>2. /\ ab \in Seq(S) /\ Len(ab) = Len(a) + Len(b)
        /\ \A i \in 1..(Len(a) + Len(b)) :
            ab[i] = IF i <= Len(a) THEN a[i] ELSE b[i - Len(a)]
    BY ConcatProperties, Zenon
  <1> HIDE DEF ab
  <1>1. Len(ab) = 3 + Len(b) /\ \A i \in 1..(3 + Len(b)) :
            ab[i] = IF i <= 3 THEN a[i] ELSE b[i - 3]
    BY <1>2
  <1>5a. ab \in Seq(S)
    BY <1>2
  <1>3. /\ Len(ab \o z) = Len(ab) + Len(z)
        /\ \A i \in 1..(Len(ab) + Len(z)) :
            (ab \o z)[i] = IF i <= Len(ab) THEN ab[i] ELSE z[i - Len(ab)]
    BY <1>5a, ConcatProperties, Zenon
  <1>4. /\ Len(ab \o z) = 3 + Len(b) + 3
        /\ \A i \in 1..(3 + Len(b) + 3) :
            (ab \o z)[i] = IF i <= 3 + Len(b) THEN ab[i] ELSE z[i - (3 + Len(b))]
    BY <1>1, <1>0, <1>3
  <1>5. \A i \in 1..3 : (ab \o z)[i] = a[i]
    BY <1>1, <1>0, <1>4 DEF ab
  <1>6. \A i \in 1..Len(b) : (ab \o z)[i + 3] = b[i]
    BY <1>1, <1>0, <1>4 DEF ab
  <1>7. \A i \in 1..3 : (ab \o z)[Len(b) + 3 + i] = z[i]
    BY <1>0, <1>4
  <1> QED
    BY <1>0, <1>4, <1>5, <1>6, <1>7 DEF ab

\* Where each interceptor is, whatever the preset's reporters.
LEMMA ChainFacts ==
    /\ D \in Nat /\ D >= 4 /\ Len(Chain) = D + 2
    /\ Chain[3] = "request_log" /\ Chain[D] = "deadline"
    /\ Chain[D + 1] = "recovery" /\ Chain[D + 2] = "otlp"
    /\ \A i \in 1..(D - 1) : Chain[i] \notin {"deadline", "recovery"}
    /\ \A i \in 1..Len(Reporters) : Chain[i + 3] = Reporters[i]
  <1> DEFINE Names == {"trace_id", "locale", "request_log", "newrelic",
                       "sentry", "deadline", "recovery", "otlp"}
             head == <<"trace_id", "locale", "request_log">>
             tail == <<"deadline", "recovery", "otlp">>
  <1>1. head \in Seq(Names) /\ Len(head) = 3
    OBVIOUS
  <1>2. tail \in Seq(Names) /\ Len(tail) = 3
    OBVIOUS
  <1>3. Reporters \in Seq(Names)
    BY ReportersAssumption, SeqMonotonic
  <1>4. Len(Reporters) \in Nat
    BY ReportersAssumption, LenProperties
  <1>5. \A i \in 1..Len(Reporters) : Reporters[i] \in {"newrelic", "sentry"}
    BY ReportersAssumption, ElementOfSeq
  <1>6. Chain = head \o Reporters \o tail
    BY DEF Chain
  <1>7. head[1] = "trace_id" /\ head[2] = "locale" /\ head[3] = "request_log"
        /\ tail[1] = "deadline" /\ tail[2] = "recovery" /\ tail[3] = "otlp"
    OBVIOUS
  <1> HIDE DEF Names, head, tail
  <1>8. /\ Len(Chain) = Len(Reporters) + 6
        /\ \A i \in 1..3 : Chain[i] = head[i]
        /\ \A i \in 1..Len(Reporters) : Chain[i + 3] = Reporters[i]
        /\ \A i \in 1..3 : Chain[Len(Reporters) + 3 + i] = tail[i]
    <2> DEFINE s == head \o Reporters \o tail
    <2>1. /\ Len(s) = Len(Reporters) + 6
          /\ \A i \in 1..3 : s[i] = head[i]
          /\ \A i \in 1..Len(Reporters) : s[i + 3] = Reporters[i]
          /\ \A i \in 1..3 : s[Len(Reporters) + 3 + i] = tail[i]
      BY <1>1, <1>2, <1>3, Surrounded, SMTT(20)
    <2> QED
      BY <1>6, <2>1
  <1>9. Chain[1] = "trace_id" /\ Chain[2] = "locale" /\ Chain[3] = "request_log"
    BY <1>7, <1>8
  <1>10. Chain[D] = "deadline" /\ Chain[D + 1] = "recovery" /\ Chain[D + 2] = "otlp"
    <2>1. D = Len(Reporters) + 3 + 1 /\ D + 1 = Len(Reporters) + 3 + 2
          /\ D + 2 = Len(Reporters) + 3 + 3
      BY <1>4 DEF D
    <2> QED
      BY <1>7, <1>8, <2>1
  <1>11. ASSUME NEW i \in 1..(D - 1)
         PROVE  Chain[i] \notin {"deadline", "recovery"}
    <2>1. CASE i \in 1..3
      <3>1. i = 1 \/ i = 2 \/ i = 3
        BY <2>1
      <3> QED
        BY <1>9, <3>1
    <2>2. CASE i > 3
      <3>1. i - 3 \in 1..Len(Reporters) /\ (i - 3) + 3 = i
        BY <1>4, <2>2 DEF D
      <3>2. Chain[i] = Reporters[i - 3]
        BY <1>8, <3>1
      <3> QED
        BY <1>5, <3>1, <3>2
    <2> QED
      BY <1>4, <2>1, <2>2 DEF D
  <1> QED
    BY <1>4, <1>8, <1>9, <1>10, <1>11 DEF D

-----------------------------------------------------------------------------
(* The inductive invariant: where both goroutines of a call can be, and     *)
(* what they can carry there.                                               *)

\* What the handler's outcome is by the time it reaches the channels.
Fits(c, r) ==
    \/ r = outcome[c] /\ outcome[c] \in {"response", "expected", "unexpected"}
    \/ r = "recovered" /\ outcome[c] = "panic"

Answers(c, r) == Fits(c, r) \/ (r = "deadline" /\ expired[c])

\* The spawned goroutine stays in the chain's end, and a panic does not get
\* past recovery.
TaskPlace(c) ==
    /\ call[c] \in {"none", "down"} => task[c] = "none"
    /\ task[c] = "down" => taskPos[c] \in (D + 1)..(D + 2)
    /\ task[c] = "handler" => taskPos[c] = D + 2
    /\ task[c] = "up" => taskPos[c] \in D..(D + 2)

TaskCarries(c) ==
    /\ task[c] \in {"none", "down", "handler"} => outcome[c] = "none"
    /\ task[c] # "gone" => sent[c] = "none"
    /\ task[c] = "up" /\ taskPos[c] = D => Fits(c, taskResult[c])
    /\ task[c] = "up" /\ taskPos[c] # D =>
        /\ taskResult[c] = outcome[c]
        /\ outcome[c] \in {"response", "expected", "unexpected", "panic"}
    /\ sent[c] # "none" => Fits(c, sent[c])

\* The server's goroutine stays in its beginning.
CallPlace(c) ==
    /\ call[c] = "down" => pos[c] \in 1..D
    /\ call[c] = "select" => pos[c] = D
    /\ call[c] = "up" => pos[c] \in 0..(D - 1)
    /\ call[c] = "answered" => pos[c] = 0
    /\ call[c] \in {"up", "answered"} => Answers(c, result[c])

\* The observers that the result has passed have written about it, and no
\* one has written about anything else.
Noticing(c) ==
    /\ call[c] \in {"none", "down", "select"} =>
        \A o \in Observers : noticed[c][o] = "none"
    /\ call[c] \in {"up", "answered"} =>
        /\ \A o \in Observers : noticed[c][o] # "none" =>
            noticed[c][o] = result[c] /\ Writes(o, result[c])
        /\ \A i \in (pos[c] + 1)..(D - 1) :
            Writes(Chain[i], result[c]) => noticed[c][Chain[i]] = result[c]

CallInv(c) == TaskPlace(c) /\ TaskCarries(c) /\ CallPlace(c) /\ Noticing(c)

Inv == TypeOK /\ PanicsContained /\ \A c \in Calls : CallInv(c)
-----------------------------------------------------------------------------
(* A step of one call leaves the others as they are.                       *)

Same(d) ==
    /\ call'[d] = call[d] /\ pos'[d] = pos[d] /\ result'[d] = result[d]
    /\ task'[d] = task[d] /\ taskPos'[d] = taskPos[d]
    /\ taskResult'[d] = taskResult[d] /\ sent'[d] = sent[d]
    /\ expired'[d] = expired[d] /\ outcome'[d] = outcome[d]
    /\ noticed'[d] = noticed[d]

LEMMA Untouched ==
    ASSUME NEW d \in Calls, CallInv(d), Same(d)
    PROVE  CallInv(d)'
  <1>1. TaskPlace(d)'
    BY DEF CallInv, TaskPlace, Same
  <1>2. TaskCarries(d)'
    BY DEF CallInv, TaskCarries, Fits, Same
  <1>3. CallPlace(d)'
    BY DEF CallInv, CallPlace, Answers, Fits, Same
  <1>4. Noticing(d)'
    BY DEF CallInv, Noticing, Writes, Same
  <1> QED
    BY <1>1, <1>2, <1>3, <1>4 DEF CallInv

LEMMA InitInv == Init => Inv
  <1> SUFFICES ASSUME Init PROVE Inv
    OBVIOUS
  <1> USE DEF Init, CallInit
  <1>1. TypeOK
    BY ChainFacts DEF TypeOK, CallTypeOK, Results, Errors
  <1>2. PanicsContained
    BY DEF PanicsContained
  <1>3. ASSUME NEW c \in Calls PROVE CallInv(c)
    BY DEF CallInv, TaskPlace, TaskCarries, CallPlace, Noticing
  <1> QED
    BY <1>1, <1>2, <1>3 DEF Inv

\* A call arrives.
LEMMA ArriveInv ==
    ASSUME NEW c \in Calls, CallTypeOK, CallInv(c), Arrive(c)
    PROVE  CallTypeOK' /\ CallInv(c)' /\ \A d \in Calls \ {c} : Same(d)
  <1> USE DEF Arrive, taskVars
  <1>1. CallTypeOK'
    BY ChainFacts DEF CallTypeOK
  <1>2. TaskPlace(c)' /\ TaskCarries(c)'
    BY DEF CallInv, TaskPlace, TaskCarries, Fits, CallTypeOK
  <1>3. CallPlace(c)'
    BY ChainFacts DEF CallInv, CallPlace, CallTypeOK
  <1>4. Noticing(c)'
    BY DEF CallInv, Noticing, CallTypeOK
  <1>5. \A d \in Calls \ {c} : Same(d)
    BY DEF Same, CallTypeOK
  <1> QED
    BY <1>1, <1>2, <1>3, <1>4, <1>5 DEF CallInv

\* The server's goroutine goes down the chain.
LEMMA ForwardInv ==
    ASSUME NEW c \in Calls, CallTypeOK, CallInv(c), Forward(c)
    PROVE  CallTypeOK' /\ CallInv(c)' /\ \A d \in Calls \ {c} : Same(d)
  <1> USE DEF Forward, taskVars
  <1>0. pos[c] \in 1..(D - 1)
    BY ChainFacts DEF CallInv, CallPlace
  <1>1. CallTypeOK'
    BY <1>0, ChainFacts DEF CallTypeOK
  <1>2. TaskPlace(c)' /\ TaskCarries(c)'
    BY DEF CallInv, TaskPlace, TaskCarries, Fits, CallTypeOK
  <1>3. CallPlace(c)'
    BY <1>0, ChainFacts DEF CallInv, CallPlace, CallTypeOK
  <1>4. Noticing(c)'
    BY DEF CallInv, Noticing, CallTypeOK
  <1>5. \A d \in Calls \ {c} : Same(d)
    BY DEF Same, CallTypeOK
  <1> QED
    BY <1>1, <1>2, <1>3, <1>4, <1>5 DEF CallInv

\* The deadline interceptor starts its goroutine and waits.
LEMMA SpawnInv ==
    ASSUME NEW c \in Calls, CallTypeOK, CallInv(c), Spawn(c)
    PROVE  CallTypeOK' /\ CallInv(c)' /\ \A d \in Calls \ {c} : Same(d)
  <1> USE DEF Spawn
  <1>0. pos[c] = D /\ task[c] = "none"
    BY ChainFacts DEF CallInv, CallPlace, TaskPlace
  <1>1. CallTypeOK'
    BY <1>0, ChainFacts DEF CallTypeOK
  <1>2. TaskPlace(c)' /\ TaskCarries(c)'
    BY <1>0, ChainFacts DEF CallInv, TaskPlace, TaskCarries, Fits, CallTypeOK
  <1>3. CallPlace(c)'
    BY <1>0, ChainFacts DEF CallInv, CallPlace, CallTypeOK
  <1>4. Noticing(c)'
    BY DEF CallInv, Noticing, CallTypeOK
  <1>5. \A d \in Calls \ {c} : Same(d)
    BY DEF Same, CallTypeOK
  <1> QED
    BY <1>1, <1>2, <1>3, <1>4, <1>5 DEF CallInv

\* Time is up.
LEMMA ExpireInv ==
    ASSUME NEW c \in Calls, CallTypeOK, CallInv(c), Expire(c)
    PROVE  CallTypeOK' /\ CallInv(c)' /\ \A d \in Calls \ {c} : Same(d)
  <1> USE DEF Expire, callVars, taskVars
  <1>1. CallTypeOK'
    BY DEF CallTypeOK
  <1>2. TaskPlace(c)' /\ TaskCarries(c)'
    BY DEF CallInv, TaskPlace, TaskCarries, Fits
  <1>3. CallPlace(c)'
    BY DEF CallInv, CallPlace
  <1>4. Noticing(c)'
    BY DEF CallInv, Noticing
  <1>5. \A d \in Calls \ {c} : Same(d)
    BY DEF Same, CallTypeOK
  <1> QED
    BY <1>1, <1>2, <1>3, <1>4, <1>5 DEF CallInv

\* The select picks a case, and its outcome starts up the chain.
LEMMA BackUpInv ==
    ASSUME NEW c \in Calls, NEW r \in Results, CallTypeOK, CallInv(c),
           call[c] = "select", Answers(c, r), BackUp(c, r)
    PROVE  CallTypeOK' /\ CallInv(c)' /\ \A d \in Calls \ {c} : Same(d)
  <1> USE DEF BackUp, taskVars
  <1>0. pos[c] = D /\ pos'[c] = D - 1 /\ call'[c] = "up" /\ result'[c] = r
    BY ChainFacts DEF CallInv, CallPlace, CallTypeOK
  <1>1. CallTypeOK'
    BY <1>0, ChainFacts DEF CallTypeOK
  <1>2. TaskPlace(c)' /\ TaskCarries(c)'
    BY DEF CallInv, TaskPlace, TaskCarries, Fits, CallTypeOK
  <1>3. CallPlace(c)'
    <2>1. Answers(c, r)'
      BY DEF Answers, Fits
    <2> QED
      BY <1>0, <2>1, ChainFacts DEF CallPlace, Answers, Fits
  <1>4. Noticing(c)'
    BY <1>0, ChainFacts DEF CallInv, Noticing, CallTypeOK
  <1>5. \A d \in Calls \ {c} : Same(d)
    BY DEF Same, CallTypeOK
  <1> QED
    BY <1>1, <1>2, <1>3, <1>4, <1>5 DEF CallInv

\* An interceptor above deadline lets the result pass and may write about it.
LEMMA UpInv ==
    ASSUME NEW c \in Calls, CallTypeOK, CallInv(c), Up(c)
    PROVE  CallTypeOK' /\ CallInv(c)' /\ \A d \in Calls \ {c} : Same(d)
  <1> USE DEF Up, taskVars
  <1> DEFINE i == Chain[pos[c]]
             r == result[c]
  <1>0. pos[c] \in 1..(D - 1) /\ i \notin {"deadline", "recovery"}
    BY ChainFacts DEF CallInv, CallPlace, CallTypeOK
  <1>1. result' = result
    <2>1. Leave(i, r) = r
      BY <1>0 DEF Leave
    <2> QED
      BY <2>1 DEF CallTypeOK
  <1>2. Writes(i, r) => i \in Observers
    BY DEF Writes, Observers
  <1>3. noticed' \in [Calls -> [Observers -> Results]]
    BY <1>2 DEF Notice, CallTypeOK
  <1>4. \A o \in Observers : noticed'[c][o] =
            IF o = i /\ Writes(i, r) THEN r ELSE noticed[c][o]
    BY <1>2 DEF Notice, CallTypeOK
  <1>5. CallTypeOK'
    <2>1. pos' \in [Calls -> 0..Len(Chain)]
      BY <1>0, ChainFacts DEF CallTypeOK
    <2> QED
      BY <1>1, <1>3, <2>1 DEF CallTypeOK
  <1>6. TaskPlace(c)' /\ TaskCarries(c)'
    BY DEF CallInv, TaskPlace, TaskCarries, Fits
  <1>7. pos'[c] = pos[c] - 1
    BY DEF CallTypeOK
  <1>8. CallPlace(c)'
    BY <1>0, <1>1, <1>7, ChainFacts DEF CallInv, CallPlace, Answers, Fits
  <1>9. Noticing(c)'
    <2> HIDE DEF Up
    <2>0. call[c] = "up" /\ call'[c] = "up"
      BY DEF Up
    <2>1. ASSUME NEW o \in Observers, noticed'[c][o] # "none"
          PROVE  noticed'[c][o] = result'[c] /\ Writes(o, result'[c])
      BY <1>1, <1>4, <2>0, <2>1 DEF CallInv, Noticing
    <2>2. ASSUME NEW j \in (pos'[c] + 1)..(D - 1), Writes(Chain[j], result'[c])
          PROVE  noticed'[c][Chain[j]] = result'[c]
      <3>1. Chain[j] \in Observers
        BY <2>2 DEF Writes, Observers
      <3>2. CASE j = pos[c]
        BY <1>1, <1>4, <2>2, <3>1, <3>2
      <3>3. CASE j # pos[c]
        <4>1. j \in (pos[c] + 1)..(D - 1)
          BY <1>0, <1>7, <3>3, ChainFacts
        <4>2. noticed[c][Chain[j]] = r
          BY <1>1, <2>0, <2>2, <4>1 DEF CallInv, Noticing
        <4> QED
          BY <1>1, <1>4, <3>1, <4>2
      <3> QED
        BY <3>2, <3>3
    <2> QED
      BY <2>0, <2>1, <2>2 DEF Noticing, Writes
  <1>10. \A d \in Calls \ {c} : Same(d)
    BY DEF Same, CallTypeOK, Notice
  <1> QED
    BY <1>5, <1>6, <1>8, <1>9, <1>10 DEF CallInv

\* The server answers: what comes out of the chain is no panic.
LEMMA AnswerInv ==
    ASSUME NEW c \in Calls, CallTypeOK, CallInv(c), Answer(c)
    PROVE  /\ process' = process
           /\ CallTypeOK' /\ CallInv(c)' /\ \A d \in Calls \ {c} : Same(d)
  <1> USE DEF taskVars
  <1>0. call[c] = "up" /\ pos[c] = 0 /\ result[c] # "panic"
    BY DEF Answer, CallInv, CallPlace, Answers, Fits
  <1>1. /\ call' = [call EXCEPT ![c] = "answered"]
        /\ UNCHANGED <<process, pos, result, taskVars, expired, outcome, noticed>>
    BY <1>0 DEF Answer
  <1>2. CallTypeOK'
    BY <1>1 DEF CallTypeOK
  <1>3. TaskPlace(c)' /\ TaskCarries(c)'
    BY <1>0, <1>1 DEF CallInv, TaskPlace, TaskCarries, Fits, CallTypeOK
  <1>4. CallPlace(c)'
    BY <1>0, <1>1 DEF CallInv, CallPlace, Answers, Fits, CallTypeOK
  <1>5. Noticing(c)'
    BY <1>0, <1>1 DEF CallInv, Noticing, Writes, CallTypeOK
  <1>6. \A d \in Calls \ {c} : Same(d)
    BY <1>1 DEF Same, CallTypeOK
  <1> QED
    BY <1>1, <1>2, <1>3, <1>4, <1>5, <1>6 DEF CallInv

\* The spawned goroutine goes down the rest of the chain.
LEMMA TaskForwardInv ==
    ASSUME NEW c \in Calls, CallTypeOK, CallInv(c), TaskForward(c)
    PROVE  CallTypeOK' /\ CallInv(c)' /\ \A d \in Calls \ {c} : Same(d)
  <1> USE DEF TaskForward, callVars
  <1>0. taskPos[c] \in (D + 1)..(D + 2) /\ call[c] \notin {"none", "down"}
    BY DEF CallInv, TaskPlace
  <1>1. CallTypeOK'
    <2>1. CASE taskPos[c] = Len(Chain)
      BY <2>1 DEF CallTypeOK
    <2>2. CASE taskPos[c] # Len(Chain)
      <3>1. taskPos' \in [Calls -> 0..Len(Chain)]
        BY <1>0, <2>2, ChainFacts DEF CallTypeOK
      <3> QED
        BY <2>2, <3>1 DEF CallTypeOK
    <2> QED
      BY <2>1, <2>2
  <1>2. TaskPlace(c)'
    BY <1>0, ChainFacts DEF CallInv, TaskPlace, CallTypeOK
  <1>3. TaskCarries(c)'
    BY DEF CallInv, TaskCarries, Fits, CallTypeOK
  <1>4. CallPlace(c)' /\ Noticing(c)'
    BY DEF CallInv, CallPlace, Noticing, Answers, Fits
  <1>5. \A d \in Calls \ {c} : Same(d)
    BY DEF Same, CallTypeOK
  <1> QED
    BY <1>1, <1>2, <1>3, <1>4, <1>5 DEF CallInv

\* A handler ends.  Nothing is in the channels, so that no one has answered
\* the call with anything but "deadline".
LEMMA HandlerInv ==
    ASSUME NEW c \in Calls, CallTypeOK, CallInv(c), Handler(c)
    PROVE  CallTypeOK' /\ CallInv(c)' /\ \A d \in Calls \ {c} : Same(d)
  <1> USE DEF Handler, HandlerReturns, HandlerExits, callVars
  <1>0. /\ task[c] = "handler" /\ taskPos[c] = D + 2 /\ outcome[c] = "none"
        /\ call[c] \notin {"none", "down"} /\ sent[c] = "none"
    BY DEF CallInv, TaskPlace, TaskCarries
  <1>1. CallTypeOK'
    <2>1. CASE HandlerReturns(c)
      <3>1. PICK r \in {"response", "expected", "unexpected", "panic"} :
                /\ taskResult' = [taskResult EXCEPT ![c] = r]
                /\ outcome' = [outcome EXCEPT ![c] = r]
        BY <2>1
      <3>2. r \in Results
        BY DEF Results, Errors
      <3> QED
        BY <2>1, <3>1, <3>2 DEF CallTypeOK
    <2>2. CASE HandlerExits(c)
      BY <2>2 DEF CallTypeOK
    <2> QED
      BY <2>1, <2>2
  <1>2. TaskPlace(c)'
    BY <1>0, ChainFacts DEF TaskPlace, CallTypeOK
  <1>3. TaskCarries(c)'
    <2>1. CASE HandlerReturns(c)
      BY <1>0, <2>1, ChainFacts DEF TaskCarries, CallTypeOK
    <2>2. CASE HandlerExits(c)
      BY <1>0, <2>2 DEF TaskCarries, CallTypeOK
    <2> QED
      BY <2>1, <2>2
  <1>4. CallPlace(c)'
    <2>1. call[c] \in {"up", "answered"} => result[c] = "deadline" /\ expired[c]
      BY <1>0 DEF CallInv, CallPlace, Answers, Fits
    <2> QED
      BY <1>0, <2>1 DEF CallInv, CallPlace, Answers
  <1>5. Noticing(c)'
    BY DEF CallInv, Noticing
  <1>6. \A d \in Calls \ {c} : Same(d)
    BY DEF Same, CallTypeOK
  <1> QED
    BY <1>1, <1>2, <1>3, <1>4, <1>5, <1>6 DEF CallInv

\* The interceptors below deadline report nothing, and recovery lets no panic
\* pass.
LEMMA TaskUpInv ==
    ASSUME NEW c \in Calls, CallTypeOK, CallInv(c), TaskUp(c)
    PROVE  CallTypeOK' /\ CallInv(c)' /\ \A d \in Calls \ {c} : Same(d)
  <1> USE DEF TaskUp, callVars
  <1> DEFINE i == Chain[taskPos[c]]
             r == taskResult[c]
  <1>0. \/ taskPos[c] = D + 1 /\ i = "recovery"
        \/ taskPos[c] = D + 2 /\ i = "otlp"
    <2>1. taskPos[c] \in D..(D + 2) /\ i # "deadline"
      BY DEF CallInv, TaskPlace
    <2>2. taskPos[c] = D + 1 \/ taskPos[c] = D + 2
      BY <2>1, ChainFacts
    <2> QED
      BY <2>2, ChainFacts
  <1>1. noticed' = noticed
    BY <1>0 DEF Notice, Writes
  <1>2. /\ r = outcome[c] /\ outcome[c] \in {"response", "expected", "unexpected", "panic"}
        /\ call[c] \notin {"none", "down"} /\ sent[c] = "none"
    BY <1>0, ChainFacts DEF CallInv, TaskPlace, TaskCarries
  <1>3. CallTypeOK'
    BY <1>0, <1>1, <1>2, ChainFacts DEF CallTypeOK, Leave, Results, Errors
  <1>4. taskPos'[c] = taskPos[c] - 1 /\ taskResult'[c] = Leave(i, r)
    BY DEF CallTypeOK
  <1>5. TaskPlace(c)'
    BY <1>0, <1>2, <1>4, ChainFacts DEF TaskPlace
  <1>6. TaskCarries(c)'
    <2>1. CASE taskPos[c] = D + 1 /\ i = "recovery"
      <3>1. taskPos'[c] = D
        BY <1>4, <2>1, ChainFacts
      <3>2. Fits(c, taskResult[c])'
        BY <1>2, <1>4, <2>1 DEF Leave, Fits
      <3> QED
        BY <1>2, <3>1, <3>2 DEF TaskCarries
    <2>2. CASE taskPos[c] = D + 2 /\ i = "otlp"
      <3>1. taskPos'[c] # D
        BY <1>4, <2>2, ChainFacts
      <3>2. taskResult'[c] = r
        BY <1>4, <2>2 DEF Leave
      <3> QED
        BY <1>2, <3>1, <3>2 DEF TaskCarries
    <2> QED
      BY <1>0, <2>1, <2>2
  <1>7. CallPlace(c)' /\ Noticing(c)'
    BY <1>1 DEF CallInv, CallPlace, Noticing, Answers, Fits
  <1>8. \A d \in Calls \ {c} : Same(d)
    BY <1>1 DEF Same, CallTypeOK
  <1> QED
    BY <1>3, <1>5, <1>6, <1>7, <1>8 DEF CallInv

\* The spawned goroutine's result is in a channel, and it is no panic.
LEMMA TaskSendInv ==
    ASSUME NEW c \in Calls, CallTypeOK, CallInv(c), TaskSend(c)
    PROVE  /\ process' = process
           /\ CallTypeOK' /\ CallInv(c)' /\ \A d \in Calls \ {c} : Same(d)
  <1> USE DEF callVars
  <1>0. task[c] = "up" /\ taskPos[c] = D /\ Fits(c, taskResult[c])
    BY ChainFacts DEF TaskSend, CallInv, TaskPlace, TaskCarries
  <1>1. taskResult[c] # "panic"
    BY <1>0 DEF Fits
  <1>2. /\ task' = [task EXCEPT ![c] = "gone"]
        /\ sent' = [sent EXCEPT ![c] = taskResult[c]]
        /\ UNCHANGED <<process, callVars, taskPos, taskResult, expired, outcome, noticed>>
    BY <1>1 DEF TaskSend
  <1>3. CallTypeOK'
    BY <1>2 DEF CallTypeOK
  <1>4. TaskPlace(c)'
    BY <1>0, <1>2 DEF CallInv, TaskPlace, CallTypeOK
  <1>5. TaskCarries(c)'
    BY <1>0, <1>2 DEF TaskCarries, Fits, CallTypeOK
  <1>6. CallPlace(c)' /\ Noticing(c)'
    BY <1>2 DEF CallInv, CallPlace, Noticing, Answers, Fits
  <1>7. \A d \in Calls \ {c} : Same(d)
    BY <1>2 DEF Same, CallTypeOK
  <1> QED
    BY <1>2, <1>3, <1>4, <1>5, <1>6, <1>7 DEF CallInv

-----------------------------------------------------------------------------
CallsInv == CallTypeOK /\ PanicsContained /\ \A c \in Calls : CallInv(c)

\* The steps of the calls.
LEMMA CallNextInv == CallsInv /\ CallNext => CallsInv'
  <1> SUFFICES ASSUME CallsInv, CallNext PROVE CallsInv'
    OBVIOUS
  <1>0. process = "up"
    BY DEF CallNext
  <1>1. PICK c \in Calls :
            ServerGoroutine(c) \/ Expire(c) \/ TaskGoroutine(c) \/ Handler(c)
    BY DEF CallNext
  <1>2. CallTypeOK /\ CallInv(c)
    BY DEF CallsInv
  <1>3. /\ process' = process
        /\ CallTypeOK' /\ CallInv(c)' /\ \A d \in Calls \ {c} : Same(d)
    <2>1. CASE Forward(c)
      BY <1>2, <2>1, ForwardInv DEF Forward
    <2>2. CASE Spawn(c)
      BY <1>2, <2>2, SpawnInv DEF Spawn
    <2>3. CASE SelectResult(c)
      <3>1. Answers(c, sent[c]) /\ sent[c] \in Results
        BY <1>2, <2>3 DEF SelectResult, CallInv, TaskCarries, Answers, CallTypeOK
      <3>2. call[c] = "select" /\ BackUp(c, sent[c])
        BY <2>3 DEF SelectResult
      <3>3. process' = process
        BY <3>2 DEF BackUp
      <3> QED
        BY <1>2, <3>1, <3>2, <3>3, BackUpInv
    <2>4. CASE SelectDone(c)
      <3>1. Answers(c, "deadline") /\ "deadline" \in Results
        BY <2>4 DEF SelectDone, Answers, Results, Errors
      <3>2. call[c] = "select" /\ BackUp(c, "deadline")
        BY <2>4 DEF SelectDone
      <3>3. process' = process
        BY <3>2 DEF BackUp
      <3> QED
        BY <1>2, <3>1, <3>2, <3>3, BackUpInv
    <2>5. CASE Up(c)
      BY <1>2, <2>5, UpInv DEF Up
    <2>6. CASE Answer(c)
      BY <1>2, <2>6, AnswerInv
    <2>7. CASE Expire(c)
      BY <1>2, <2>7, ExpireInv DEF Expire
    <2>8. CASE TaskForward(c)
      BY <1>2, <2>8, TaskForwardInv DEF TaskForward
    <2>9. CASE TaskUp(c)
      BY <1>2, <2>9, TaskUpInv DEF TaskUp
    <2>10. CASE TaskSend(c)
      BY <1>2, <2>10, TaskSendInv
    <2>11. CASE Handler(c)
      BY <1>2, <2>11, HandlerInv DEF Handler, HandlerReturns, HandlerExits
    <2> QED
      BY <1>1, <2>1, <2>2, <2>3, <2>4, <2>5, <2>6, <2>7, <2>8, <2>9, <2>10, <2>11
         DEF ServerGoroutine, TaskGoroutine
  <1> QED
    BY <1>0, <1>3, Untouched DEF CallsInv, PanicsContained

\* The steps of the server leave the calls alone, but for a new one.
LEMMA ServerNextInv == CallsInv /\ ServerNext => CallsInv'
  <1> SUFFICES ASSUME CallsInv, ServerNext PROVE CallsInv'
    OBVIOUS
  <1>0. process = "up"
    BY DEF ServerNext
  <1>1. ASSUME Idle, process' \in {"up", "fatal", "exited"}
        PROVE  CallsInv'
    <2>1. CallTypeOK'
      BY <1>1 DEF CallsInv, CallTypeOK, Idle, callVars, taskVars
    <2>2. ASSUME NEW d \in Calls PROVE Same(d)
      BY <1>1 DEF Same, Idle, callVars, taskVars
    <2> QED
      BY <1>1, <2>1, <2>2, Untouched DEF CallsInv, PanicsContained
  <1>2. ASSUME NEW c \in Calls, Request(c)
        PROVE  CallsInv'
    <2>1. Arrive(c) /\ process' = process
      BY <1>2 DEF Request, Arrive
    <2>2. CallTypeOK' /\ CallInv(c)' /\ \A d \in Calls \ {c} : Same(d)
      BY <2>1, ArriveInv DEF CallsInv
    <2> QED
      BY <1>0, <2>1, <2>2, Untouched DEF CallsInv, PanicsContained
  <1>3. CASE SetListener \/ Serve \/ Accept \/ Shutdown \/ Bye
    BY <1>0, <1>1, <1>3 DEF SetListener, Serve, Accept, Shutdown, Bye
  <1>4. CASE AcceptNil \/ AcceptStopped \/ AcceptFails \/ Exit
    BY <1>1, <1>4 DEF AcceptNil, AcceptStopped, AcceptFails, Exit, End
  <1> QED
    BY <1>2, <1>3, <1>4 DEF ServerNext, Acceptor

LEMMA NextInv == Inv /\ [Next]_vars => Inv'
  <1> SUFFICES ASSUME Inv, [Next]_vars PROVE Inv'
    OBVIOUS
  <1>0. CallsInv
    BY DEF Inv, CallsInv, TypeOK
  <1>1. CallsInv'
    <2>1. CASE UNCHANGED vars
      <3>1. CallTypeOK' /\ PanicsContained'
        BY <1>0, <2>1 DEF CallsInv, CallTypeOK, PanicsContained, vars, grpcVars,
                          callVars, taskVars
      <3>2. ASSUME NEW d \in Calls PROVE Same(d)
        BY <2>1 DEF Same, vars, grpcVars, callVars, taskVars
      <3> QED
        BY <1>0, <3>1, <3>2, Untouched DEF CallsInv
    <2> QED
      BY <1>0, <2>1, CallNextInv, ServerNextInv DEF Next
  <1>2. /\ fx' \in {"invoke", "running", "stopping", "stopped"}
        /\ listener' \in {"unset", "open", "nil"}
        /\ acceptor' \in {"none", "spawned", "serving", "returned"}
    BY DEF Inv, TypeOK, Next, vars, ServerNext, SetListener, Serve, Acceptor,
           Accept, AcceptNil, AcceptStopped, AcceptFails, Shutdown, Request,
           Bye, Exit
  <1> QED
    BY <1>1, <1>2 DEF Inv, CallsInv, TypeOK

LEMMA Invariance == Spec => []Inv
  BY InitInv, NextInv, PTL DEF Spec

-----------------------------------------------------------------------------
\* Every state of the server and its calls is of the types the code gives it,
\* for any calls and reporters (grpc.go, timeout.go:26-53).
THEOREM TypeCorrect == Spec => []TypeOK
  <1>1. Inv => TypeOK
    BY DEF Inv
  <1> QED
    BY <1>1, Invariance, PTL

\* No panic of a handler ends the process (timeout.go:37, recovery.go:31).
THEOREM PanicsContainedCorrect == Spec => []PanicsContained
  <1>1. Inv => PanicsContained
    BY DEF Inv
  <1> QED
    BY <1>1, Invariance, PTL

\* A caller is told what the handler did, or that time was up when it was
\* (timeout.go:46-53).
THEOREM AnswersFitCorrect == Spec => []AnswersFit
  <1>1. Inv => AnswersFit
    BY DEF Inv, CallInv, CallPlace, Answers, Fits, AnswersFit
  <1> QED
    BY <1>1, Invariance, PTL

\* The request log and every reporter of the preset, whatever their order,
\* tell of a call what its caller was told (request_log.go:149-153,
\* newrelic.go:80-96, sentry.go:60-86).
THEOREM ObserversAgreeCorrect == Spec => []ObserversAgree
  <1>1. Inv => ObserversAgree
    <2> SUFFICES ASSUME Inv, NEW c \in Calls, call[c] = "answered",
                        NEW o \in Preset
                 PROVE  noticed[c][o] = Told(c, o)
      BY DEF ObserversAgree
    <2>1. result[c] # "panic" /\ pos[c] = 0 /\ Noticing(c)
      BY DEF Inv, CallInv, CallPlace, Answers, Fits
    <2>2. \A i \in 1..Len(Reporters) : Reporters[i] \in {"newrelic", "sentry"}
      BY ReportersAssumption, ElementOfSeq
    <2>3. o \in Observers
      BY <2>2 DEF Preset, Observers
    <2>4. PICK i \in 1..(D - 1) : Chain[i] = o
      <3>1. CASE o = "request_log"
        BY <3>1, ChainFacts
      <3>2. CASE o # "request_log"
        <4>1. PICK j \in 1..Len(Reporters) : Reporters[j] = o
          BY <3>2 DEF Preset
        <4>2. Chain[j + 3] = o /\ j + 3 \in 1..(D - 1)
          BY <4>1, ChainFacts DEF D
        <4> QED
          BY <4>2
      <3> QED
        BY <3>1, <3>2
    <2>5. Writes(o, result[c]) => noticed[c][o] = result[c]
      BY <2>1, <2>4 DEF Noticing
    <2>6. ~Writes(o, result[c]) => noticed[c][o] = "none"
      BY <2>1, <2>3 DEF Noticing, Inv, TypeOK, CallTypeOK
    <2>7. Writes(o, result[c]) <=>
            o = "request_log" \/ result[c] \notin {"response", "expected"}
      BY <2>1, <2>3 DEF Writes, Observers
    <2> QED
      BY <2>5, <2>6, <2>7 DEF Told
  <1> QED
    BY <1>1, Invariance, PTL
-----------------------------------------------------------------------------
(* What a stop has waited for.                                             *)

\* A call on its way up has left no task behind, or its time was up; after the
\* stop there is no call under way.
LeftNothing(c) == call[c] \in {"up", "answered"} => task[c] = "gone" \/ expired[c]
AtRest(c) == fx = "stopped" => call[c] \in {"none", "answered"}
Awaited == \A c \in Calls : LeftNothing(c) /\ AtRest(c)

\* A step of one call: the others' part is unchanged.
LEMMA CallAwaited ==
    ASSUME Inv, Awaited, CallNext, UNCHANGED fx
    PROVE  Awaited'
  <1> USE DEF LeftNothing, AtRest
  <1>0. PICK c \in Calls : \/ ServerGoroutine(c) \/ Expire(c)
                           \/ TaskGoroutine(c) \/ Handler(c)
    BY DEF CallNext
  <1>1. CallTypeOK /\ CallInv(c) /\ LeftNothing(c) /\ AtRest(c)
    BY DEF Inv, TypeOK, Awaited
  <1>2. ASSUME NEW d \in Calls, d # c
        PROVE  LeftNothing(d)' /\ AtRest(d)'
    <2>1. call'[d] = call[d] /\ task'[d] = task[d] /\ expired'[d] = expired[d]
      BY <1>0, <1>1, <1>2
         DEF CallTypeOK, ServerGoroutine, TaskGoroutine, Handler, Forward, Spawn,
             SelectResult, SelectDone, BackUp, Up, Answer, Expire, TaskForward,
             TaskUp, TaskSend, HandlerReturns, HandlerExits, callVars, taskVars
    <2> QED
      BY <1>2, <2>1 DEF Awaited
  <1>3. LeftNothing(c)' /\ AtRest(c)'
    <2>1. CASE Forward(c) \/ Spawn(c) \/ Expire(c)
      BY <1>1, <2>1 DEF CallTypeOK, Forward, Spawn, Expire, callVars, taskVars
    <2>2. CASE SelectResult(c) \/ SelectDone(c)
      BY <1>1, <2>2 DEF CallTypeOK, SelectResult, SelectDone, BackUp, CallInv,
                        TaskCarries, taskVars
    <2>3. CASE Up(c) \/ Answer(c)
      BY <1>1, <2>3 DEF CallTypeOK, Up, Answer, taskVars
    <2>4. CASE TaskForward(c) \/ TaskUp(c) \/ TaskSend(c) \/ Handler(c)
      BY <1>1, <2>4 DEF CallTypeOK, TaskForward, TaskUp, TaskSend, Handler,
                        HandlerReturns, HandlerExits, callVars
    <2> QED
      BY <1>0, <2>1, <2>2, <2>3, <2>4 DEF ServerGoroutine, TaskGoroutine
  <1> QED
    BY <1>2, <1>3 DEF Awaited

LEMMA AwaitedStep == Inv /\ Awaited /\ [Next]_vars => Awaited'
  <1> SUFFICES ASSUME Inv, Awaited, [Next]_vars PROVE Awaited'
    OBVIOUS
  <1> USE DEF LeftNothing, AtRest
  <1>1. CASE CallNext /\ UNCHANGED <<fx, listener, acceptor>>
    BY <1>1, CallAwaited
  <1>2. CASE ServerNext
    <2>1. ASSUME NEW c \in Calls, Request(c) PROVE Awaited'
      BY <2>1 DEF Inv, TypeOK, CallTypeOK, Awaited, Request, Arrive, taskVars
    <2>2. CASE Bye
      BY <2>2 DEF Awaited, Bye, Idle, callVars, taskVars
    <2>3. CASE SetListener \/ Serve \/ Acceptor \/ Shutdown \/ Exit
      BY <2>3 DEF Awaited, SetListener, Serve, Acceptor, Accept, AcceptNil,
           AcceptStopped, AcceptFails, Shutdown, Exit, End, Idle, callVars, taskVars
    <2> QED
      BY <1>2, <2>1, <2>2, <2>3 DEF ServerNext
  <1>3. CASE UNCHANGED vars
    BY <1>3 DEF Awaited, vars, grpcVars, callVars, taskVars
  <1> QED
    BY <1>1, <1>2, <1>3 DEF Next

\* A handler that is at work after GracefulStop belongs to a call whose deadline
\* had passed, for any number of calls (grpc.go:67, timeout.go:35-53).
THEOREM HandlersAwaitedCorrect == Spec => []HandlersAwaited
  <1>1. Init => Awaited
    BY DEF Init, CallInit, Awaited, LeftNothing, AtRest
  <1>2. Inv /\ Awaited => HandlersAwaited
    <2> SUFFICES ASSUME Inv, Awaited, fx = "stopped", NEW c \in Calls
                 PROVE  task[c] \in {"none", "gone"} \/ expired[c]
      BY DEF HandlersAwaited
    <2>1. CASE call[c] = "none"
      BY <2>1 DEF Inv, CallInv, TaskPlace
    <2>2. CASE call[c] = "answered"
      BY <2>2 DEF Awaited, LeftNothing
    <2> QED
      BY <2>1, <2>2 DEF Awaited, AtRest
  <1> QED
    BY <1>1, <1>2, AwaitedStep, Invariance, PTL DEF Spec
-----------------------------------------------------------------------------
(* The server as a graceful service.                                       *)

\* The place of the jobs of GracefulService in the calls.
AtWork == {c \in Calls : task[c] \notin {"none", "gone"}}
TimeUp == {c \in Calls : expired[c]}

\* A step of one call begins, ends or expires the call, or does nothing to it.
LEMMA CallGraceful ==
    ASSUME Inv, Awaited, CallNext, UNCHANGED fx
    PROVE  [Graceful!Next]_Graceful!vars
  <1> USE DEF AtWork, TimeUp
  <1>0. PICK c \in Calls : \/ ServerGoroutine(c) \/ Expire(c)
                           \/ TaskGoroutine(c) \/ Handler(c)
    BY DEF CallNext
  <1>1. CallTypeOK /\ AtRest(c)
    BY DEF Inv, TypeOK, Awaited
  <1>2. CASE Spawn(c)
    <2>1. fx # "stopped"
      BY <1>1, <1>2 DEF Spawn, AtRest
    <2>2. AtWork' = AtWork \union {c} /\ TimeUp' = TimeUp
      BY <1>1, <1>2 DEF Spawn, CallTypeOK
    <2>3. Graceful!Begin({c})
      BY <2>1, <2>2 DEF Graceful!Begin
    <2> QED
      BY <2>3 DEF Graceful!Next
  <1>3. CASE Expire(c)
    <2>1. AtWork' = AtWork /\ TimeUp' = TimeUp \union {c}
      BY <1>1, <1>3 DEF Expire, CallTypeOK, taskVars
    <2>2. Graceful!Expire(c)
      BY <2>1 DEF Graceful!Expire
    <2> QED
      BY <2>2 DEF Graceful!Next
  <1>4. ASSUME task' = [task EXCEPT ![c] = "gone"], expired' = expired
        PROVE  [Graceful!Next]_Graceful!vars
    <2>1. AtWork' = AtWork \ {c} /\ TimeUp' = TimeUp
      BY <1>1, <1>4 DEF CallTypeOK
    <2>2. Graceful!Finish({c})
      BY <2>1 DEF Graceful!Finish
    <2> QED
      BY <2>2 DEF Graceful!Next
  <1>5. ASSUME AtWork' = AtWork, expired' = expired
        PROVE  [Graceful!Next]_Graceful!vars
    BY <1>5 DEF Graceful!vars
  <1>6. CASE Forward(c) \/ SelectResult(c) \/ SelectDone(c) \/ Up(c) \/ Answer(c)
    BY <1>5, <1>6 DEF Forward, SelectResult, SelectDone, BackUp, Up, Answer, taskVars
  <1>7. CASE TaskForward(c) \/ TaskUp(c) \/ HandlerReturns(c)
    <2>1. AtWork' = AtWork /\ expired' = expired
      BY <1>1, <1>7 DEF TaskForward, TaskUp, HandlerReturns, CallTypeOK
    <2> QED
      BY <1>5, <2>1
  <1>8. CASE TaskSend(c) \/ HandlerExits(c)
    BY <1>4, <1>5, <1>8 DEF TaskSend, HandlerExits
  <1> QED
    BY <1>0, <1>2, <1>3, <1>6, <1>7, <1>8 DEF ServerGoroutine, TaskGoroutine, Handler

LEMMA GracefulStep ==
    Inv /\ Awaited /\ [Next]_vars => [Graceful!Next]_Graceful!vars
  <1> SUFFICES ASSUME Inv, Awaited, [Next]_vars PROVE [Graceful!Next]_Graceful!vars
    OBVIOUS
  <1>1. CASE CallNext /\ UNCHANGED <<fx, listener, acceptor>>
    BY <1>1, CallGraceful
  <1>2. CASE Bye
    <2>1. ASSUME NEW c \in Calls PROVE task[c] \in {"none", "gone"} \/ expired[c]
      <3>1. CASE call[c] = "none"
        BY <3>1 DEF Inv, CallInv, TaskPlace
      <3>2. CASE call[c] = "answered"
        BY <3>2 DEF Awaited, LeftNothing
      <3> QED
        BY <1>2, <3>1, <3>2 DEF Bye
    <2>2. Graceful!Return
      BY <1>2, <2>1 DEF Bye, Idle, taskVars, Graceful!Return
    <2> QED
      BY <2>2 DEF Graceful!Next
  <1>3. CASE \E c \in Calls : Request(c)
    BY <1>3 DEF Request, Arrive, taskVars, Graceful!vars
  <1>4. CASE SetListener \/ Serve \/ Acceptor \/ Shutdown \/ Exit
    BY <1>4 DEF SetListener, Serve, Acceptor, Accept, AcceptNil, AcceptStopped,
         AcceptFails, Shutdown, Exit, End, Idle, taskVars, Graceful!vars
  <1>5. CASE UNCHANGED vars
    BY <1>5 DEF vars, grpcVars, taskVars, Graceful!vars
  <1> QED
    BY <1>1, <1>2, <1>3, <1>4, <1>5 DEF Next, ServerNext

\* GracefulStop keeps its word, for any number of calls: no handler is at work
\* after it but those of overdue calls, and none is called any more.
THEOREM StopsGracefullyCorrect == Spec => StopsGracefully
  <1>1. Init => Awaited
    BY DEF Init, CallInit, Awaited, LeftNothing, AtRest
  <1>2. Init => Graceful!Init
    BY DEF Init, CallInit, Graceful!Init
  <1> QED
    BY <1>1, <1>2, AwaitedStep, GracefulStep, Invariance, PTL
       DEF Spec, StopsGracefully, Graceful!Spec
=============================================================================
