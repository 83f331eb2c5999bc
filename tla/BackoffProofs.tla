---------------------------- MODULE BackoffProofs ----------------------------
(* Theorems about Backoff, for any number of callers and any durations with *)
(* min <= max.                                                              *)
EXTENDS Backoff, TLAPS

InRange(d) == EffectiveMin <= d /\ d <= Max

\* While no two calls have overlapped: at most one call is under way, and
\* what b.backoff and the caller's read can be at each of its steps.
Serial ==
    /\ \A p, q \in Callers : pc[p] # "idle" /\ pc[q] # "idle" => p = q
    /\ (\A p \in Callers : pc[p] = "idle") => backoff = 0 \/ InRange(backoff)
    /\ \A p \in Callers :
        /\ pc[p] = "load" => backoff = 0 \/ InRange(backoff)
        /\ pc[p] = "high" => EffectiveMin <= backoff
        /\ pc[p] = "jitter" => InRange(backoff)
        /\ pc[p] = "return" => InRange(backoff) /\ read[p] = backoff

\* b.min is what the policy was built with until the first call.
MinInForce ==
    min = EffectiveMin \/ (min = Min /\ \A p \in Callers : pc[p] = "idle")

Inv == TypeOK /\ MinInForce /\ (~overlapped => Serial /\ DelayInBounds)

LEMMA EffectiveMinNat == EffectiveMin \in Nat /\ EffectiveMin <= Max
  BY DurationAssumption, RangeAssumption DEF EffectiveMin

\* A value in range plus a fifth of itself at most.
LEMMA JitterInBounds ==
    ASSUME NEW d \in Nat, InRange(d), NEW j \in 0..(d \div 5)
    PROVE  /\ d + j \in Nat
           /\ EffectiveMin <= d + j /\ d + j <= Max + Max \div 5
  <1>1. d \div 5 <= Max \div 5
    BY DurationAssumption DEF InRange
  <1> QED
    BY <1>1, DurationAssumption, EffectiveMinNat DEF InRange

LEMMA InitInv == Init => Inv
  <1> SUFFICES ASSUME Init PROVE Inv
    OBVIOUS
  <1>1. TypeOK
    BY DurationAssumption DEF Init, TypeOK
  <1>2. MinInForce
    BY DEF Init, MinInForce
  <1>3. Serial /\ DelayInBounds
    BY DEF Init, Serial, DelayInBounds
  <1> QED
    BY <1>1, <1>2, <1>3 DEF Inv

\* A step of p changes the program counter of p only.
LEMMA StepMoves ==
    ASSUME TypeOK, NEW p \in Callers, NextCall(p)
    PROVE  /\ \A q \in Callers \ {p} : pc'[q] = pc[q]
           /\ pc[p] # "idle" => min' = min /\ overlapped' = overlapped
           /\ pc[p] # "return" => delay' = delay
  BY DEF TypeOK, NextCall, Call, Load, Store, Raise, Cap, Jitter, Return, Step

LEMMA NextTypeOK ==
    ASSUME Inv, NEW p \in Callers, NextCall(p) PROVE TypeOK' /\ MinInForce'
  <1> USE DurationAssumption, EffectiveMinNat DEF Inv, Step, Read
  <1>1. CASE Call(p)
    <2>1. overlapped' \in BOOLEAN
      BY <1>1 DEF Call, TypeOK
    <2>2. min' \in Nat /\ min' = EffectiveMin
      BY <1>1 DEF Call, TypeOK, MinInForce, EffectiveMin
    <2> QED
      BY <1>1, <2>1, <2>2 DEF Call, TypeOK, MinInForce
  <1>2. CASE Return(p)
    BY <1>2 DEF Return, TypeOK, MinInForce
  <1>3. CASE Load(p) \/ Store(p)
    BY <1>3 DEF Load, Store, TypeOK, MinInForce
  <1>4. CASE Raise(p) \/ Cap(p) \/ Jitter(p)
    BY <1>4 DEF Raise, Cap, Jitter, TypeOK, MinInForce
  <1> QED
    BY <1>1, <1>2, <1>3, <1>4 DEF NextCall

LEMMA NextSerial ==
    ASSUME Inv, NEW p \in Callers, NextCall(p), ~overlapped'
    PROVE  Serial' /\ DelayInBounds'
  <1> USE DEF Inv, Step, Read
  <1>1. ~overlapped
    BY DEF NextCall, Call, Load, Store, Raise, Cap, Jitter, Return, TypeOK
  <1>2. Serial /\ DelayInBounds /\ TypeOK /\ MinInForce
    BY <1>1
  <1>3. \A q \in Callers \ {p} : pc[q] = "idle" /\ pc'[q] = "idle"
    <2>1. CASE pc[p] = "idle"
      BY <2>1, <1>2, StepMoves DEF NextCall, Call, Load, Store, Raise, Cap,
                                   Jitter, Return
    <2>2. CASE pc[p] # "idle"
      BY <2>2, <1>2, StepMoves DEF Serial
    <2> QED
      BY <2>1, <2>2
  <1>4. pc[p] # "idle" => min = EffectiveMin
    BY <1>2 DEF MinInForce
  <1>5. CASE Call(p)
    BY <1>2, <1>3, <1>5 DEF Call, Serial, DelayInBounds, TypeOK
  <1>6. CASE Load(p) \/ Store(p)
    BY <1>2, <1>3, <1>6 DEF Load, Store, Serial, DelayInBounds, TypeOK
  <1>7. CASE Raise(p)
    BY <1>2, <1>3, <1>4, <1>7, EffectiveMinNat
       DEF Raise, Serial, DelayInBounds, TypeOK, InRange
  <1>8. CASE Cap(p)
    BY <1>2, <1>3, <1>8, EffectiveMinNat, DurationAssumption
       DEF Cap, Serial, DelayInBounds, TypeOK, InRange
  <1>9. CASE Jitter(p)
    BY <1>2, <1>3, <1>9 DEF Jitter, Serial, DelayInBounds, TypeOK
  <1>10. CASE Return(p)
    <2>1. PICK j \in 0..(read[p] \div 5) :
            delay' = [delay EXCEPT ![p] = backoff + j]
      BY <1>10 DEF Return
    <2>2. InRange(backoff) /\ read[p] = backoff /\ backoff \in Nat
      BY <1>2, <1>10 DEF Return, Serial, TypeOK
    <2>3. DelayInBounds'
      BY <1>2, <2>1, <2>2, JitterInBounds DEF DelayInBounds, TypeOK
    <2>4. Serial'
      BY <1>2, <1>3, <1>10, <2>2 DEF Return, Serial, TypeOK
    <2> QED
      BY <2>3, <2>4
  <1> QED
    BY <1>5, <1>6, <1>7, <1>8, <1>9, <1>10 DEF NextCall

LEMMA NextInv == Inv /\ [Next]_vars => Inv'
  <1>1. Inv /\ Next => Inv'
    BY NextTypeOK, NextSerial DEF Next, Inv
  <1>2. Inv /\ UNCHANGED vars => Inv'
    BY DEF vars, Inv, TypeOK, MinInForce, Serial, DelayInBounds, InRange
  <1> QED
    BY <1>1, <1>2

\* As long as no two calls of Next overlap, every delay is within the bounds
\* that the policy documents, whoever shares the policy.
THEOREM SerialDelays == Spec => []SerialDelayInBounds
  <1>1. Inv => SerialDelayInBounds
    BY DEF Inv, SerialDelayInBounds
  <1> QED
    BY <1>1, InitInv, NextInv, PTL DEF Spec
=============================================================================
