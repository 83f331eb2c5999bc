----------------------- MODULE ApplicationPartsProofs -----------------------
(***************************************************************************)
(* Theorems about the parts that Application composes: the registry, for   *)
(* any applications, modules, constructors and capacities, and the         *)
(* producer manager, for any callers and any labels.                       *)
(***************************************************************************)
EXTENDS AppRegistry, PulsarProducer, SequenceTheorems, TLAPS

-----------------------------------------------------------------------------
\* The registry

Cell == Constructors \cup {NoConstructor}

\* The parts of the invariant are operators on the four variables, because
\* AddModule appends twice and passes through a state of its own in between.
Typed(heap, sl, gv, ap) ==
  /\ heap \in Seq(Seq(Cell)) /\ Len(heap) > 0
  /\ sl \in [Apps -> [array : Nat, len : Nat]]
  /\ gv \in [Apps -> Seq(Constructors)]
  /\ ap \subseteq Apps

\* A slice lies within its array.
Within(heap, sl) ==
  \A a \in Apps : /\ sl[a].array <= Len(heap)
                  /\ sl[a].array # 0 => sl[a].len <= Len(heap[sl[a].array])

\* Only the registry's array has several slices ...
Private(sl) ==
  \A a, b \in Apps :
    a # b /\ sl[a].array = sl[b].array => sl[a].array \in {0, 1}

\* ... all of which begin with the registered plugins, and end with them
\* unless their application has appended.
AboveRegistry(sl, ap) ==
  \A a \in Apps : sl[a].array = 1 =>
    /\ sl[a].len >= Len(Registered)
    /\ a \notin ap => sl[a].len = Len(Registered)

RegistryKept(heap) ==
  /\ Len(Registered) <= Len(heap[1])
  /\ \A i \in 1..Len(Registered) : heap[1][i] = Registered[i]

Robbed(a, ap) == a \in ap /\ \E b \in ap : b # a

Kept(heap, sl, gv, ap) ==
  \A a \in Apps : sl[a].array # 0 =>
    /\ Len(gv[a]) = sl[a].len
    /\ \/ \A i \in 1..sl[a].len : heap[sl[a].array][i] = gv[a][i]
       \/ Robbed(a, ap)

Sound(heap, sl, gv, ap) ==
  /\ Typed(heap, sl, gv, ap) /\ Within(heap, sl) /\ Private(sl)
  /\ AboveRegistry(sl, ap) /\ RegistryKept(heap) /\ Kept(heap, sl, gv, ap)

RegistryInv == Sound(arrays, slice, given, appended)

LEMMA RegisteredFacts ==
  /\ Registered \in Seq(Constructors) /\ Len(Registered) \in Nat
  /\ \A i \in 1..Len(Registered) : Registered[i] \in Constructors
<1>1. Registered \in Seq(Constructors)
  BY RegistryAssumption
<1> QED BY <1>1, LenProperties, ElementOfSeq

\* Constructors are things an array may hold.
LEMMA ConstructorIsCell ==
  ASSUME NEW xs \in Seq(Constructors), NEW i \in 1..Len(xs)
  PROVE  xs[i] \in Cell
<1>1. xs[i] \in Constructors
  BY ElementOfSeq, Zenon
<1> QED BY <1>1 DEF Cell

\* A function on an initial segment of the positive numbers is a sequence.
LEMMA RowIsSeq ==
  ASSUME NEW S, NEW n \in Nat, NEW row \in [1..n -> S]
  PROVE  row \in Seq(S) /\ Len(row) = n
OBVIOUS

-----------------------------------------------------------------------------
\* One append of one application.

\* An append in place changes no array but that of the slice, of this no
\* element below the slice's end, and no array's length.
Rewrites(new, heap, array, len, xs) ==
  /\ new \in Seq(Seq(Cell)) /\ Len(new) = Len(heap)
  /\ \A k \in 1..Len(heap) : k # array => new[k] = heap[k]
  /\ Len(new[array]) = Len(heap[array])
  /\ \A i \in 1..len : new[array][i] = heap[array][i]
  /\ \A i \in 1..Len(xs) : new[array][len + i] = xs[i]

LEMMA OverwrittenFacts ==
  ASSUME NEW heap \in Seq(Seq(Cell)), NEW array \in 1..Len(heap), NEW len \in Nat,
         NEW xs \in Seq(Constructors), Fits(heap, Slice(array, len), xs),
         NEW new, new = Overwritten(heap, Slice(array, len), xs)
  PROVE  Rewrites(new, heap, array, len, xs)
<1> DEFINE n == Len(heap[array])
           row == [i \in 1..n |->
                     IF i \in (len + 1)..(len + Len(xs)) THEN xs[i - len]
                                                         ELSE heap[array][i]]
<1>1. new = [heap EXCEPT ![array] = row]
  BY DEF Overwritten, Slice
<1>2. heap[array] \in Seq(Cell)
  BY ElementOfSeq, Zenon
<1>3. n \in Nat /\ Len(xs) \in Nat
  BY <1>2, LenProperties
<1>4. len + Len(xs) <= n
  BY DEF Fits, Slice
<1>5. row \in [1..n -> Cell]
  <2>1. ASSUME NEW i \in 1..n PROVE row[i] \in Cell
    <3>1. CASE i \in (len + 1)..(len + Len(xs))
      <4>1. i - len \in 1..Len(xs)
        BY <3>1, <1>3
      <4> QED BY <4>1, <3>1, ConstructorIsCell
    <3>2. CASE i \notin (len + 1)..(len + Len(xs))
      <4>1. heap[array][i] \in Cell
        BY <1>2, ElementOfSeq, Zenon
      <4> QED BY <4>1, <3>2
    <3> QED BY <3>1, <3>2
  <2> QED BY <2>1
<1>6. \A i \in 1..len : row[i] = heap[array][i]
  BY <1>3, <1>4
<1>7. \A i \in 1..Len(xs) : row[len + i] = xs[i]
  BY <1>3, <1>4
<1> HIDE DEF row, n
<1>8. row \in Seq(Cell) /\ Len(row) = n
  BY <1>3, <1>5, RowIsSeq
<1>9. /\ new \in Seq(Seq(Cell)) /\ Len(new) = Len(heap) /\ new[array] = row
      /\ \A k \in 1..Len(heap) : k # array => new[k] = heap[k]
  BY <1>1, <1>8, ExceptSeq
<1> QED BY <1>6, <1>7, <1>8, <1>9 DEF n, Rewrites

\* A new array begins with the slice, and goes on with what is appended.
Continues(new, heap, array, len, xs) ==
  /\ new \in Seq(Seq(Cell)) /\ Len(new) = Len(heap) + 1
  /\ \A k \in 1..Len(heap) : new[k] = heap[k]
  /\ Len(new[Len(heap) + 1]) >= len + Len(xs)
  /\ \A i \in 1..len : new[Len(heap) + 1][i] = heap[array][i]
  /\ \A i \in 1..Len(xs) : new[Len(heap) + 1][len + i] = xs[i]

LEMMA GrownFacts ==
  ASSUME NEW heap \in Seq(Seq(Cell)), NEW array \in 1..Len(heap), NEW len \in Nat,
         len <= Len(heap[array]), NEW xs \in Seq(Constructors), NEW spare \in Nat
  PROVE  Continues(Grown(heap, Slice(array, len), xs, spare), heap, array, len, xs)
<1> DEFINE n == len + Len(xs) + spare
           row == [i \in 1..n |->
                     IF i <= len THEN heap[array][i]
                     ELSE IF i <= len + Len(xs) THEN xs[i - len]
                                                ELSE NoConstructor]
<1> DEFINE new == Append(heap, row)
<1>1. Grown(heap, Slice(array, len), xs, spare) = new
  BY DEF Grown, Slice
<1>2. heap[array] \in Seq(Cell)
  BY ElementOfSeq, Zenon
<1>3. n \in Nat /\ Len(xs) \in Nat /\ Len(heap[array]) \in Nat
  BY <1>2, LenProperties
<1>4. row \in [1..n -> Cell]
  <2>1. ASSUME NEW i \in 1..n PROVE row[i] \in Cell
    <3>1. CASE i <= len
      <4>1. i \in 1..Len(heap[array])
        BY <3>1, <1>3
      <4>2. heap[array][i] \in Cell
        BY <4>1, <1>2, ElementOfSeq, Zenon
      <4> QED BY <4>2, <3>1
    <3>2. CASE i > len /\ i <= len + Len(xs)
      <4>1. i - len \in 1..Len(xs)
        BY <3>2, <1>3
      <4> QED BY <4>1, <3>2, ConstructorIsCell
    <3>3. CASE i > len + Len(xs)
      BY <3>3, <1>3 DEF Cell
    <3> QED BY <3>1, <3>2, <3>3, <1>3
  <2> QED BY <2>1
<1>5. \A i \in 1..len : row[i] = heap[array][i]
  BY <1>3
<1>6. \A i \in 1..Len(xs) : row[len + i] = xs[i]
  BY <1>3
<1> HIDE DEF row, n
<1>7. row \in Seq(Cell) /\ Len(row) = n
  BY <1>3, <1>4, RowIsSeq
<1>8. /\ new \in Seq(Seq(Cell)) /\ Len(new) = Len(heap) + 1
      /\ new[Len(heap) + 1] = row
      /\ \A k \in 1..Len(heap) : new[k] = heap[k]
  BY <1>7, AppendProperties
<1> HIDE DEF new
<1>9. Len(row) >= len + Len(xs)
  BY <1>3, <1>7 DEF n
<1> QED BY <1>1, <1>5, <1>6, <1>8, <1>9 DEF Continues

\* What one append comes to, of the arrays and of the slice it returns: it is
\* no append, one in place, or one into a new array.
Appended(heap, array, len, xs, r) ==
  /\ r.arrays \in Seq(Seq(Cell)) /\ Len(r.arrays) >= Len(heap)
  /\ r.slice = Slice(r.slice.array, len + Len(xs))
  /\ r.slice.array \in {array, Len(heap) + 1}
  /\ r.slice.array = array => Len(r.arrays) = Len(heap)
  /\ r.slice.array # array => Len(r.arrays) = Len(heap) + 1
  /\ len + Len(xs) <= Len(r.arrays[r.slice.array])
  /\ \A k \in 1..Len(heap) : Len(r.arrays[k]) = Len(heap[k])
  /\ \A k \in 1..Len(heap) :
       k # array \/ r.slice.array # array \/ xs = <<>> => r.arrays[k] = heap[k]
  /\ \A i \in 1..len : r.arrays[array][i] = heap[array][i]
  /\ \A i \in 1..len : r.arrays[r.slice.array][i] = heap[array][i]
  /\ \A i \in 1..Len(xs) : r.arrays[r.slice.array][len + i] = xs[i]

LEMMA AppendFacts ==
  ASSUME NEW heap \in Seq(Seq(Cell)), NEW array \in 1..Len(heap), NEW len \in Nat,
         len <= Len(heap[array]), NEW xs \in Seq(Constructors), NEW spare \in Nat,
         NEW r, r = AppendTo(heap, Slice(array, len), xs, spare)
  PROVE  Appended(heap, array, len, xs, r)
<1>0. Len(heap) \in Nat /\ Len(xs) \in Nat /\ heap[array] \in Seq(Cell)
  BY LenProperties, ElementOfSeq, Zenon
<1>1. CASE xs = <<>>
  <2>1. r = [arrays |-> heap, slice |-> Slice(array, len)]
    BY <1>1 DEF AppendTo
  <2>2. r.arrays = heap /\ r.slice = Slice(array, len) /\ r.slice.array = array
    BY <2>1 DEF Slice
  <2>3. Len(xs) = 0
    BY <1>1
  <2> QED BY <2>2, <2>3, <1>0, <1>1 DEF Appended
<1>2. CASE xs # <<>> /\ Fits(heap, Slice(array, len), xs)
  <2> DEFINE new == Overwritten(heap, Slice(array, len), xs)
  <2>1. r = [arrays |-> new, slice |-> Slice(array, len + Len(xs))]
    BY <1>2 DEF AppendTo, Slice
  <2>2. r.arrays = new /\ r.slice = Slice(array, len + Len(xs)) /\ r.slice.array = array
    BY <2>1 DEF Slice
  <2>3. len + Len(xs) <= Len(heap[array])
    BY <1>2 DEF Fits, Slice
  <2> HIDE DEF new
  <2>4. Rewrites(new, heap, array, len, xs)
    BY <1>2, OverwrittenFacts, Zenon DEF new
  <2>5. \A k \in 1..Len(heap) : Len(new[k]) = Len(heap[k])
    BY <2>4 DEF Rewrites
  <2>6. /\ new \in Seq(Seq(Cell)) /\ Len(new) = Len(heap)
        /\ \A k \in 1..Len(heap) : k # array => new[k] = heap[k]
        /\ Len(new[array]) = Len(heap[array])
        /\ \A i \in 1..len : new[array][i] = heap[array][i]
        /\ \A i \in 1..Len(xs) : new[array][len + i] = xs[i]
    BY <2>4 DEF Rewrites
  <2>7. /\ r.arrays \in Seq(Seq(Cell)) /\ Len(r.arrays) = Len(heap)
        /\ r.slice = Slice(r.slice.array, len + Len(xs)) /\ r.slice.array = array
        /\ len + Len(xs) <= Len(r.arrays[r.slice.array])
        /\ r.arrays[r.slice.array] = r.arrays[array]
    BY <2>2, <2>3, <2>6
  <2>8. /\ \A k \in 1..Len(heap) : Len(r.arrays[k]) = Len(heap[k])
        /\ \A k \in 1..Len(heap) : k # array => r.arrays[k] = heap[k]
        /\ \A i \in 1..len : r.arrays[array][i] = heap[array][i]
        /\ \A i \in 1..Len(xs) : r.arrays[array][len + i] = xs[i]
    BY <2>2, <2>5, <2>6
  <2>9. array # Len(heap) + 1 /\ Len(r.arrays) >= Len(heap)
    BY <1>0, <2>7
  <2> QED BY <2>7, <2>8, <2>9, <1>2 DEF Appended
<1>3. CASE xs # <<>> /\ ~Fits(heap, Slice(array, len), xs)
  <2> DEFINE new == Grown(heap, Slice(array, len), xs, spare)
  <2>1. r = [arrays |-> new, slice |-> Slice(Len(heap) + 1, len + Len(xs))]
    BY <1>3 DEF AppendTo, Slice
  <2>2. /\ r.arrays = new /\ r.slice = Slice(Len(heap) + 1, len + Len(xs))
        /\ r.slice.array = Len(heap) + 1
    BY <2>1 DEF Slice
  <2> HIDE DEF new
  <2>3. Continues(new, heap, array, len, xs)
    BY GrownFacts, Zenon DEF new
  <2>4. r.slice.array # array
    BY <2>2, <1>0
  <2>5. \A k \in 1..Len(heap) : r.arrays[k] = heap[k]
    BY <2>2, <2>3 DEF Continues
  <2>6. len + Len(xs) <= Len(r.arrays[r.slice.array])
    BY <2>2, <2>3, <1>0 DEF Continues
  <2>7. r.slice = Slice(r.slice.array, len + Len(xs))
    BY <2>2
  <2>8. r.arrays[array] = heap[array]
    BY <2>5
  <2>9. r.arrays[r.slice.array] = new[Len(heap) + 1]
    BY <2>2
  <2>10. r.arrays \in Seq(Seq(Cell)) /\ Len(r.arrays) = Len(heap) + 1
    BY <2>2, <2>3 DEF Continues
  <2>11. /\ \A i \in 1..len : r.arrays[r.slice.array][i] = heap[array][i]
         /\ \A i \in 1..Len(xs) : r.arrays[r.slice.array][len + i] = xs[i]
    BY <2>3, <2>9 DEF Continues
  <2>12. \A k \in 1..Len(heap) : Len(r.arrays[k]) = Len(heap[k])
    BY <2>5
  <2>13. r.slice.array = Len(heap) + 1
    BY <2>2
  <2> QED BY <2>4, <2>5, <2>6, <2>7, <2>8, <2>10, <2>11, <2>12, <2>13, <1>0 DEF Appended
<1> QED BY <1>1, <1>2, <1>3
\* Who appends is marked, if it was in the registry's array.
Marked(a, s, ap) == ap \cup {b \in {a} : InRegistry(s)}

\* An append of one application keeps the invariant.
LEMMA AppendSound ==
  ASSUME NEW heap, NEW sl, NEW gv, NEW ap, Sound(heap, sl, gv, ap),
         NEW a \in Apps, sl[a].array # 0,
         NEW xs \in Seq(Constructors), NEW spare \in Nat,
         NEW r, r = AppendTo(heap, sl[a], xs, spare)
  PROVE  /\ Sound(r.arrays, [sl EXCEPT ![a] = r.slice],
                  [gv EXCEPT ![a] = @ \o xs], Marked(a, r.slice, ap))
         /\ r.slice.array # 0
<1> DEFINE array == sl[a].array
           len   == sl[a].len
           sl2   == [sl EXCEPT ![a] = r.slice]
           gv2   == [gv EXCEPT ![a] = @ \o xs]
           ap2   == Marked(a, r.slice, ap)
<1>1. /\ heap \in Seq(Seq(Cell)) /\ Len(heap) \in Nat /\ Len(heap) > 0
      /\ sl \in [Apps -> [array : Nat, len : Nat]]
      /\ gv \in [Apps -> Seq(Constructors)] /\ ap \subseteq Apps
  BY LenProperties DEF Sound, Typed
<1>2. /\ array \in 1..Len(heap) /\ len \in Nat /\ len <= Len(heap[array])
      /\ sl[a] = Slice(array, len)
  BY <1>1 DEF Sound, Within, Slice
<1>3. Len(xs) \in Nat /\ gv[a] \in Seq(Constructors) /\ Len(gv[a]) = len
  BY <1>1, <1>2, LenProperties DEF Sound, Kept
<1> HIDE DEF array, len
<1>4. Appended(heap, array, len, xs, r)
  <2>1. r = AppendTo(heap, Slice(array, len), xs, spare)
    BY <1>2
  <2> QED BY <2>1, <1>1, <1>2, AppendFacts, Zenon
<1>41. /\ r.arrays \in Seq(Seq(Cell)) /\ Len(r.arrays) >= Len(heap)
       /\ r.slice.array \in {array, Len(heap) + 1}
       /\ r.slice.array = array => Len(r.arrays) = Len(heap)
       /\ r.slice.array # array => Len(r.arrays) = Len(heap) + 1
       /\ len + Len(xs) <= Len(r.arrays[r.slice.array])
  BY <1>4 DEF Appended
<1>42. /\ \A k \in 1..Len(heap) : Len(r.arrays[k]) = Len(heap[k])
       /\ \A k \in 1..Len(heap) :
            k # array \/ r.slice.array # array \/ xs = <<>> => r.arrays[k] = heap[k]
  BY <1>4 DEF Appended
<1>43. /\ \A i \in 1..len : r.arrays[array][i] = heap[array][i]
       /\ \A i \in 1..len : r.arrays[r.slice.array][i] = heap[array][i]
       /\ \A i \in 1..Len(xs) : r.arrays[r.slice.array][len + i] = xs[i]
  BY <1>4 DEF Appended
<1>5. Len(r.arrays) \in Nat
  BY <1>41, LenProperties
<1>6. /\ r.slice \in [array : Nat, len : Nat] /\ r.slice.len = len + Len(xs)
      /\ r.slice.array \in 1..Len(r.arrays)
  <2>1. r.slice = [array |-> r.slice.array, len |-> len + Len(xs)]
    BY <1>4 DEF Appended, Slice
  <2>2. r.slice.len = len + Len(xs)
    BY <2>1
  <2>3. r.slice.array \in 1..Len(r.arrays)
    <3>1. CASE r.slice.array = array
      BY <3>1, <1>2, <1>41
    <3>2. CASE r.slice.array # array
      <4>1. r.slice.array = Len(heap) + 1 /\ Len(r.arrays) = Len(heap) + 1
        BY <3>2, <1>41
      <4> QED BY <4>1, <1>1
    <3> QED BY <3>1, <3>2
  <2>4. r.slice.array \in Nat /\ len + Len(xs) \in Nat
    BY <2>3, <1>2, <1>3, <1>5
  <2>5. r.slice \in [array : Nat, len : Nat]
    BY <2>1, <2>4
  <2> QED BY <2>2, <2>3, <2>5
<1>7. /\ sl2 \in [Apps -> [array : Nat, len : Nat]] /\ sl2[a] = r.slice
      /\ \A b \in Apps : b # a => sl2[b] = sl[b]
  BY <1>1, <1>6
<1>8. /\ gv2 \in [Apps -> Seq(Constructors)] /\ gv2[a] = gv[a] \o xs
      /\ \A b \in Apps : b # a => gv2[b] = gv[b]
  <2>1. gv[a] \o xs \in Seq(Constructors)
    BY <1>3, ConcatProperties
  <2> QED BY <2>1, <1>1
<1>9. /\ ap2 \subseteq Apps /\ ap \subseteq ap2
      /\ InRegistry(r.slice) => a \in ap2 /\ \A b \in ap2 : b # a => b \in ap
      /\ \A b \in Apps : b # a => (b \in ap2 <=> b \in ap)
  BY <1>1 DEF Marked
<1>10. /\ Len(gv2[a]) = len + Len(xs)
       /\ \A i \in 1..(len + Len(xs)) :
            gv2[a][i] = IF i <= len THEN gv[a][i] ELSE xs[i - len]
  BY <1>3, <1>8, ConcatProperties
<1> HIDE DEF sl2, gv2, ap2
<1>11. Typed(r.arrays, sl2, gv2, ap2)
  <2>1. Len(r.arrays) > 0
    BY <1>1, <1>41, <1>5
  <2> QED BY <1>41, <1>7, <1>8, <1>9, <2>1 DEF Typed
<1>12. Within(r.arrays, sl2)
  <2> SUFFICES ASSUME NEW b \in Apps
               PROVE  /\ sl2[b].array <= Len(r.arrays)
                      /\ sl2[b].array # 0 => sl2[b].len <= Len(r.arrays[sl2[b].array])
    BY DEF Within
  <2>1. CASE b = a
    BY <2>1, <1>41, <1>5, <1>6, <1>7
  <2>2. CASE b # a
    <3>1. /\ sl2[b] = sl[b] /\ sl[b].array \in Nat /\ sl[b].array <= Len(heap)
          /\ sl[b].array # 0 => sl[b].len <= Len(heap[sl[b].array])
      BY <2>2, <1>1, <1>7 DEF Sound, Within
    <3>2. sl[b].array # 0 => Len(r.arrays[sl[b].array]) = Len(heap[sl[b].array])
      BY <3>1, <1>1, <1>42
    <3>3. Len(heap) <= Len(r.arrays) /\ Len(heap) \in Nat
      BY <1>1, <1>41
    <3> QED BY <3>1, <3>2, <3>3, <1>5
  <2> QED BY <2>1, <2>2
<1>13. Private(sl2)
  <2> SUFFICES ASSUME NEW b \in Apps, NEW c \in Apps, b # c, sl2[b].array = sl2[c].array
               PROVE  sl2[b].array \in {0, 1}
    BY DEF Private
  <2>1. \A d \in Apps : sl[d].array <= Len(heap) /\ sl[d].array \in Nat
    BY <1>1 DEF Sound, Within
  <2>2. ASSUME NEW d \in Apps, d # a PROVE sl2[d].array # Len(heap) + 1
    <3>1. sl2[d] = sl[d] /\ sl[d].array <= Len(heap) /\ sl[d].array \in Nat
      BY <2>1, <2>2, <1>7
    <3> QED BY <3>1, <1>1
  <2>3. r.slice.array = Len(heap) + 1 => b # a /\ c # a
    BY <2>2, <1>7
  <2>4. r.slice.array = array => sl2[b].array = sl[b].array /\ sl2[c].array = sl[c].array
    BY <1>7 DEF array
  <2>5. sl2[b].array = sl[b].array /\ sl2[c].array = sl[c].array
    BY <2>3, <2>4, <1>41, <1>7
  <2> QED BY <2>5 DEF Sound, Private
<1>14. AboveRegistry(sl2, ap2)
  <2> SUFFICES ASSUME NEW b \in Apps, sl2[b].array = 1
               PROVE  /\ sl2[b].len >= Len(Registered)
                      /\ b \notin ap2 => sl2[b].len = Len(Registered)
    BY DEF AboveRegistry
  <2>1. CASE b # a
    BY <2>1, <1>7, <1>9 DEF Sound, AboveRegistry
  <2>2. CASE b = a
    <3>1. r.slice.array = 1
      BY <2>2, <1>7
    <3>2. array = 1
      <4>1. Len(heap) + 1 # 1
        BY <1>1
      <4> QED BY <3>1, <4>1, <1>41
    <3>3. len >= Len(Registered)
      BY <3>1, <3>2 DEF Sound, AboveRegistry, array, len
    <3>4. r.slice.len > Len(Registered) => a \in ap2
      BY <3>1, <1>9 DEF InRegistry
    <3> QED BY <3>3, <3>4, <2>2, <1>2, <1>3, <1>6, <1>7, RegisteredFacts
  <2> QED BY <2>1, <2>2
<1>15. RegistryKept(r.arrays)
  <2>1. Len(r.arrays[1]) = Len(heap[1]) /\ RegistryKept(heap)
    <3>1. 1 \in 1..Len(heap)
      BY <1>1
    <3> QED BY <3>1, <1>42 DEF Sound
  <2>2. CASE array # 1
    <3>1. 1 \in 1..Len(heap)
      BY <1>1
    <3> QED BY <2>1, <2>2, <3>1, <1>42 DEF RegistryKept
  <2>3. CASE array = 1
    <3>1. Len(Registered) <= len
      BY <2>3 DEF Sound, AboveRegistry, array, len
    <3>2. \A i \in 1..Len(Registered) : i \in 1..len
      BY <3>1, <1>2, RegisteredFacts
    <3>3. \A i \in 1..Len(Registered) : r.arrays[1][i] = heap[1][i]
      BY <3>2, <2>3, <1>43
    <3> QED BY <2>1, <3>3 DEF RegistryKept
  <2> QED BY <2>2, <2>3
<1>16. Kept(r.arrays, sl2, gv2, ap2)
  <2> SUFFICES ASSUME NEW b \in Apps, sl2[b].array # 0
               PROVE  /\ Len(gv2[b]) = sl2[b].len
                      /\ \/ \A i \in 1..sl2[b].len : r.arrays[sl2[b].array][i] = gv2[b][i]
                         \/ Robbed(b, ap2)
    BY DEF Kept
  <2>1. CASE b = a
    <3>1. Len(gv2[a]) = sl2[a].len /\ sl2[a].len = len + Len(xs)
      BY <1>6, <1>7, <1>10
    <3>2. CASE Robbed(a, ap)
      BY <2>1, <3>1, <3>2, <1>9 DEF Robbed
    <3>3. CASE \A i \in 1..len : heap[array][i] = gv[a][i]
      <4> SUFFICES ASSUME NEW i \in 1..(len + Len(xs))
                   PROVE  r.arrays[r.slice.array][i] = gv2[a][i]
        BY <2>1, <3>1, <1>7
      <4>1. CASE i <= len
        <5>1. i \in 1..len
          BY <4>1, <1>2, <1>3
        <5> QED BY <4>1, <5>1, <3>3, <1>43, <1>10
      <4>2. CASE i > len
        <5>1. i - len \in 1..Len(xs) /\ len + (i - len) = i
          BY <4>2, <1>2, <1>3
        <5>2. r.arrays[r.slice.array][i] = xs[i - len]
          BY <5>1, <1>43
        <5>3. ~(i <= len)
          BY <4>2, <1>2, <1>3
        <5> QED BY <5>2, <5>3, <1>10
      <4> QED BY <4>1, <4>2, <1>2, <1>3
    <3> QED BY <3>2, <3>3, <1>2 DEF Sound, Kept, array, len
  <2>2. CASE b # a
    <3> DEFINE k == sl[b].array
    <3>1. sl2[b] = sl[b] /\ gv2[b] = gv[b]
      BY <2>2, <1>7, <1>8
    <3>2. /\ k \in 1..Len(heap) /\ Len(gv[b]) = sl[b].len /\ sl[b].len \in Nat
          /\ (\A i \in 1..sl[b].len : heap[k][i] = gv[b][i]) \/ Robbed(b, ap)
      BY <3>1, <1>1 DEF Sound, Kept, Within
    <3> HIDE DEF k
    <3>3. CASE Robbed(b, ap)
      BY <3>1, <3>2, <3>3, <1>9 DEF Robbed
    <3>4. CASE r.arrays[k] = heap[k]
      <4>1. (\A i \in 1..sl[b].len : r.arrays[k][i] = gv[b][i]) \/ Robbed(b, ap)
        BY <3>2, <3>4
      <4> QED BY <4>1, <3>1, <3>2, <1>9 DEF Robbed, k
    <3>5. CASE r.arrays[k] # heap[k]
      <4>1. k = array /\ r.slice.array = array /\ xs # <<>>
        BY <3>2, <3>5, <1>42
      <4>2. k = 1
        BY <4>1, <2>2, <3>2 DEF Sound, Private, array, k
      <4>3. len >= Len(Registered) /\ len \in Nat /\ Len(xs) > 0
        <5>1. array = 1
          BY <4>1, <4>2
        <5>2. len >= Len(Registered)
          BY <5>1 DEF Sound, AboveRegistry, array, len
        <5>3. Len(xs) > 0
          BY <4>1, <1>3, EmptySeq
        <5> QED BY <5>2, <5>3, <1>2
      <4>4. InRegistry(r.slice)
        BY <4>1, <4>2, <4>3, <1>3, <1>6, RegisteredFacts DEF InRegistry
      <4>5. a \in ap2
        BY <4>4, <1>9
      <4>6. CASE b \in ap
        BY <4>5, <4>6, <2>2, <3>1, <3>2, <1>9 DEF Robbed
      <4>7. CASE b \notin ap
        <5>1. sl[b].len = Len(Registered)
          BY <4>2, <4>7 DEF Sound, AboveRegistry, k
        <5>2. \A i \in 1..sl[b].len : r.arrays[k][i] = heap[k][i]
          BY <5>1, <4>1, <4>3, <1>43, RegisteredFacts
        <5> QED BY <5>2, <4>7, <3>1, <3>2 DEF Robbed, k
      <4> QED BY <4>6, <4>7
    <3> QED BY <3>4, <3>5
  <2> QED BY <2>1, <2>2
<1> QED BY <1>6, <1>11, <1>12, <1>13, <1>14, <1>15, <1>16
       DEF Sound, sl2, gv2, ap2
-----------------------------------------------------------------------------
\* The invariant of the specification.

LEMMA InitSound == RegistryInit => RegistryInv
<1> SUFFICES ASSUME RegistryInit PROVE RegistryInv
  OBVIOUS
<1>1. PICK spare \in 0..MaxSpare :
        arrays = << [i \in 1..(Len(Registered) + spare) |->
                       IF i <= Len(Registered) THEN Registered[i]
                                               ELSE NoConstructor] >>
  BY DEF RegistryInit
<1> DEFINE n == Len(Registered) + spare
           row == [i \in 1..n |-> IF i <= Len(Registered) THEN Registered[i]
                                                          ELSE NoConstructor]
<1>2. arrays = <<row>>
  BY <1>1
<1>3. spare \in Nat /\ n \in Nat
  BY RegistryAssumption, RegisteredFacts
<1>4. row \in [1..n -> Cell]
  <2>1. ASSUME NEW i \in 1..n PROVE row[i] \in Cell
    <3>1. i <= Len(Registered) => i \in 1..Len(Registered)
      BY <1>3, RegisteredFacts
    <3> QED BY <3>1, RegisteredFacts DEF Cell
  <2> QED BY <2>1
<1>5. \A i \in 1..Len(Registered) : row[i] = Registered[i]
  BY <1>3, RegisteredFacts
<1> HIDE DEF row, n
<1>6. row \in Seq(Cell) /\ Len(row) = n
  BY <1>3, <1>4, RowIsSeq
<1>7. arrays \in Seq(Seq(Cell)) /\ Len(arrays) = 1 /\ arrays[1] = row
  BY <1>2, <1>6
<1>8. /\ slice = [a \in Apps |-> [array |-> 0, len |-> 0]]
      /\ given = [a \in Apps |-> <<>>] /\ appended = {}
  BY DEF RegistryInit, Slice
<1>9. \A a \in Apps : slice[a].array = 0 /\ slice[a].len = 0
  BY <1>8
<1>10. Typed(arrays, slice, given, appended)
  <2>1. slice \in [Apps -> [array : Nat, len : Nat]]
    BY <1>8
  <2>2. given \in [Apps -> Seq(Constructors)]
    BY <1>8, EmptySeq
  <2> QED BY <2>1, <2>2, <1>7, <1>8 DEF Typed
<1>11. Within(arrays, slice) /\ Private(slice) /\ AboveRegistry(slice, appended)
  BY <1>7, <1>9 DEF Within, Private, AboveRegistry
<1>12. Kept(arrays, slice, given, appended)
  BY <1>9 DEF Kept
<1>13. RegistryKept(arrays)
  BY <1>3, <1>5, <1>6, <1>7, RegisteredFacts DEF RegistryKept, n
<1> QED BY <1>10, <1>11, <1>12, <1>13 DEF RegistryInv, Sound

LEMMA NewApplicationSound ==
  ASSUME RegistryInv, NEW a \in Apps, NewApplication(a)
  PROVE  RegistryInv'
<1> USE DEF Slice
<1>1. /\ slice[a].array = 0 /\ arrays' = arrays /\ appended' = appended
      /\ slice' = [slice EXCEPT ![a] = [array |-> 1, len |-> Len(Registered)]]
      /\ given' = [given EXCEPT ![a] = Registered]
  BY DEF NewApplication, Exists
<1>2. /\ arrays \in Seq(Seq(Cell)) /\ Len(arrays) \in Nat /\ Len(arrays) > 0
      /\ slice \in [Apps -> [array : Nat, len : Nat]]
      /\ given \in [Apps -> Seq(Constructors)] /\ appended \subseteq Apps
  BY LenProperties DEF RegistryInv, Sound, Typed
<1>3. /\ slice' \in [Apps -> [array : Nat, len : Nat]]
      /\ slice'[a].array = 1 /\ slice'[a].len = Len(Registered)
      /\ \A b \in Apps : b # a => slice'[b] = slice[b]
  BY <1>1, <1>2, RegisteredFacts
<1>4. /\ given' \in [Apps -> Seq(Constructors)] /\ given'[a] = Registered
      /\ \A b \in Apps : b # a => given'[b] = given[b]
  BY <1>1, <1>2, RegisteredFacts
<1>5. Typed(arrays', slice', given', appended')
  BY <1>1, <1>2, <1>3, <1>4 DEF Typed
<1>6. Within(arrays', slice')
  BY <1>1, <1>2, <1>3 DEF RegistryInv, Sound, Within, RegistryKept
<1>7. Private(slice')
  BY <1>3 DEF RegistryInv, Sound, Private
<1>8. AboveRegistry(slice', appended')
  BY <1>1, <1>3, RegisteredFacts DEF RegistryInv, Sound, AboveRegistry
<1>9. RegistryKept(arrays')
  BY <1>1 DEF RegistryInv, Sound
<1>10. Kept(arrays', slice', given', appended')
  BY <1>1, <1>3, <1>4 DEF RegistryInv, Sound, Kept, RegistryKept
<1> QED BY <1>5, <1>6, <1>7, <1>8, <1>9, <1>10 DEF RegistryInv, Sound

LEMMA SetPluginsSound ==
  ASSUME RegistryInv, NEW a \in Apps, NEW xs \in PluginLists, SetPlugins(a, xs)
  PROVE  RegistryInv'
<1> USE DEF Slice
<1> DEFINE n == Len(arrays) + 1
<1>1. /\ arrays' = Append(arrays, xs) /\ appended' = appended
      /\ slice' = [slice EXCEPT ![a] = [array |-> n, len |-> Len(xs)]]
      /\ given' = [given EXCEPT ![a] = xs]
  BY DEF SetPlugins
<1>2. /\ arrays \in Seq(Seq(Cell)) /\ Len(arrays) \in Nat /\ Len(arrays) > 0
      /\ slice \in [Apps -> [array : Nat, len : Nat]]
      /\ given \in [Apps -> Seq(Constructors)] /\ appended \subseteq Apps
  BY LenProperties DEF RegistryInv, Sound, Typed
<1>3. xs \in Seq(Constructors) /\ xs \in Seq(Cell) /\ Len(xs) \in Nat
  <2>1. xs \in Seq(Constructors)
    BY RegistryAssumption
  <2> QED BY <2>1, SeqMonotonic, LenProperties DEF Cell
<1>4. /\ arrays' \in Seq(Seq(Cell)) /\ Len(arrays') = n /\ arrays'[n] = xs
      /\ \A k \in 1..Len(arrays) : arrays'[k] = arrays[k]
  BY <1>1, <1>2, <1>3, AppendProperties
<1> HIDE DEF n
<1>5. n = Len(arrays) + 1 /\ n \in Nat /\ n > 1
  BY <1>2 DEF n
<1>6. /\ slice' \in [Apps -> [array : Nat, len : Nat]]
      /\ slice'[a].array = n /\ slice'[a].len = Len(xs)
      /\ \A b \in Apps : b # a => slice'[b] = slice[b]
  BY <1>1, <1>2, <1>3, <1>5
<1>7. /\ given' \in [Apps -> Seq(Constructors)] /\ given'[a] = xs
      /\ \A b \in Apps : b # a => given'[b] = given[b]
  BY <1>1, <1>2, <1>3
<1>8. \A b \in Apps : slice[b].array \in Nat /\ slice[b].array <= Len(arrays)
  BY <1>2 DEF RegistryInv, Sound, Within
<1>9. \A b \in Apps : slice[b].array # 0 => arrays'[slice[b].array] = arrays[slice[b].array]
  BY <1>2, <1>4, <1>8
<1>10. Typed(arrays', slice', given', appended')
  BY <1>1, <1>2, <1>4, <1>5, <1>6, <1>7 DEF Typed
<1>11. Within(arrays', slice')
  <2> SUFFICES ASSUME NEW b \in Apps
               PROVE  /\ slice'[b].array <= Len(arrays')
                      /\ slice'[b].array # 0 => slice'[b].len <= Len(arrays'[slice'[b].array])
    BY DEF Within
  <2>1. CASE b = a
    BY <2>1, <1>3, <1>4, <1>5, <1>6
  <2>2. CASE b # a
    <3>1. slice[b].array # 0 => slice[b].len <= Len(arrays[slice[b].array])
      BY DEF RegistryInv, Sound, Within
    <3>2. slice'[b] = slice[b] /\ slice[b].array \in Nat /\ slice[b].array <= Len(arrays)
      BY <2>2, <1>6, <1>8
    <3>3. slice'[b].array <= Len(arrays')
      BY <3>2, <1>2, <1>4, <1>5
    <3> QED BY <3>1, <3>2, <3>3, <1>9
  <2> QED BY <2>1, <2>2
<1>12. Private(slice')
  BY <1>5, <1>6, <1>8 DEF RegistryInv, Sound, Private
<1>13. AboveRegistry(slice', appended')
  BY <1>1, <1>5, <1>6 DEF RegistryInv, Sound, AboveRegistry
<1>14. RegistryKept(arrays')
  <2>1. arrays'[1] = arrays[1]
    BY <1>2, <1>4
  <2> QED BY <2>1 DEF RegistryInv, Sound, RegistryKept
<1>15. Kept(arrays', slice', given', appended')
  <2> SUFFICES ASSUME NEW b \in Apps, slice'[b].array # 0
               PROVE  /\ Len(given'[b]) = slice'[b].len
                      /\ \/ \A i \in 1..slice'[b].len : arrays'[slice'[b].array][i] = given'[b][i]
                         \/ Robbed(b, appended)
    BY <1>1 DEF Kept
  <2>1. CASE b = a
    BY <2>1, <1>4, <1>6, <1>7
  <2>2. CASE b # a
    <3>1. /\ slice'[b] = slice[b] /\ given'[b] = given[b]
          /\ arrays'[slice[b].array] = arrays[slice[b].array]
      BY <2>2, <1>6, <1>7, <1>9
    <3>2. /\ Len(given[b]) = slice[b].len
          /\ \/ \A i \in 1..slice[b].len : arrays[slice[b].array][i] = given[b][i]
             \/ Robbed(b, appended)
      BY <3>1 DEF RegistryInv, Sound, Kept
    <3> QED BY <3>1, <3>2
  <2> QED BY <2>1, <2>2
<1> QED BY <1>10, <1>11, <1>12, <1>13, <1>14, <1>15 DEF RegistryInv, Sound

LEMMA AddModuleSound ==
  ASSUME RegistryInv, NEW a \in Apps, NEW m \in Modules, AddModule(a, m)
  PROVE  RegistryInv'
<1> DEFINE xs == Controllers[m]
           ys == Provide[m]
<1>1. PICK spare1 \in 0..MaxSpare, spare2 \in 0..MaxSpare :
       LET one == AppendTo(arrays, slice[a], Controllers[m], spare1)
           two == AppendTo(one.arrays, one.slice, Provide[m], spare2)
       IN  /\ arrays' = two.arrays
           /\ slice' = [slice EXCEPT ![a] = two.slice]
           /\ given' = [given EXCEPT ![a] = (@ \o Controllers[m]) \o Provide[m]]
           /\ appended' = appended \cup
                {b \in {a} : InRegistry(one.slice) \/ InRegistry(two.slice)}
  BY DEF AddModule
<1> DEFINE one == AppendTo(arrays, slice[a], xs, spare1)
           two == AppendTo(one.arrays, one.slice, ys, spare2)
           sl1 == [slice EXCEPT ![a] = one.slice]
           gv1 == [given EXCEPT ![a] = @ \o xs]
           ap1 == Marked(a, one.slice, appended)
<1>2. /\ arrays' = two.arrays /\ slice' = [slice EXCEPT ![a] = two.slice]
      /\ given' = [given EXCEPT ![a] = (@ \o xs) \o ys]
      /\ appended' = appended \cup
           {b \in {a} : InRegistry(one.slice) \/ InRegistry(two.slice)}
  BY <1>1, Zenon
<1>3. /\ xs \in Seq(Constructors) /\ ys \in Seq(Constructors)
      /\ spare1 \in Nat /\ spare2 \in Nat /\ slice[a].array # 0
  BY RegistryAssumption DEF AddModule, Exists
<1>4. slice \in [Apps -> [array : Nat, len : Nat]] /\ given \in [Apps -> Seq(Constructors)]
  BY DEF RegistryInv, Sound, Typed
<1> HIDE DEF xs, ys, one
<1>5. Sound(one.arrays, sl1, gv1, ap1) /\ one.slice.array # 0
  <2>1. one = AppendTo(arrays, slice[a], xs, spare1)
    BY DEF one
  <2>2. Sound(arrays, slice, given, appended)
    BY DEF RegistryInv
  <2> QED BY <2>1, <2>2, <1>3, AppendSound
<1>6. sl1[a] = one.slice /\ [sl1 EXCEPT ![a] = two.slice] = slice'
  BY <1>2, <1>4
<1>7. [gv1 EXCEPT ![a] = @ \o ys] = given'
  BY <1>2, <1>4
<1>8. Marked(a, two.slice, ap1) = appended'
  BY <1>2 DEF Marked
<1> HIDE DEF two, sl1, gv1, ap1
<1>9. two = AppendTo(one.arrays, sl1[a], ys, spare2)
  BY <1>6 DEF two
<1>10. Sound(two.arrays, [sl1 EXCEPT ![a] = two.slice], [gv1 EXCEPT ![a] = @ \o ys],
             Marked(a, two.slice, ap1))
  BY <1>3, <1>5, <1>6, <1>9, AppendSound, Zenon
<1> QED BY <1>2, <1>6, <1>7, <1>8, <1>10 DEF RegistryInv

LEMMA NextSound == RegistryInv /\ [RegistryNext]_registryVars => RegistryInv'
<1> SUFFICES ASSUME RegistryInv, [RegistryNext]_registryVars PROVE RegistryInv'
  OBVIOUS
<1>1. CASE UNCHANGED registryVars
  BY <1>1 DEF registryVars, RegistryInv, Sound, Typed, Within, Private, AboveRegistry,
              RegistryKept, Kept
<1>2. ASSUME NEW a \in Apps, NewApplication(a) PROVE RegistryInv'
  BY <1>2, NewApplicationSound
<1>3. ASSUME NEW a \in Apps, NEW xs \in PluginLists, SetPlugins(a, xs) PROVE RegistryInv'
  BY <1>3, SetPluginsSound
<1>4. ASSUME NEW a \in Apps, NEW m \in Modules, AddModule(a, m) PROVE RegistryInv'
  BY <1>4, AddModuleSound
<1> QED BY <1>1, <1>2, <1>3, <1>4 DEF RegistryNext

LEMMA SoundMeans == RegistryInv => RegistryTypeOK /\ KeepsUnlessRobbed /\ RegistryIntact
<1> SUFFICES ASSUME RegistryInv PROVE RegistryTypeOK /\ KeepsUnlessRobbed /\ RegistryIntact
  OBVIOUS
<1>1. /\ arrays \in Seq(Seq(Cell)) /\ Len(arrays) \in Nat /\ Len(arrays) > 0
      /\ slice \in [Apps -> [array : Nat, len : Nat]]
      /\ given \in [Apps -> Seq(Constructors)] /\ appended \subseteq Apps
  BY LenProperties DEF RegistryInv, Sound, Typed
<1>2. RegistryTypeOK
  <2>1. \A a \in Apps : /\ slice[a].array \in 0..Len(arrays) /\ slice[a].len \in Nat
                        /\ slice[a].array # 0 => slice[a].len <= Len(arrays[slice[a].array])
    <3> SUFFICES ASSUME NEW a \in Apps
                 PROVE  /\ slice[a].array \in 0..Len(arrays) /\ slice[a].len \in Nat
                        /\ slice[a].array # 0 => slice[a].len <= Len(arrays[slice[a].array])
      OBVIOUS
    <3>1. /\ slice[a].array \in Nat /\ slice[a].len \in Nat
      BY <1>1
    <3>2. /\ slice[a].array <= Len(arrays)
          /\ slice[a].array # 0 => slice[a].len <= Len(arrays[slice[a].array])
      BY DEF RegistryInv, Sound, Within
    <3> QED BY <3>1, <3>2, <1>1
  <2>2. \A a \in Apps : slice[a] = [array |-> slice[a].array, len |-> slice[a].len]
    <3> SUFFICES ASSUME NEW a \in Apps
                 PROVE  slice[a] = [array |-> slice[a].array, len |-> slice[a].len]
      OBVIOUS
    <3>1. slice[a] \in [array : Nat, len : Nat]
      BY <1>1
    <3> QED BY <3>1
  <2>3. \A a \in Apps : slice[a] \in [array : 0..Len(arrays), len : Nat]
    <3> SUFFICES ASSUME NEW a \in Apps
                 PROVE  slice[a] \in [array : 0..Len(arrays), len : Nat]
      OBVIOUS
    <3>1. [array |-> slice[a].array, len |-> slice[a].len] \in [array : 0..Len(arrays), len : Nat]
      BY <2>1
    <3> QED BY <3>1, <2>2, Zenon
  <2>4. slice \in [Apps -> [array : 0..Len(arrays), len : Nat]]
    BY <2>3, <1>1
  <2> QED BY <2>1, <2>4, <1>1 DEF RegistryTypeOK, Exists, Cell
<1>3. KeepsUnlessRobbed
  <2> SUFFICES ASSUME NEW a \in Apps, slice[a].array # 0, ~Robbed(a, appended)
               PROVE  Contents(arrays, slice[a]) = given[a]
    BY DEF KeepsUnlessRobbed, Exists, Robbed
  <2>1. /\ given[a] \in Seq(Constructors) /\ Len(given[a]) = slice[a].len
        /\ \A i \in 1..slice[a].len : arrays[slice[a].array][i] = given[a][i]
    BY <1>1 DEF RegistryInv, Sound, Kept
  <2>2. given[a] = [i \in 1..slice[a].len |-> given[a][i]]
    BY <2>1
  <2> QED BY <2>1, <2>2 DEF Contents
<1>4. RegistryIntact
  <2>1. Registered = [i \in 1..Len(Registered) |-> Registered[i]]
    BY RegisteredFacts
  <2> QED BY <2>1 DEF RegistryInv, Sound, RegistryKept, RegistryIntact, Contents, Slice
<1> QED BY <1>2, <1>3, <1>4

\* The slices and arrays of app.go are well formed: no slice is longer than the
\* array it lies in.
THEOREM RegistryTypeCorrect == RegistrySpec => []RegistryTypeOK
<1>1. RegistrySpec => []RegistryInv
  BY InitSound, NextSound, PTL DEF RegistrySpec
<1> QED BY <1>1, SoundMeans, PTL

\* An application has lost a constructor (app.go:33-38) only if it and another
\* have appended where the registry's array had room.
THEOREM KeepsUnlessRobbedCorrect == RegistrySpec => []KeepsUnlessRobbed
<1>1. RegistrySpec => []RegistryInv
  BY InitSound, NextSound, PTL DEF RegistrySpec
<1> QED BY <1>1, SoundMeans, PTL

\* The registered plugins (app.go:18-21) survive whatever applications append.
THEOREM RegistryIntactCorrect == RegistrySpec => []RegistryIntact
<1>1. RegistrySpec => []RegistryInv
  BY InitSound, NextSound, PTL DEF RegistrySpec
<1> QED BY <1>1, SoundMeans, PTL

-----------------------------------------------------------------------------
\* The producer manager

\* Why there is one producer per label: while a caller has one created it holds
\* the mutex and its label is not filed.  So a label that is filed keeps the
\* producer it has, and whatever is open or was answered is what is filed.
CreatesAlone ==
  \A c \in Callers : at[c] = "create" => mu = c /\ asks[c] \notin Filed
AsksInside == \A c \in Callers : at[c] # "idle" => asks[c] \in Labels
OpenIsFiled == \A p \in open : producers[p[1]] = p[2]
AnswerIsFiled == \A c \in Callers : got[c] # Nobody => producers[got[c][1]] = got[c][2]

OneInv == CreatesAlone /\ AsksInside /\ OpenIsFiled /\ AnswerIsFiled
Inv == ProducerTypeOK /\ OneInv

LEMMA InitInv == ProducerInit => Inv
<1> SUFFICES ASSUME ProducerInit PROVE Inv
  OBVIOUS
<1>1. ProducerTypeOK
  <2>1. pmDown \in BOOLEAN
    BY Zenon DEF ProducerInit
  <2> QED BY <2>1 DEF ProducerInit, ProducerTypeOK, NewPulsarServer, ServerTypeOK
<1>2. OneInv
  BY DEF ProducerInit, OneInv, CreatesAlone, AsksInside, OpenIsFiled, AnswerIsFiled
<1> QED BY <1>1, <1>2 DEF Inv

\* What is filed stays filed, whoever asks for another label.
LEMMA FiledStays ==
  ASSUME Inv, NEW l \in Labels, l \notin Filed, NEW n \in Nat,
         producers' = [producers EXCEPT ![l] = n]
  PROVE  /\ \A k \in Labels, m \in Nat : producers[k] = m => producers'[k] = m
         /\ producers'[l] = n
BY ProducerAssumption DEF Inv, ProducerTypeOK, Filed

-----------------------------------------------------------------------------
\* The steps of a caller.

LEMMA CallerTypes ==
  ASSUME Inv, NEW c \in Callers, CallerNext(c)
  PROVE  ProducerTypeOK'
<1> USE DEF ProducerTypeOK
<1>0. ProducerTypeOK /\ AsksInside
  BY DEF Inv, OneInv
<1>1. CASE \E l \in Labels : AddProducer(c, l) \/ Producer(c, l)
  BY <1>0, <1>1 DEF AddProducer, Producer, ServerTypeOK, Filed
<1>2. CASE Reuse(c)
  <2>1. asks[c] \in Labels /\ producers[asks[c]] \in Nat
    BY <1>0, <1>2 DEF Reuse, Filed
  <2>2. <<asks[c], producers[asks[c]]>> \in Labels \X Nat
    BY <2>1
  <2> QED BY <1>0, <1>2, <2>2 DEF Reuse, Answered, ServerTypeOK
<1>3. CASE BeginCreate(c)
  BY <1>0, <1>3 DEF BeginCreate, ServerTypeOK
<1>4. CASE Created(c)
  <2>1. asks[c] \in Labels
    BY <1>0, <1>4 DEF Created, AsksInside
  <2>2. created' \in [Labels -> Nat] /\ created'[asks[c]] \in Nat
    BY <1>0, <1>4, <2>1 DEF Created
  <2>3. /\ producers' \in [Labels -> Nat \cup {NoProducer}]
        /\ open' \subseteq Labels \X Nat
    BY <1>0, <1>4, <2>1, <2>2 DEF Created
  <2>4. <<asks[c], created'[asks[c]]>> \in Labels \X Nat
    BY <2>1, <2>2
  <2> QED BY <1>0, <1>4, <2>2, <2>3, <2>4 DEF Created, Answered, ServerTypeOK
<1>5. CASE CreateFails(c)
  BY <1>0, <1>5 DEF CreateFails, Answered, ServerTypeOK
<1> QED BY <1>1, <1>2, <1>3, <1>4, <1>5 DEF CallerNext

LEMMA CallerOne ==
  ASSUME Inv, NEW c \in Callers, CallerNext(c)
  PROVE  OneInv'
<1> USE DEF OneInv, CreatesAlone, AsksInside, OpenIsFiled, AnswerIsFiled
<1>0. ProducerTypeOK /\ OneInv
  BY DEF Inv
<1>1. /\ at \in [Callers -> {"idle", "lock", "create"}]
      /\ asks \in [Callers -> Labels \cup {NoLabel}]
      /\ got \in [Callers -> (Labels \X Nat) \cup {Nobody}]
      /\ open \subseteq Labels \X Nat
      /\ producers \in [Labels -> Nat \cup {NoProducer}]
      /\ created \in [Labels -> Nat]
  BY <1>0 DEF ProducerTypeOK
<1>2. CASE \E l \in Labels : AddProducer(c, l)
  BY <1>0, <1>1, <1>2 DEF AddProducer, Filed
<1>3. CASE \E l \in Labels : Producer(c, l)
  BY <1>0, <1>1, <1>3 DEF Producer, Filed
<1>4. CASE Reuse(c)
  BY <1>0, <1>1, <1>4 DEF Reuse, Answered, Filed
<1>5. CASE BeginCreate(c)
  BY <1>0, <1>1, <1>5, CallerAssumption DEF BeginCreate, Free, Filed
<1>6. CASE Created(c)
  <2> DEFINE l == asks[c]  n == created'[l]
  <2>1. l \in Labels /\ l \notin Filed /\ n \in Nat
    BY <1>0, <1>1, <1>6 DEF Created
  <2>2. /\ \A k \in Labels, m \in Nat : producers[k] = m => producers'[k] = m
        /\ producers'[l] = n
    BY <1>6, <2>1, FiledStays DEF Created
  <2>3. open' = open \cup {<<l, n>>} /\ got' = [got EXCEPT ![c] = <<l, n>>]
    BY <1>6 DEF Created, Answered
  <2> HIDE DEF n
  <2>4. OpenIsFiled' /\ AnswerIsFiled'
    BY <1>0, <1>1, <2>1, <2>2, <2>3
  <2>5. \A b \in Callers : at'[b] # "create"
    BY <1>0, <1>1, <1>6 DEF Created, Answered
  <2>6. AsksInside'
    BY <1>0, <1>1, <1>6 DEF Created, Answered
  <2> QED BY <2>4, <2>5, <2>6
<1>7. CASE CreateFails(c)
  BY <1>0, <1>1, <1>7 DEF CreateFails, Answered
<1> QED BY <1>2, <1>3, <1>4, <1>5, <1>6, <1>7 DEF CallerNext

-----------------------------------------------------------------------------
\* The client and the hooks: they open nothing and file nothing.

LEMMA HookSteps ==
  ASSUME Inv, ConnectClient \/ Shutdown \/ ServerShutdown
  PROVE  Inv'
<1>1. /\ UNCHANGED <<producers, mu, asks, at, created, got>>
      /\ open' \subseteq open
  BY DEF ConnectClient, Shutdown, ServerShutdown
<1>2. client' \in {"nil", "open", "closed"}
  BY DEF ConnectClient, Shutdown, ServerShutdown, Connect, CloseClient, Inv,
         ProducerTypeOK, ServerTypeOK
<1>3. pmDown' \in BOOLEAN
  <2>1. pmDown \in BOOLEAN
    BY DEF Inv, ProducerTypeOK
  <2>2. pmDown' = pmDown \/ pmDown' = TRUE
    BY DEF ConnectClient, Shutdown, ServerShutdown
  <2> QED BY <2>1, <2>2
<1>4. ProducerTypeOK'
  BY <1>1, <1>2, <1>3 DEF Inv, ProducerTypeOK, ServerTypeOK
<1>5. OneInv'
  BY <1>1 DEF Inv, OneInv, CreatesAlone, AsksInside, OpenIsFiled, AnswerIsFiled, Filed
<1> QED BY <1>4, <1>5 DEF Inv

LEMMA NextInv == Inv /\ [ProducerNext]_producerVars => Inv'
<1> SUFFICES ASSUME Inv, [ProducerNext]_producerVars PROVE Inv'
  OBVIOUS
<1>1. CASE ConnectClient \/ Shutdown \/ ServerShutdown
  BY <1>1, HookSteps
<1>2. CASE \E c \in Callers : CallerNext(c)
  BY <1>2, CallerTypes, CallerOne DEF Inv
<1>3. CASE UNCHANGED producerVars
  BY <1>3 DEF producerVars, Inv, ProducerTypeOK, ServerTypeOK, OneInv, CreatesAlone,
              AsksInside, OpenIsFiled, AnswerIsFiled, Filed
<1> QED BY <1>1, <1>2, <1>3 DEF ProducerNext

LEMMA Invariance == ProducerSpec => []Inv
BY InitInv, NextInv, PTL DEF ProducerSpec

-----------------------------------------------------------------------------
\* The types of the manager's state, for any callers and labels.
THEOREM ProducerTypeCorrect == ProducerSpec => []ProducerTypeOK
<1>1. Inv => ProducerTypeOK
  BY DEF Inv
<1> QED BY <1>1, Invariance, PTL

\* However many callers ask for a label at once, one producer is created for it
\* and everybody gets that one (producer.go:88-108).
THEOREM OneProducerCorrect == ProducerSpec => []OneProducerPerLabel
<1>1. Inv => OneProducerPerLabel
  <2> SUFFICES ASSUME Inv PROVE OneProducerPerLabel
    OBVIOUS
  <2>1. \A p \in open : producers[p[1]] = p[2]
    BY DEF Inv, OneInv, OpenIsFiled
  <2>2. ASSUME NEW b \in Callers, NEW c \in Callers,
               got[b] # Nobody, got[c] # Nobody, got[b][1] = got[c][1]
        PROVE  got[b] = got[c]
    <3>1. got[b] \in Labels \X Nat /\ got[c] \in Labels \X Nat
      BY <2>2 DEF Inv, ProducerTypeOK
    <3>2. got[b][2] = got[c][2]
      BY <2>2 DEF Inv, OneInv, AnswerIsFiled
    <3> QED BY <2>2, <3>1, <3>2
  <2> QED BY <2>1, <2>2 DEF OneProducerPerLabel
<1> QED BY <1>1, Invariance, PTL

-----------------------------------------------------------------------------
\* Why an answer is open: a producer that is filed stays open until one of the
\* two hooks has run, and neither the manager nor the client comes back.

FiledIsOpen ==
  \A l \in Filed : <<l, producers[l]>> \in open \/ pmDown \/ client = "closed"

\* A producer is created with an open client only, and the client that is
\* closed has closed them all.
ClosedIsEmpty == client = "closed" => open = {}

OpenInv == Inv /\ FiledIsOpen /\ ClosedIsEmpty

LEMMA CallerOpen ==
  ASSUME OpenInv, NEW c \in Callers, CallerNext(c)
  PROVE  FiledIsOpen' /\ ClosedIsEmpty'
<1> USE DEF FiledIsOpen, ClosedIsEmpty
<1>0. Inv /\ FiledIsOpen /\ ClosedIsEmpty
  BY DEF OpenInv
<1>1. CASE UNCHANGED <<client, producers, open, pmDown>>
  BY <1>0, <1>1 DEF Filed
<1>2. CASE Created(c)
  <2> DEFINE l == asks[c]  n == created'[l]
  <2>1. l \in Labels /\ l \notin Filed /\ n \in Nat
    BY <1>0, <1>2 DEF Created, Inv, ProducerTypeOK, OneInv, CreatesAlone, AsksInside
  <2>2. producers' = [producers EXCEPT ![l] = n] /\ open' = open \cup {<<l, n>>}
    BY <1>2 DEF Created
  <2>3. client = "open" /\ UNCHANGED <<client, pmDown>>
    BY <1>2 DEF Created
  <2> HIDE DEF l, n
  <2>4. producers \in [Labels -> Nat \cup {NoProducer}]
    BY <1>0 DEF Inv, ProducerTypeOK
  <2> QED BY <1>0, <2>1, <2>2, <2>3, <2>4 DEF Filed
<1> QED BY <1>1, <1>2 DEF CallerNext, AddProducer, Producer, Reuse, BeginCreate,
           CreateFails

LEMMA OpenSteps == OpenInv /\ [ProducerNext]_producerVars => OpenInv'
<1> SUFFICES ASSUME OpenInv, [ProducerNext]_producerVars PROVE OpenInv'
  OBVIOUS
<1>0. Inv /\ FiledIsOpen /\ ClosedIsEmpty
  BY DEF OpenInv
<1>1. Inv'
  BY <1>0, NextInv
<1>2. CASE \E c \in Callers : CallerNext(c)
  BY <1>1, <1>2, CallerOpen DEF OpenInv
<1>3. CASE ConnectClient
  BY <1>0, <1>1, <1>3 DEF ConnectClient, Connect, OpenInv, FiledIsOpen, ClosedIsEmpty, Filed
<1>4. CASE Shutdown
  BY <1>0, <1>1, <1>4 DEF Shutdown, OpenInv, FiledIsOpen, ClosedIsEmpty, Filed
<1>5. CASE ServerShutdown
  BY <1>0, <1>1, <1>5 DEF ServerShutdown, CloseClient, OpenInv, FiledIsOpen, ClosedIsEmpty
<1>6. CASE UNCHANGED producerVars
  BY <1>0, <1>1, <1>6 DEF producerVars, OpenInv, FiledIsOpen, ClosedIsEmpty, Filed
<1> QED BY <1>2, <1>3, <1>4, <1>5, <1>6 DEF ProducerNext

LEMMA OpenInvariance == ProducerSpec => []OpenInv
<1>1. ProducerInit => OpenInv
  <2> SUFFICES ASSUME ProducerInit PROVE OpenInv
    OBVIOUS
  <2>1. Filed = {} /\ open = {}
    BY DEF ProducerInit, Filed
  <2> QED BY <2>1, InitInv DEF OpenInv, FiledIsOpen, ClosedIsEmpty
<1> QED BY <1>1, OpenSteps, PTL DEF ProducerSpec

\* What AddProducer and Producer answer with is open, whoever asks and when,
\* until one of the hooks OnStop has run (producer.go:61-66, 89-91, 115-120).
THEOREM AnsweredOpenCorrect == ProducerSpec => AnsweredOpen
<1>1. ASSUME OpenInv, ProducerNext,
             NEW c \in Callers, got'[c] # got[c], got'[c] # Nobody
      PROVE  got'[c] \in open' \/ pmDown \/ client = "closed"
  <2>0. ProducerTypeOK /\ FiledIsOpen
    BY <1>1 DEF OpenInv, Inv
  <2>1. got \in [Callers -> (Labels \X Nat) \cup {Nobody}]
    BY <2>0 DEF ProducerTypeOK
  <2>2. PICK b \in Callers : CallerNext(b)
    BY <1>1 DEF ProducerNext, ConnectClient, Shutdown, ServerShutdown
  <2>3. CASE Created(b)
    BY <1>1, <2>1, <2>3 DEF Created, Answered
  <2>4. CASE Reuse(b)
    BY <1>1, <2>0, <2>1, <2>4 DEF Reuse, Answered, FiledIsOpen
  <2>5. CASE \E l \in Labels : Producer(b, l)
    BY <1>1, <2>0, <2>1, <2>5 DEF Producer, FiledIsOpen
  <2>6. CASE CreateFails(b)
    BY <1>1, <2>1, <2>6 DEF CreateFails, Answered
  <2>7. CASE BeginCreate(b) \/ \E l \in Labels : AddProducer(b, l)
    BY <1>1, <2>7 DEF BeginCreate, AddProducer
  <2> QED BY <2>2, <2>3, <2>4, <2>5, <2>6, <2>7 DEF CallerNext
<1>2. OpenInv /\ [ProducerNext]_producerVars =>
        [\A c \in Callers :
           got'[c] # got[c] /\ got'[c] # Nobody =>
             got'[c] \in open' \/ pmDown \/ client = "closed"]_producerVars
  BY <1>1
<1> QED BY <1>2, OpenInvariance, PTL DEF ProducerSpec, AnsweredOpen

=============================================================================
