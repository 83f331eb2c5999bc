--------------------------- MODULE RedactorProofs ---------------------------
(***************************************************************************)
(* Theorems about the redactor, for any filters and any values.            *)
(***************************************************************************)
EXTENDS Redactor, SequenceTheorems, WellFoundedInduction, TLAPS

-----------------------------------------------------------------------------
\* Induction and recursion.  The library's principles are about operators,
\* which the provers do not instantiate; these are about sets and functions.

Less == {ss \in Nat \X Nat : ss[1] < ss[2]}

LEMMA LeastNat ==
  ASSUME NEW S, S \subseteq Nat, S # {}
  PROVE  \E m \in S : \A n \in S : m <= n
<1>1. IsWellFoundedOn(Less, Nat)
  BY NatLessThanWellFounded DEF OpToRel, Less
<1>2. PICK m \in S : \A n \in S : ~(<<n, m>> \in Less)
  BY <1>1, WFMin
<1>3. ASSUME NEW n \in S PROVE m <= n
  <2>1. <<n, m>> \in Nat \X Nat /\ ~(<<n, m>> \in Less)
    BY <1>2, <1>3
  <2>2. ~(n < m)
    BY <2>1 DEF Less
  <2> QED BY <2>1, <2>2
<1> QED BY <1>3

\* Course of values: what holds of x if it holds of all that rank below x.
LEMMA RankInduction ==
  ASSUME NEW D, NEW Rank \in [D -> Nat], NEW S,
         \A x \in D : (\A y \in D : Rank[y] < Rank[x] => y \in S) => x \in S
  PROVE  D \subseteq S
<1> SUFFICES ASSUME D \ S # {} PROVE FALSE
  OBVIOUS
<1> DEFINE R == {Rank[x] : x \in D \ S}
<1>1. R \subseteq Nat /\ R # {}
  OBVIOUS
<1> HIDE DEF R
<1>2. PICK m \in R : \A n \in R : m <= n
  BY <1>1, LeastNat
<1> USE DEF R
<1>3. PICK x \in D \ S : Rank[x] = m
  BY <1>2
<1>4. ASSUME NEW y \in D, Rank[y] < Rank[x], y \notin S PROVE FALSE
  <2>1. Rank[y] \in R
    BY <1>4
  <2>2. m \in Nat /\ Rank[y] \in Nat /\ Rank[y] < m
    BY <1>1, <1>3, <1>4
  <2> HIDE DEF R
  <2>3. m <= Rank[y]
    BY <1>2, <2>1
  <2> QED BY <2>2, <2>3
<1> QED BY <1>3, <1>4

\* F makes of a function the one whose values are computed from it, those of
\* lower rank alone.
Descends(D, T, Rank, F) ==
  \A g, h \in [D -> T], x \in D :
    (\A y \in D : Rank[y] < Rank[x] => g[y] = h[y]) => F[g][x] = F[h][x]

Solves(f, F) == f = F[f]

\* A function that is defined by recursion exists.
LEMMA RecursiveFunction ==
  ASSUME NEW D, NEW T, T # {}, NEW Rank \in [D -> Nat],
         NEW F \in [[D -> T] -> [D -> T]], Descends(D, T, Rank, F)
  PROVE  \E f \in [D -> T] : Solves(f, F)
<1>0. \A g, h \in [D -> T], x \in D :
        (\A y \in D : Rank[y] < Rank[x] => g[y] = h[y]) => F[g][x] = F[h][x]
  BY DEF Descends
<1> DEFINE Good(g, n) == \A x \in D : Rank[x] < n => F[g][x] = g[x]
\* A function that is right below every n.
<1>1. \A n \in Nat : \E g \in [D -> T] : Good(g, n)
  <2> DEFINE S == {n \in Nat : \E g \in [D -> T] : Good(g, n)}
             id == [n \in Nat |-> n]
  <2>1. ASSUME NEW n \in Nat, \A m \in Nat : m < n => m \in S
        PROVE  n \in S
    <3>1. CASE n = 0
      <4> DEFINE g == [x \in D |-> CHOOSE t \in T : TRUE]
      <4>1. g \in [D -> T]
        OBVIOUS
      <4> HIDE DEF g
      <4>2. Good(g, n)
        BY <3>1
      <4> QED BY <4>1, <4>2
    <3>2. CASE n # 0
      <4>1. n - 1 \in Nat /\ n - 1 \in S
        BY <2>1, <3>2
      <4>2. PICK g \in [D -> T] : Good(g, n - 1)
        BY <4>1
      <4>3. ASSUME NEW x \in D, Rank[x] < n PROVE F[F[g]][x] = F[g][x]
        <5>1. \A y \in D : Rank[y] < Rank[x] => F[g][y] = g[y]
          BY <4>1, <4>2, <4>3
        <5> QED BY <5>1, <1>0
      <4> QED BY <4>3
    <3> QED BY <3>1, <3>2
  <2>2. id \in [Nat -> Nat] /\ \A n \in Nat : id[n] = n
    OBVIOUS
  <2> HIDE DEF S, id
  <2>3. Nat \subseteq S
    BY <2>1, <2>2, RankInduction
  <2> QED BY <2>3 DEF S
\* Two functions that are right agree.
<1>2. ASSUME NEW n \in Nat, NEW g \in [D -> T], NEW h \in [D -> T],
             Good(g, n), Good(h, n)
      PROVE  \A x \in D : Rank[x] < n => g[x] = h[x]
  <2> DEFINE S == {x \in D : Rank[x] < n => g[x] = h[x]}
  <2>1. ASSUME NEW x \in D, \A y \in D : Rank[y] < Rank[x] => y \in S
        PROVE  x \in S
    <3> SUFFICES ASSUME Rank[x] < n PROVE g[x] = h[x]
      OBVIOUS
    <3>1. \A y \in D : Rank[y] < Rank[x] => g[y] = h[y]
      BY <2>1
    <3> QED BY <1>2, <3>1, <1>0
  <2> HIDE DEF S
  <2>2. D \subseteq S
    BY <2>1, RankInduction
  <2> QED BY <2>2 DEF S
<1> DEFINE at(n) == CHOOSE g \in [D -> T] : Good(g, n)
           f == [x \in D |-> at(Rank[x] + 1)[x]]
<1>3. \A n \in Nat : at(n) \in [D -> T] /\ Good(at(n), n)
  BY <1>1
<1> HIDE DEF at
<1>4. f \in [D -> T]
  BY <1>3
<1>5. ASSUME NEW x \in D PROVE f[x] = F[f][x]
  <2> DEFINE g == at(Rank[x] + 1)
  <2>1. Rank[x] + 1 \in Nat /\ g \in [D -> T] /\ Good(g, Rank[x] + 1)
    BY <1>3
  <2>2. ASSUME NEW y \in D, Rank[y] < Rank[x] PROVE f[y] = g[y]
    <3>1. at(Rank[y] + 1) \in [D -> T] /\ Good(at(Rank[y] + 1), Rank[y] + 1)
      BY <1>3
    <3>2. Good(g, Rank[y] + 1)
      BY <2>1, <2>2
    <3> HIDE DEF g, Good
    <3>3. at(Rank[y] + 1)[y] = g[y]
      BY <2>1, <3>1, <3>2, <1>2
    <3> QED BY <3>3
  <2>3. F[g][x] = g[x]
    BY <2>1
  <2> HIDE DEF g
  <2>4. F[f][x] = F[g][x]
    BY <1>4, <2>1, <2>2, <1>0
  <2> QED BY <2>3, <2>4 DEF g
<1>6. F[f] \in [D -> T]
  BY <1>4
<1>7. f = F[f]
  BY <1>4, <1>5, <1>6
<1> QED BY <1>4, <1>7 DEF Solves

-----------------------------------------------------------------------------
\* The recursive functions of the model are what their definitions say.

Reads(v) == {Indirect(v).kids[i].value : i \in DOMAIN Indirect(v).kids}

LEMMA NodeFacts ==
  ASSUME NEW v \in Nodes
  PROVE  /\ Depth \in [Nodes -> Nat]
         /\ KidsOf(v) \subseteq Nodes
         /\ \A u \in KidsOf(v) : Depth[u] < Depth[v]
         /\ Indirect(v) \in Nodes
         /\ Reads(v) \subseteq Nodes
         /\ \A u \in Reads(v) : Depth[u] < Depth[v]
<1>1. Depth \in [Nodes -> Nat]
  BY ValuesAssumption
<1>2. \A x \in Nodes : KidsOf(x) \subseteq Nodes /\ \A u \in KidsOf(x) : Depth[u] < Depth[x]
  BY ValuesAssumption
<1>3. Indirect(v) \in Nodes /\ (Indirect(v) = v \/ Depth[Indirect(v)] < Depth[v])
  <2>1. CASE v.kind = "ptr"
    <3>1. Indirect(v) \in KidsOf(v)
      BY <2>1, ValuesAssumption DEF Indirect, KidsOf
    <3> QED BY <1>2, <3>1
  <2>2. CASE v.kind # "ptr"
    BY <2>2 DEF Indirect
  <2> QED BY <2>1, <2>2
<1>4. Reads(v) = KidsOf(Indirect(v))
  BY DEF Reads, KidsOf
<1>5. Reads(v) \subseteq Nodes /\ \A u \in Reads(v) : Depth[u] < Depth[Indirect(v)]
  BY <1>2, <1>3, <1>4
<1>6. \A u \in Reads(v) : Depth[u] < Depth[v]
  BY <1>1, <1>3, <1>5
<1> QED BY <1>1, <1>2, <1>3, <1>5, <1>6

Ids == {v.id : v \in Nodes}
LeavesBody(f, v) == IF v.kind = "leaf" THEN {v.id} ELSE UNION {f[u] : u \in KidsOf(v)}

LEMMA LeavesDef ==
  /\ Leaves = [v \in Nodes |-> LeavesBody(Leaves, v)]
  /\ Leaves \in [Nodes -> SUBSET Ids]
<1> DEFINE T == SUBSET Ids
           F == [f \in [Nodes -> T] |-> [v \in Nodes |-> LeavesBody(f, v)]]
<1>1. F \in [[Nodes -> T] -> [Nodes -> T]]
  <2>1. ASSUME NEW f \in [Nodes -> T], NEW v \in Nodes PROVE LeavesBody(f, v) \in T
    BY NodeFacts DEF LeavesBody, Ids
  <2> QED BY <2>1
<1>2. ASSUME NEW g \in [Nodes -> T], NEW h \in [Nodes -> T], NEW v \in Nodes,
             \A u \in Nodes : Depth[u] < Depth[v] => g[u] = h[u]
      PROVE  F[g][v] = F[h][v]
  <2>1. \A u \in KidsOf(v) : g[u] = h[u]
    BY <1>2, NodeFacts
  <2>2. {g[u] : u \in KidsOf(v)} = {h[u] : u \in KidsOf(v)}
    BY <2>1
  <2>3. LeavesBody(g, v) = LeavesBody(h, v)
    BY <2>2 DEF LeavesBody
  <2> QED BY <2>3
<1>3. T # {} /\ Depth \in [Nodes -> Nat]
  BY ValuesAssumption
<1>4. \E f \in [Nodes -> T] : Solves(f, F)
  <2> HIDE DEF F, T
  <2>1. Descends(Nodes, T, Depth, F)
    BY <1>2 DEF Descends
  <2> QED BY <1>1, <2>1, <1>3, RecursiveFunction
<1>5. \E f : f = [v \in Nodes |-> LeavesBody(f, v)]
  BY <1>4 DEF Solves
<1>6. Leaves = CHOOSE f : f = [v \in Nodes |-> LeavesBody(f, v)]
  BY DEF Leaves, LeavesBody
<1>7. Leaves = [v \in Nodes |-> LeavesBody(Leaves, v)]
  BY <1>5, <1>6
<1>8. \A v \in Nodes : Leaves[v] \subseteq Ids
  <2> DEFINE S == {v \in Nodes : Leaves[v] \subseteq Ids}
  <2>1. ASSUME NEW v \in Nodes, \A u \in Nodes : Depth[u] < Depth[v] => u \in S
        PROVE  v \in S
    <3>1. \A u \in KidsOf(v) : Leaves[u] \subseteq Ids
      BY <2>1, NodeFacts
    <3>2. Leaves[v] = LeavesBody(Leaves, v)
      BY <1>7
    <3>3. LeavesBody(Leaves, v) \subseteq Ids
      BY <3>1 DEF LeavesBody, Ids
    <3> QED BY <3>2, <3>3
  <2> HIDE DEF S
  <2>2. Nodes \subseteq S
    BY <2>1, <1>3, RankInduction
  <2> QED BY <2>2 DEF S
<1> QED BY <1>7, <1>8

Masks == {Mask(v) : v \in Nodes}

\* The places a walk goes on to from a node are among those below it.
LEMMA ReadFacts ==
  ASSUME NEW v \in Nodes
  PROVE  /\ \A i \in DOMAIN Indirect(v).kids :
              /\ Indirect(v).kids[i].value \in Nodes
              /\ Depth[Indirect(v).kids[i].value] < Depth[v]
         /\ Exported(Indirect(v)) \subseteq DOMAIN Indirect(v).kids
         /\ Indirect(v).kind = "iface" => 1 \in DOMAIN Indirect(v).kids
<1>1. Indirect(v) \in Nodes
  BY NodeFacts
<1>2. Indirect(v).kind = "iface" => 1 \in DOMAIN Indirect(v).kids
  BY <1>1, ValuesAssumption
<1>3. ASSUME NEW i \in DOMAIN Indirect(v).kids
      PROVE  Indirect(v).kids[i].value \in Reads(v)
  BY DEF Reads
<1> QED BY <1>2, <1>3, NodeFacts DEF Exported

LEMMA PartialDef ==
  /\ PartialRedact = [v \in Nodes |-> PartialRedactBody(PartialRedact, v)]
  /\ \A v \in Nodes : PartialRedact[v] \subseteq Masks
<1> DEFINE T == SUBSET Masks
           F == [f \in [Nodes -> T] |-> [v \in Nodes |-> PartialRedactBody(f, v)]]
<1>0. ASSUME NEW f, NEW v \in Nodes,
             \A u \in Nodes : Depth[u] < Depth[v] => f[u] \subseteq Masks
      PROVE  PartialRedactBody(f, v) \subseteq Masks
  <2>1. \A i \in DOMAIN Indirect(v).kids : f[Indirect(v).kids[i].value] \subseteq Masks
    BY <1>0, ReadFacts
  <2>2. UNION {f[Indirect(v).kids[i].value] : i \in Exported(Indirect(v))} \subseteq Masks
    BY <2>1, ReadFacts
  <2>3. Mask(Indirect(v)) \in Masks
    BY NodeFacts DEF Masks
  <2>4. Indirect(v).kind = "iface" => f[Indirect(v).kids[1].value] \subseteq Masks
    BY <2>1, ReadFacts
  <2> QED BY <2>2, <2>3, <2>4 DEF PartialRedactBody
<1>1. F \in [[Nodes -> T] -> [Nodes -> T]]
  BY <1>0
<1>2. ASSUME NEW g \in [Nodes -> T], NEW h \in [Nodes -> T], NEW v \in Nodes,
             \A u \in Nodes : Depth[u] < Depth[v] => g[u] = h[u]
      PROVE  F[g][v] = F[h][v]
  <2>1. \A i \in DOMAIN Indirect(v).kids :
          g[Indirect(v).kids[i].value] = h[Indirect(v).kids[i].value]
    BY <1>2, ReadFacts
  <2>2. {g[Indirect(v).kids[i].value] : i \in Exported(Indirect(v))}
          = {h[Indirect(v).kids[i].value] : i \in Exported(Indirect(v))}
    BY <2>1, ReadFacts
  <2>3. Indirect(v).kind = "iface" =>
          g[Indirect(v).kids[1].value] = h[Indirect(v).kids[1].value]
    BY <2>1, ReadFacts
  <2>4. PartialRedactBody(g, v) = PartialRedactBody(h, v)
    BY <2>2, <2>3 DEF PartialRedactBody
  <2> QED BY <2>4
<1>3. T # {} /\ Depth \in [Nodes -> Nat]
  BY ValuesAssumption
<1>4. \E f \in [Nodes -> T] : Solves(f, F)
  <2> HIDE DEF F, T
  <2>1. Descends(Nodes, T, Depth, F)
    BY <1>2 DEF Descends
  <2> QED BY <1>1, <2>1, <1>3, RecursiveFunction
<1>5. \E f : f = [v \in Nodes |-> PartialRedactBody(f, v)]
  BY <1>4 DEF Solves
<1>6. PartialRedact = CHOOSE f : f = [v \in Nodes |-> PartialRedactBody(f, v)]
  BY DEF PartialRedact
<1>7. PartialRedact = [v \in Nodes |-> PartialRedactBody(PartialRedact, v)]
  BY <1>5, <1>6
<1>8. \A v \in Nodes : PartialRedact[v] \subseteq Masks
  <2> DEFINE S == {v \in Nodes : PartialRedact[v] \subseteq Masks}
  <2>1. ASSUME NEW v \in Nodes, \A u \in Nodes : Depth[u] < Depth[v] => u \in S
        PROVE  v \in S
    <3>1. PartialRedactBody(PartialRedact, v) \subseteq Masks
      BY <2>1, <1>0
    <3> QED BY <3>1, <1>7
  <2> HIDE DEF S
  <2>2. Nodes \subseteq S
    BY <2>1, <1>3, RankInduction
  <2> QED BY <2>2 DEF S
<1> QED BY <1>7, <1>8

\* How far down the node of a place goes.
Rank == [p \in Places |-> Depth[p.node]]

LEMMA PlaceFacts ==
  ASSUME NEW p \in Places
  PROVE  /\ Rank \in [Places -> Nat]
         /\ Indirect(p.node) \in Nodes
         /\ Exported(Indirect(p.node)) \subseteq DOMAIN Indirect(p.node).kids
         /\ Indirect(p.node).kind = "iface" => 1 \in DOMAIN Indirect(p.node).kids
         /\ \A i \in DOMAIN Indirect(p.node).kids :
              /\ Below(p, i) \in Places
              /\ Below(p, i).node = Indirect(p.node).kids[i].value
              /\ Rank[Below(p, i)] < Rank[p]
<1>1. p.node \in Nodes /\ p.owner \in Types \ {Rtype} /\ p.name \in Names
  BY DEF Places
<1>2. Depth \in [Nodes -> Nat] /\ Indirect(p.node) \in Nodes
  BY <1>1, NodeFacts
<1>3. Rank \in [Places -> Nat]
  BY <1>2 DEF Rank, Places
<1>4. /\ Indirect(p.node).type \in Types
      /\ Indirect(p.node).type = Rtype => DOMAIN Indirect(p.node).kids = {}
      /\ \A i \in DOMAIN Indirect(p.node).kids : Indirect(p.node).kids[i].name \in Names
  BY <1>2, ValuesAssumption
<1>5. ASSUME NEW i \in DOMAIN Indirect(p.node).kids
      PROVE  /\ Below(p, i) \in Places
             /\ Below(p, i).node = Indirect(p.node).kids[i].value
             /\ Rank[Below(p, i)] < Rank[p]
  <2>1. /\ Indirect(p.node).kids[i].value \in Nodes
        /\ Depth[Indirect(p.node).kids[i].value] < Depth[p.node]
    BY <1>1, ReadFacts
  <2>2. Indirect(p.node).type # Rtype
    BY <1>4
  <2>3. /\ Below(p, i) \in Places
        /\ Below(p, i).node = Indirect(p.node).kids[i].value
    BY <1>1, <1>4, <2>1, <2>2 DEF Below, Place, Places
  <2> QED BY <2>1, <2>3 DEF Rank
<1> QED BY <1>1, <1>2, <1>3, <1>5, ReadFacts

Outcomes == [hit : BOOLEAN, shown : SUBSET Ids, masked : SUBSET Masks]

LEMMA KeptOutcome ==
  ASSUME NEW v \in Nodes
  PROVE  Kept(v) \in Outcomes
BY LeavesDef DEF Kept, Outcome, Outcomes

LEMMA MaskedOutcome ==
  ASSUME NEW v \in Nodes, NEW mode
  PROVE  /\ RedactFunc(mode, v) \subseteq Masks
         /\ Outcome(TRUE, {}, RedactFunc(mode, v)) \in Outcomes
<1>1. RedactFunc(mode, v) \subseteq Masks
  BY PartialDef DEF RedactFunc
<1> QED BY <1>1 DEF Outcome, Outcomes

LEMMA RedactDef ==
  ASSUME NEW r
  PROVE  /\ redact(r) = [p \in Places |-> redactBody(r, redact(r), p)]
         /\ \A p \in Places : redact(r)[p] \in Outcomes
<1> DEFINE F == [f \in [Places -> Outcomes] |-> [p \in Places |-> redactBody(r, f, p)]]
<1>0. ASSUME NEW f, NEW p \in Places,
             \A q \in Places : Rank[q] < Rank[p] => f[q] \in Outcomes
      PROVE  redactBody(r, f, p) \in Outcomes
  <2> DEFINE w == Indirect(p.node)
             kids == {f[Below(p, i)] : i \in Exported(w)}
  <2>1. \A i \in DOMAIN w.kids : f[Below(p, i)] \in Outcomes
    BY <1>0, PlaceFacts
  <2>2. kids \subseteq Outcomes
    BY <2>1, PlaceFacts
  <2>3. Outcome(TRUE, UNION {k.shown : k \in kids}, UNION {k.masked : k \in kids})
          \in Outcomes
    BY <2>2 DEF Outcome, Outcomes
  <2>4. w.kind = "iface" => f[Below(p, 1)] \in Outcomes
    BY <2>1, PlaceFacts
  <2>5. w \in Nodes /\ p.node \in Nodes
    BY PlaceFacts DEF Places
  <2>6. Kept(w) \in Outcomes /\ Kept(p.node) \in Outcomes
    BY <2>5, KeptOutcome
  <2>7. \A mode : Outcome(TRUE, {}, RedactFunc(mode, w)) \in Outcomes
    BY <2>5, MaskedOutcome
  <2> QED BY <2>3, <2>4, <2>6, <2>7 DEF redactBody
<1>1. F \in [[Places -> Outcomes] -> [Places -> Outcomes]]
  BY <1>0
<1>2. ASSUME NEW g \in [Places -> Outcomes], NEW h \in [Places -> Outcomes],
             NEW p \in Places, \A q \in Places : Rank[q] < Rank[p] => g[q] = h[q]
      PROVE  F[g][p] = F[h][p]
  <2>1. \A i \in DOMAIN Indirect(p.node).kids : g[Below(p, i)] = h[Below(p, i)]
    BY <1>2, PlaceFacts
  <2>2. {g[Below(p, i)] : i \in Exported(Indirect(p.node))}
          = {h[Below(p, i)] : i \in Exported(Indirect(p.node))}
    <3>1. Exported(Indirect(p.node)) \subseteq DOMAIN Indirect(p.node).kids
      BY PlaceFacts
    <3> QED BY <2>1, <3>1
  <2>3. Indirect(p.node).kind = "iface" => g[Below(p, 1)] = h[Below(p, 1)]
    BY <2>1, PlaceFacts
  <2>4. redactBody(r, g, p) = redactBody(r, h, p)
    BY <2>2, <2>3 DEF redactBody
  <2> QED BY <2>4
<1>3. Outcomes # {} /\ Rank \in [Places -> Nat]
  <2>1. Kept(NilPointer) \in Outcomes
    BY KeptOutcome, ValuesAssumption
  <2>2. Rank \in [Places -> Nat]
    BY ValuesAssumption DEF Rank, Places
  <2> QED BY <2>1, <2>2
<1>4. \E f \in [Places -> Outcomes] : Solves(f, F)
  <2> HIDE DEF F
  <2>1. Descends(Places, Outcomes, Rank, F)
    BY <1>2 DEF Descends
  <2> QED BY <1>1, <2>1, <1>3, RecursiveFunction
<1>5. \E f : f = [p \in Places |-> redactBody(r, f, p)]
  BY <1>4 DEF Solves
<1>6. redact(r) = CHOOSE f : f = [p \in Places |-> redactBody(r, f, p)]
  BY DEF redact
<1>7. redact(r) = [p \in Places |-> redactBody(r, redact(r), p)]
  BY <1>5, <1>6
<1>8. \A p \in Places : redact(r)[p] \in Outcomes
  <2> DEFINE S == {p \in Places : redact(r)[p] \in Outcomes}
  <2>1. ASSUME NEW p \in Places, \A q \in Places : Rank[q] < Rank[p] => q \in S
        PROVE  p \in S
    <3>1. redactBody(r, redact(r), p) \in Outcomes
      BY <2>1, <1>0
    <3> QED BY <3>1, <1>7
  <2> HIDE DEF S
  <2>2. Places \subseteq S
    BY <2>1, <1>3, RankInduction
  <2> QED BY <2>2 DEF S
<1> QED BY <1>7, <1>8

\* The place a trail starts with.
Here(p) == [p EXCEPT !.node = Indirect(p.node)]

LEMMA HereFacts ==
  ASSUME NEW p \in Places
  PROVE  /\ Here(p) \in Places
         /\ Here(p).owner = p.owner /\ Here(p).name = p.name
         /\ Here(p).node = Indirect(p.node)
  BY PlaceFacts DEF Here, Places

Ways == Seq(Places) \ {<<>>}

LEMMA TrailsDef ==
  /\ Trails = [p \in Places |-> TrailsBody(Trails, p)]
  /\ \A p \in Places : Trails[p] \subseteq Ways
<1> DEFINE T == SUBSET Ways
           F == [f \in [Places -> T] |-> [p \in Places |-> TrailsBody(f, p)]]
<1>0. ASSUME NEW f, NEW p \in Places,
             \A q \in Places : Rank[q] < Rank[p] => f[q] \in T
      PROVE  TrailsBody(f, p) \in T
  <2> DEFINE w == Indirect(p.node)
             here == <<[p EXCEPT !.node = w]>>
             below == UNION {f[Below(p, i)] : i \in Exported(w)}
  <2>1. \A i \in DOMAIN w.kids : f[Below(p, i)] \in T
    BY <1>0, PlaceFacts
  <2>2. below \in T
    <3>1. Exported(w) \subseteq DOMAIN w.kids
      BY PlaceFacts
    <3> HIDE DEF w
    <3> QED BY <2>1, <3>1
  <2>3. here = <<Here(p)>> /\ Here(p) \in Places
    BY HereFacts DEF Here
  <2>4. here \in Ways
    BY <2>3 DEF Ways
  <2>5. {here \o t : t \in below} \in T
    <3>1. ASSUME NEW t \in below PROVE here \o t \in Ways
      <4>1. t \in Seq(Places)
        BY <2>2 DEF Ways
      <4> HIDE DEF here
      <4>2. here \o t \in Seq(Places)
        BY <4>1, <2>4 DEF Ways
      <4>3. here \o t # <<>>
        BY <4>1, <2>4 DEF Ways
      <4> QED BY <4>2, <4>3 DEF Ways
    <3> QED BY <3>1
  <2>6. w.kind = "iface" => f[Below(p, 1)] \in T
    BY <2>1, PlaceFacts
  <2> QED BY <2>4, <2>5, <2>6 DEF TrailsBody
<1>1. F \in [[Places -> T] -> [Places -> T]]
  BY <1>0
<1>2. ASSUME NEW g \in [Places -> T], NEW h \in [Places -> T],
             NEW p \in Places, \A q \in Places : Rank[q] < Rank[p] => g[q] = h[q]
      PROVE  F[g][p] = F[h][p]
  <2>1. \A i \in DOMAIN Indirect(p.node).kids : g[Below(p, i)] = h[Below(p, i)]
    BY <1>2, PlaceFacts
  <2>2. {g[Below(p, i)] : i \in Exported(Indirect(p.node))}
          = {h[Below(p, i)] : i \in Exported(Indirect(p.node))}
    <3>1. Exported(Indirect(p.node)) \subseteq DOMAIN Indirect(p.node).kids
      BY PlaceFacts
    <3> QED BY <2>1, <3>1
  <2>3. Indirect(p.node).kind = "iface" => g[Below(p, 1)] = h[Below(p, 1)]
    BY <2>1, PlaceFacts
  <2>4. TrailsBody(g, p) = TrailsBody(h, p)
    BY <2>2, <2>3 DEF TrailsBody
  <2> QED BY <2>4
<1>3. T # {} /\ Rank \in [Places -> Nat]
  BY ValuesAssumption DEF Rank, Places
<1>4. \E f \in [Places -> T] : Solves(f, F)
  <2> HIDE DEF F, T
  <2>1. Descends(Places, T, Rank, F)
    BY <1>2 DEF Descends
  <2> QED BY <1>1, <2>1, <1>3, RecursiveFunction
<1>5. \E f : f = [p \in Places |-> TrailsBody(f, p)]
  BY <1>4 DEF Solves
<1>6. Trails = CHOOSE f : f = [p \in Places |-> TrailsBody(f, p)]
  BY DEF Trails
<1>7. Trails = [p \in Places |-> TrailsBody(Trails, p)]
  BY <1>5, <1>6
<1>8. \A p \in Places : Trails[p] \in T
  <2> DEFINE S == {p \in Places : Trails[p] \in T}
  <2>1. ASSUME NEW p \in Places, \A q \in Places : Rank[q] < Rank[p] => q \in S
        PROVE  p \in S
    <3>1. TrailsBody(Trails, p) \in T
      BY <2>1, <1>0
    <3> QED BY <3>1, <1>7
  <2> HIDE DEF S, T
  <2>2. Places \subseteq S
    BY <2>1, <1>3, RankInduction
  <2> QED BY <2>2 DEF S
<1> QED BY <1>7, <1>8

-----------------------------------------------------------------------------
\* What comes of a place, whatever the filters are.

\* The mode of the filter that a place meets, if it meets one.
ModeAt(r, p) ==
  IF Indirect(p.node).kind = "struct" THEN filterStruct(r, Indirect(p.node).type)
                                      ELSE filterField(r, p.owner, p.name)

\* The kids of a container that the walk goes on to, and what comes of them.
Onward(p) == Exported(Indirect(p.node))
KidsAt(r, p) == {redact(r)[Below(p, i)] : i \in Onward(p)}

Opened(p) == p.node.kind # "nil" /\ Indirect(p.node).kind = "iface"
Held(p)   == p.node.kind # "nil" /\ Indirect(p.node).kind \in Containers
Bottom(p) == /\ p.node.kind # "nil" /\ Indirect(p.node).kind # "iface"
             /\ Indirect(p.node).kind \notin Containers

LEMMA PlaceKinds ==
  ASSUME NEW p \in Places
  PROVE  /\ p.node.kind = "nil" \/ Opened(p) \/ Held(p) \/ Bottom(p)
         /\ Held(p) => Indirect(p.node).kind # "iface"
  BY DEF Opened, Held, Bottom, Containers

LEMMA RedactCases ==
  ASSUME NEW r, NEW p \in Places
  PROVE  /\ p.node.kind = "nil" => redact(r)[p] = Kept(p.node)
         /\ Opened(p) => redact(r)[p] = redact(r)[Below(p, 1)]
         /\ (Held(p) \/ Bottom(p)) /\ ModeAt(r, p) # "none" =>
              redact(r)[p] = Outcome(TRUE, {}, RedactFunc(ModeAt(r, p), Indirect(p.node)))
         /\ Held(p) /\ ModeAt(r, p) = "none" =>
              redact(r)[p] = IF \E k \in KidsAt(r, p) : k.hit
                             THEN Outcome(TRUE, UNION {k.shown : k \in KidsAt(r, p)},
                                                UNION {k.masked : k \in KidsAt(r, p)})
                             ELSE Kept(Indirect(p.node))
         /\ Bottom(p) /\ ModeAt(r, p) = "none" => redact(r)[p] = Kept(Indirect(p.node))
<1>1. redact(r)[p] = redactBody(r, redact(r), p)
  BY RedactDef
<1>2. p.node.kind = "nil" => redact(r)[p] = Kept(p.node)
  BY <1>1 DEF redactBody
<1>3. Opened(p) => redact(r)[p] = redact(r)[Below(p, 1)]
  BY <1>1 DEF redactBody, Opened
<1>4. (Held(p) \/ Bottom(p)) /\ ModeAt(r, p) # "none" =>
        redact(r)[p] = Outcome(TRUE, {}, RedactFunc(ModeAt(r, p), Indirect(p.node)))
  BY <1>1 DEF redactBody, Held, Bottom, ModeAt, Containers
<1>5. Held(p) /\ ModeAt(r, p) = "none" =>
        redact(r)[p] = IF \E k \in KidsAt(r, p) : k.hit
                       THEN Outcome(TRUE, UNION {k.shown : k \in KidsAt(r, p)},
                                          UNION {k.masked : k \in KidsAt(r, p)})
                       ELSE Kept(Indirect(p.node))
  BY <1>1 DEF redactBody, Held, ModeAt, Containers, KidsAt, Onward
<1>6. Bottom(p) /\ ModeAt(r, p) = "none" => redact(r)[p] = Kept(Indirect(p.node))
  BY <1>1 DEF redactBody, Bottom, ModeAt
<1> QED BY <1>2, <1>3, <1>4, <1>5, <1>6

LEMMA LeafFacts ==
  ASSUME NEW v \in Nodes
  PROVE  /\ Leaves[Indirect(v)] = Leaves[v]
         /\ v.kind = "iface" => Leaves[v] = Leaves[v.kids[1].value]
         /\ v.kind = "leaf" => Leaves[v] = {v.id}
         /\ \A i \in DOMAIN v.kids : v.kind # "leaf" => Leaves[v.kids[i].value] \subseteq Leaves[v]
<1>1. Leaves[v] = LeavesBody(Leaves, v)
  BY LeavesDef
<1>2. v.kind = "leaf" => Leaves[v] = {v.id}
  BY <1>1 DEF LeavesBody
<1>3. v.kind # "leaf" => Leaves[v] = UNION {Leaves[u] : u \in KidsOf(v)}
  BY <1>1 DEF LeavesBody
<1>4. v.kind \in {"ptr", "iface"} => Leaves[v] = Leaves[v.kids[1].value]
  <2> SUFFICES ASSUME v.kind \in {"ptr", "iface"} PROVE Leaves[v] = Leaves[v.kids[1].value]
    OBVIOUS
  <2>1. DOMAIN v.kids = {1}
    BY ValuesAssumption
  <2>2. KidsOf(v) = {v.kids[1].value}
    BY <2>1 DEF KidsOf
  <2>3. {Leaves[u] : u \in KidsOf(v)} = {Leaves[v.kids[1].value]}
    BY <2>2
  <2>4. v.kind # "leaf"
    OBVIOUS
  <2> QED BY <1>3, <2>3, <2>4
<1>5. Leaves[Indirect(v)] = Leaves[v]
  BY <1>4 DEF Indirect
<1>6. ASSUME NEW i \in DOMAIN v.kids, v.kind # "leaf"
      PROVE  Leaves[v.kids[i].value] \subseteq Leaves[v]
  BY <1>3, <1>6 DEF KidsOf
<1> QED BY <1>2, <1>4, <1>5, <1>6

\* Nothing is shown or masked that was not there, and a value is as it was if
\* nothing in it was hit.
Sound(r, p) ==
  /\ redact(r)[p].shown \subseteq Leaves[p.node]
  /\ MaskedIds(redact(r)[p]) \subseteq Leaves[p.node]
  /\ ~redact(r)[p].hit => redact(r)[p].shown = Leaves[p.node] /\ redact(r)[p].masked = {}

PartialIds(v) == {m.id : m \in PartialRedact[v]}

LEMMA PartialLeaves ==
  ASSUME NEW v \in Nodes
  PROVE  PartialIds(v) \subseteq Leaves[v]
<1> DEFINE S == {u \in Nodes : PartialIds(u) \subseteq Leaves[u]}
<1>1. ASSUME NEW x \in Nodes, \A y \in Nodes : Depth[y] < Depth[x] => y \in S
      PROVE  x \in S
  <2> DEFINE w == Indirect(x)
  <2>1. \A i \in DOMAIN w.kids :
          /\ w.kids[i].value \in Nodes
          /\ PartialIds(w.kids[i].value) \subseteq Leaves[w.kids[i].value]
    BY <1>1, ReadFacts
  <2>2. w \in Nodes /\ Leaves[w] = Leaves[x]
    BY NodeFacts, LeafFacts
  <2>3. PartialRedact[x] = PartialRedactBody(PartialRedact, x)
    BY PartialDef
  <2>4. ASSUME NEW m \in PartialRedact[x] PROVE m.id \in Leaves[x]
    <3>1. CASE x.kind = "nil"
      BY <3>1, <2>3, <2>4 DEF PartialRedactBody, Indirect, Containers
    <3>2. CASE x.kind # "nil" /\ w.kind = "iface"
      <4>1. m \in PartialRedact[w.kids[1].value]
        BY <3>2, <2>3, <2>4 DEF PartialRedactBody, Containers
      <4>2. 1 \in DOMAIN w.kids
        BY <3>2, ReadFacts
      <4>3. m.id \in Leaves[w.kids[1].value]
        BY <4>1, <4>2, <2>1 DEF PartialIds
      <4> QED BY <4>3, <2>2, <3>2, LeafFacts
    <3>3. CASE x.kind # "nil" /\ w.kind \in Containers
      <4>1. m \in UNION {PartialRedact[w.kids[i].value] : i \in Exported(w)}
        BY <3>3, <2>3, <2>4 DEF PartialRedactBody, Containers
      <4>2. PICK i \in Exported(w) : m \in PartialRedact[w.kids[i].value]
        BY <4>1
      <4>3. i \in DOMAIN w.kids
        BY <4>2 DEF Exported
      <4>4. m.id \in Leaves[w.kids[i].value]
        BY <4>2, <4>3, <2>1 DEF PartialIds
      <4> QED BY <4>3, <4>4, <2>2, <3>3, LeafFacts DEF Containers
    <3>4. CASE x.kind # "nil" /\ w.kind # "iface" /\ w.kind \notin Containers
      <4>1. w.kind = "leaf" /\ m = Mask(w)
        BY <3>4, <2>3, <2>4 DEF PartialRedactBody
      <4> QED BY <4>1, <2>2, LeafFacts DEF Mask
    <3> QED BY <3>1, <3>2, <3>3, <3>4
  <2> QED BY <2>4 DEF PartialIds
<1> HIDE DEF S
<1>2. Nodes \subseteq S
  BY <1>1, NodeFacts, RankInduction
<1> QED BY <1>2 DEF S

LEMMA OnwardFacts ==
  ASSUME NEW p \in Places
  PROVE  /\ Opened(p) => /\ Below(p, 1) \in Places /\ Rank[Below(p, 1)] < Rank[p]
                         /\ Leaves[Below(p, 1).node] = Leaves[p.node]
         /\ \A i \in Onward(p) :
              /\ Below(p, i) \in Places /\ Rank[Below(p, i)] < Rank[p]
              /\ i \in DOMAIN Indirect(p.node).kids
              /\ Below(p, i).node = Indirect(p.node).kids[i].value
              /\ Held(p) => Leaves[Below(p, i).node] \subseteq Leaves[p.node]
         /\ Leaves[Indirect(p.node)] = Leaves[p.node]
         /\ Indirect(p.node) \in Nodes /\ p.node \in Nodes
<1>1. p.node \in Nodes
  BY DEF Places
<1>2. Indirect(p.node) \in Nodes /\ Leaves[Indirect(p.node)] = Leaves[p.node]
  BY <1>1, NodeFacts, LeafFacts
<1>3. ASSUME Opened(p)
      PROVE  /\ Below(p, 1) \in Places /\ Rank[Below(p, 1)] < Rank[p]
             /\ Leaves[Below(p, 1).node] = Leaves[p.node]
  <2>1. Indirect(p.node).kind = "iface"
    BY <1>3 DEF Opened
  <2>2. 1 \in DOMAIN Indirect(p.node).kids
    BY <2>1, PlaceFacts
  <2> QED BY <1>2, <2>1, <2>2, PlaceFacts, LeafFacts
<1>4. ASSUME NEW i \in Onward(p)
      PROVE  /\ Below(p, i) \in Places /\ Rank[Below(p, i)] < Rank[p]
             /\ i \in DOMAIN Indirect(p.node).kids
             /\ Below(p, i).node = Indirect(p.node).kids[i].value
             /\ Held(p) => Leaves[Below(p, i).node] \subseteq Leaves[p.node]
  <2>1. i \in DOMAIN Indirect(p.node).kids
    BY PlaceFacts DEF Onward
  <2>2. Held(p) => Indirect(p.node).kind # "leaf"
    BY DEF Held, Containers
  <2> QED BY <2>1, <2>2, <1>2, PlaceFacts, LeafFacts
<1> QED BY <1>1, <1>2, <1>3, <1>4

LEMMA RedactSound ==
  ASSUME NEW r
  PROVE  \A p \in Places : Sound(r, p)
<1> DEFINE S == {p \in Places : Sound(r, p)}
<1>1. ASSUME NEW p \in Places, \A q \in Places : Rank[q] < Rank[p] => q \in S
      PROVE  Sound(r, p)
  <2> DEFINE w == Indirect(p.node)
  <2>1. \A v : Kept(v).hit = FALSE /\ Kept(v).shown = Leaves[v] /\ Kept(v).masked = {}
    BY DEF Kept, Outcome
  <2>2. \A v : MaskedIds(Kept(v)) = {}
    BY <2>1 DEF MaskedIds
  <2>3. CASE p.node.kind = "nil"
    <3>1. redact(r)[p] = Kept(p.node)
      BY <2>3, RedactCases
    <3> QED BY <3>1, <2>1, <2>2 DEF Sound
  <2>4. CASE Opened(p)
    <3>1. redact(r)[p] = redact(r)[Below(p, 1)]
      BY <2>4, RedactCases
    <3>2. Sound(r, Below(p, 1)) /\ Leaves[Below(p, 1).node] = Leaves[p.node]
      BY <2>4, <1>1, OnwardFacts
    <3> QED BY <3>1, <3>2 DEF Sound
  <2>5. CASE (Held(p) \/ Bottom(p)) /\ ModeAt(r, p) # "none"
    <3>1. redact(r)[p] = Outcome(TRUE, {}, RedactFunc(ModeAt(r, p), w))
      BY <2>5, RedactCases
    <3>2. {m.id : m \in RedactFunc(ModeAt(r, p), w)} \subseteq Leaves[p.node]
      BY OnwardFacts, PartialLeaves DEF RedactFunc, PartialIds
    <3>3. MaskedIds(redact(r)[p]) \subseteq Leaves[p.node]
      BY <3>1, <3>2 DEF MaskedIds, Outcome
    <3>4. redact(r)[p].hit /\ redact(r)[p].shown = {}
      BY <3>1 DEF Outcome
    <3> QED BY <3>3, <3>4 DEF Sound
  <2>6. CASE Held(p) /\ ModeAt(r, p) = "none" /\ \E k \in KidsAt(r, p) : k.hit
    <3>1. redact(r)[p] = Outcome(TRUE, UNION {k.shown : k \in KidsAt(r, p)},
                                       UNION {k.masked : k \in KidsAt(r, p)})
      BY <2>6, RedactCases
    <3>2. ASSUME NEW k \in KidsAt(r, p)
          PROVE  k.shown \subseteq Leaves[p.node] /\ MaskedIds(k) \subseteq Leaves[p.node]
      <4>1. PICK i \in Onward(p) : k = redact(r)[Below(p, i)]
        BY DEF KidsAt
      <4>2. Sound(r, Below(p, i))
        BY <4>1, <1>1, OnwardFacts
      <4> QED BY <2>6, <4>1, <4>2, OnwardFacts DEF Sound
    <3>3. MaskedIds(redact(r)[p]) \subseteq Leaves[p.node]
      BY <3>1, <3>2 DEF MaskedIds, Outcome
    <3> QED BY <3>1, <3>2, <3>3 DEF Sound, Outcome
  <2>7. CASE /\ (Held(p) /\ ~(\E k \in KidsAt(r, p) : k.hit)) \/ Bottom(p)
             /\ ModeAt(r, p) = "none"
    <3>1. redact(r)[p] = Kept(w)
      BY <2>7, RedactCases
    <3> QED BY <3>1, <2>1, <2>2, OnwardFacts DEF Sound
  <2> QED BY <2>3, <2>4, <2>5, <2>6, <2>7, PlaceKinds
<1>2. \A p \in Places : (\A q \in Places : Rank[q] < Rank[p] => q \in S) => p \in S
  BY <1>1
<1>3. Rank \in [Places -> Nat]
  BY ValuesAssumption DEF Rank, Places
<1> HIDE DEF S
<1>4. Places \subseteq S
  BY <1>2, <1>3, RankInduction
<1> QED BY <1>4 DEF S

-----------------------------------------------------------------------------
\* What the trails of a place are.

LEMMA TrailCases ==
  ASSUME NEW p \in Places, NEW t \in Trails[p]
  PROVE  /\ p.node.kind # "nil" /\ t \in Ways
         /\ Opened(p) => t \in Trails[Below(p, 1)]
         /\ Bottom(p) => t = <<Here(p)>>
         /\ Held(p) => \/ t = <<Here(p)>>
                       \/ \E i \in Onward(p) : \E u \in Trails[Below(p, i)] : t = <<Here(p)>> \o u
<1>1. Trails[p] = TrailsBody(Trails, p) /\ Trails[p] \subseteq Ways
  BY TrailsDef
<1>2. p.node.kind # "nil"
  BY <1>1 DEF TrailsBody, Indirect, Containers
<1>3. Opened(p) => t \in Trails[Below(p, 1)]
  BY <1>1 DEF TrailsBody, Opened, Containers
<1>4. Bottom(p) => t = <<Here(p)>>
  BY <1>1 DEF TrailsBody, Bottom, Here
<1>5. ASSUME Held(p), t # <<Here(p)>>
      PROVE  \E i \in Onward(p) : \E u \in Trails[Below(p, i)] : t = <<Here(p)>> \o u
  <2>1. t \in {<<Here(p)>> \o u : u \in UNION {Trails[Below(p, i)] : i \in Onward(p)}}
    BY <1>1, <1>5 DEF TrailsBody, Held, Here, Containers, Onward
  <2> QED BY <2>1
<1> QED BY <1>1, <1>2, <1>3, <1>4, <1>5

LEMMA TrailsThere ==
  ASSUME NEW p \in Places
  PROVE  /\ Opened(p) => Trails[p] = Trails[Below(p, 1)]
         /\ Held(p) \/ Bottom(p) => <<Here(p)>> \in Trails[p]
         /\ Held(p) => \A i \in Onward(p) : \A u \in Trails[Below(p, i)] :
                         <<Here(p)>> \o u \in Trails[p]
<1>1. Trails[p] = TrailsBody(Trails, p)
  BY TrailsDef
<1>2. Opened(p) => Trails[p] = Trails[Below(p, 1)]
  BY <1>1 DEF TrailsBody, Opened, Containers
<1>3. Bottom(p) => <<Here(p)>> \in Trails[p]
  BY <1>1 DEF TrailsBody, Bottom, Here
<1>4. ASSUME Held(p)
      PROVE  Trails[p] = {<<Here(p)>>} \cup
               {<<Here(p)>> \o u : u \in UNION {Trails[Below(p, i)] : i \in Onward(p)}}
  BY <1>1, <1>4 DEF TrailsBody, Held, Here, Containers, Onward
<1> QED BY <1>2, <1>3, <1>4

-----------------------------------------------------------------------------
\* The first of the filters, and of the places, that fit.

LEMMA MinFacts ==
  ASSUME NEW K, K \subseteq Nat, K # {}
  PROVE  /\ Min(K) \in K
         /\ \A i \in K : Min(K) <= i
         /\ \A i \in K : (\A j \in K : i <= j) => Min(K) = i
<1>1. \E i \in K : \A j \in K : i <= j
  BY LeastNat
<1>2. Min(K) \in K /\ \A j \in K : Min(K) <= j
  BY <1>1 DEF Min
<1>3. ASSUME NEW i \in K, \A j \in K : i <= j PROVE Min(K) = i
  <2>1. i <= Min(K) /\ Min(K) <= i /\ i \in Nat /\ Min(K) \in Nat
    BY <1>2, <1>3
  <2> QED BY <2>1
<1> QED BY <1>2, <1>3

LEMMA FirstModes ==
  ASSUME NEW fs \in Seq(Filters), NEW K, K \subseteq DOMAIN fs
  PROVE  /\ FirstMode(fs, K) = "none" <=> K = {}
         /\ FirstMode(fs, K) \in {"none", "full", "partial"}
<1>1. CASE K = {}
  BY <1>1 DEF FirstMode
<1>2. CASE K # {}
  <2>1. Min(K) \in DOMAIN fs
    BY <1>2, MinFacts
  <2>2. fs[Min(K)].mode \in {"full", "partial"}
    <3>1. fs[Min(K)] \in Filters
      BY <2>1
    <3> QED BY <3>1 DEF Filters
  <2> QED BY <1>2, <2>2 DEF FirstMode
<1> QED BY <1>1, <1>2

OfMode(gs, mode) == \A i \in DOMAIN gs : gs[i].mode = mode
Grown(fs, gs, mode, K) ==
  FirstMode(fs \o gs, K) = IF K \cap DOMAIN fs # {} THEN FirstMode(fs, K \cap DOMAIN fs)
                           ELSE IF K # {} THEN mode ELSE "none"

\* A list grows at its end: the filters that fitted still come first.
LEMMA FirstModeGrows ==
  ASSUME NEW S, NEW fs \in Seq(S), NEW gs \in Seq(S), NEW mode, OfMode(gs, mode),
         NEW K, K \subseteq DOMAIN (fs \o gs)
  PROVE  Grown(fs, gs, mode, K)
<1> DEFINE I == K \cap DOMAIN fs
<1>1. /\ DOMAIN fs = 1..Len(fs) /\ Len(fs) \in Nat
      /\ DOMAIN (fs \o gs) = 1..(Len(fs) + Len(gs)) /\ Len(gs) \in Nat
      /\ DOMAIN gs = 1..Len(gs)
      /\ \A i \in 1..Len(fs) : (fs \o gs)[i] = fs[i]
      /\ \A i \in 1..(Len(fs) + Len(gs)) : i > Len(fs) => (fs \o gs)[i] = gs[i - Len(fs)]
  OBVIOUS
<1>2. K \subseteq Nat /\ I \subseteq Nat /\ I \subseteq K
  BY <1>1
<1>3. CASE I # {}
  <2>1. Min(I) \in I /\ \A i \in I : Min(I) <= i
    BY <1>2, <1>3, MinFacts
  <2>2. ASSUME NEW i \in K PROVE Min(I) <= i
    <3>1. i \in Nat /\ Min(I) \in Nat /\ Min(I) <= Len(fs)
      BY <1>1, <1>2, <2>1
    <3>2. i \notin I => i > Len(fs)
      BY <1>1
    <3>3. CASE i \in I
      BY <2>1, <3>3
    <3>4. CASE i > Len(fs)
      BY <3>1, <3>4, <1>1
    <3> QED BY <3>2, <3>3, <3>4
  <2>3. Min(K) = Min(I)
    BY <1>2, <1>3, <2>1, <2>2, MinFacts
  <2> QED BY <1>1, <1>2, <1>3, <2>1, <2>3 DEF FirstMode, Grown
<1>4. CASE I = {} /\ K # {}
  <2>1. Min(K) \in K
    BY <1>2, <1>4, MinFacts
  <2>2. Min(K) \in 1..(Len(fs) + Len(gs)) /\ Min(K) > Len(fs)
    BY <1>1, <1>4, <2>1
  <2>3. (fs \o gs)[Min(K)].mode = mode
    BY <1>1, <2>2 DEF OfMode
  <2> QED BY <1>4, <2>3 DEF FirstMode, Grown
<1>5. CASE I = {} /\ K = {}
  BY <1>5 DEF FirstMode, Grown
<1> QED BY <1>3, <1>4, <1>5

-----------------------------------------------------------------------------
\* What AddFilters makes of the lists.

LEMMA NameFacts ==
  ASSUME NEW n \in Names
  PROVE  /\ n = [word |-> n.word, style |-> n.style]
         /\ n.style \in {"camel", "snake", "kebab"}
         /\ n.word = "" <=> n = NoName
         /\ n # NoName => /\ n.word \in Words
                          /\ LowerCamelCase(n) \in Names \ {NoName}
                          /\ SnakeCase(n) \in Names \ {NoName}
<1> DEFINE styles == {"camel", "snake", "kebab"}
<1>1. NoName = [word |-> "", style |-> "camel"] /\ "" \notin Words
  BY NamesAssumption DEF NoName, Spelled
<1>2. ASSUME NEW word \in Words, NEW style \in styles
      PROVE  [word |-> word, style |-> style] \in Names \ {NoName}
  <2>1. Spelled(word, style) \in Names
    BY <1>2 DEF Names
  <2>2. [word |-> word, style |-> style].word # ""
    BY <1>1, <1>2
  <2> QED BY <1>1, <2>1, <2>2 DEF Spelled
<1>3. CASE n = NoName
  BY <1>1, <1>3
<1>4. CASE n # NoName
  <2>1. PICK word \in Words, style \in styles : n = [word |-> word, style |-> style]
    BY <1>4 DEF Names, Spelled
  <2>2. n.word = word /\ n.style = style /\ word # ""
    BY <2>1, <1>1
  <2>3. LowerCamelCase(n) \in Names \ {NoName} /\ SnakeCase(n) \in Names \ {NoName}
    BY <1>2, <2>1, <2>2 DEF LowerCamelCase, SnakeCase, Spelled
  <2> QED BY <1>4, <2>1, <2>2, <2>3
<1> QED BY <1>3, <1>4

StructFilters == {f \in Filters : f.struct # NoType /\ f.field = NoName}
StructFieldFilters == {f \in Filters : f.struct # NoType /\ f.field # NoName}
GeneralFieldFilters == {f \in Filters : f.struct = NoType}
Redactors == [structs : Seq(StructFilters), fields : Seq(StructFieldFilters),
              general : Seq(GeneralFieldFilters)]

\* The filters that one more adds to each list.
AsCamel(f) == NewFilter(TypeAsValue(f.struct), LowerCamelCase(f.field), f.mode)
AsSnake(f) == NewFilter(TypeAsValue(f.struct), SnakeCase(f.field), f.mode)
NewStructs(f) == IF f.struct # NoType /\ f.field = NoName THEN <<f>> ELSE <<>>
NewFields(f)  == IF f.struct # NoType /\ f.field # NoName
                 THEN <<f>> \o <<AsCamel(f), AsSnake(f)>> ELSE <<>>
NewGeneral(f) == IF f.struct # NoType THEN <<>>
                 ELSE IF f.field = NoName THEN <<f>> ELSE <<AsCamel(f), AsSnake(f)>>

\* A reflect.Type handed on as data loses the type that it stands for.
LEMMA TypesOfData ==
  /\ Rtype # NoType
  /\ Indirect(NilPointer).type = NoType
  /\ \A type : Indirect(TypeAsValue(type)).type = IF type = NoType THEN NoType ELSE Rtype
<1>1. Rtype # NoType
  BY DEF Rtype, NoType
<1>2. Indirect(NilPointer).type = NoType
  BY DEF Indirect, NilPointer, Node
<1>3. ASSUME NEW type, type # NoType PROVE Indirect(TypeAsValue(type)).type = Rtype
  <2> DEFINE w == Node("struct", Rtype, <<>>)
  <2>1. TypeAsValue(type).kind = "ptr" /\ TypeAsValue(type).kids[1].value = w
    BY <1>3 DEF TypeAsValue, Pointer, Node, Kid
  <2>2. w.type = Rtype
    BY DEF Node
  <2> QED BY <2>1, <2>2 DEF Indirect
<1>4. TypeAsValue(NoType) = NilPointer
  BY DEF TypeAsValue
<1> QED BY <1>1, <1>2, <1>3, <1>4

LEMMA SpelledFilters ==
  ASSUME NEW f \in Filters, f.field # NoName
  PROVE  \A g \in {AsCamel(f), AsSnake(f)} :
           /\ g \in Filters /\ g.field # NoName /\ g.mode = f.mode
           /\ g.struct = IF f.struct = NoType THEN NoType ELSE Rtype
<1>1. f.field \in Names /\ f.mode \in {"full", "partial"}
  BY DEF Filters
<1>2. LowerCamelCase(f.field) \in Names \ {NoName} /\ SnakeCase(f.field) \in Names \ {NoName}
  BY <1>1, NameFacts
<1>3. NoType \in Types /\ Rtype \in Types
  BY NamesAssumption
<1> QED BY <1>1, <1>2, <1>3, TypesOfData DEF AsCamel, AsSnake, NewFilter, Filters

LEMMA NewLists ==
  ASSUME NEW f \in Filters
  PROVE  /\ NewStructs(f) \in Seq(StructFilters)
         /\ NewFields(f) \in Seq(StructFieldFilters)
         /\ NewGeneral(f) \in Seq(GeneralFieldFilters)
         /\ \A i \in DOMAIN NewStructs(f) : NewStructs(f)[i].mode = f.mode
         /\ \A i \in DOMAIN NewFields(f) : NewFields(f)[i].mode = f.mode
         /\ \A i \in DOMAIN NewGeneral(f) : NewGeneral(f)[i].mode = f.mode
<1>1. NewStructs(f) \in Seq(StructFilters)
      /\ \A i \in DOMAIN NewStructs(f) : NewStructs(f)[i].mode = f.mode
  <2>1. CASE f.struct # NoType /\ f.field = NoName
    <3>1. NewStructs(f) = <<f>> /\ f \in StructFilters
      BY <2>1 DEF NewStructs, StructFilters
    <3> QED BY <3>1
  <2>2. CASE ~(f.struct # NoType /\ f.field = NoName)
    <3>1. NewStructs(f) = <<>>
      BY <2>2 DEF NewStructs
    <3> QED BY <3>1
  <2> QED BY <2>1, <2>2
<1>2. CASE f.struct # NoType /\ f.field # NoName
  <2>1. f \in StructFieldFilters /\ AsCamel(f) \in StructFieldFilters
        /\ AsSnake(f) \in StructFieldFilters
    BY <1>2, SpelledFilters, TypesOfData DEF StructFieldFilters
  <2>2. NewFields(f) = <<f>> \o <<AsCamel(f), AsSnake(f)>>
    BY <1>2 DEF NewFields
  <2>3. <<f>> \in Seq(StructFieldFilters) /\ <<AsCamel(f), AsSnake(f)>> \in Seq(StructFieldFilters)
    BY <2>1
  <2>4. /\ NewFields(f) \in Seq(StructFieldFilters) /\ Len(NewFields(f)) = 3
        /\ \A i \in 1..3 : NewFields(f)[i] = IF i <= 1 THEN <<f>>[i]
                                            ELSE <<AsCamel(f), AsSnake(f)>>[i - 1]
    BY <2>2, <2>3, ConcatProperties
  <2>6. \A i \in 1..3 : NewFields(f)[i] \in {f, AsCamel(f), AsSnake(f)}
    BY <2>4
  <2>7. \A i \in DOMAIN NewFields(f) : NewFields(f)[i].mode = f.mode
    BY <1>2, <2>4, <2>6, SpelledFilters
  <2>5. NewGeneral(f) = <<>>
    BY <1>2 DEF NewGeneral
  <2> QED BY <1>1, <2>4, <2>5, <2>7
<1>3. CASE f.struct # NoType /\ f.field = NoName
  <2>1. NewGeneral(f) = <<>> /\ NewFields(f) = <<>>
    BY <1>3 DEF NewGeneral, NewFields
  <2> QED BY <1>1, <2>1
<1>4. CASE f.struct = NoType /\ f.field = NoName
  <2>1. NewGeneral(f) = <<f>> /\ NewFields(f) = <<>> /\ f \in GeneralFieldFilters
    BY <1>4 DEF NewGeneral, NewFields, GeneralFieldFilters
  <2> QED BY <1>1, <2>1
<1>5. CASE f.struct = NoType /\ f.field # NoName
  <2>1. NewGeneral(f) = <<AsCamel(f), AsSnake(f)>> /\ NewFields(f) = <<>>
    BY <1>5 DEF NewGeneral, NewFields
  <2>2. AsCamel(f) \in GeneralFieldFilters /\ AsSnake(f) \in GeneralFieldFilters
    BY <1>5, SpelledFilters DEF GeneralFieldFilters
  <2>3. \A i \in DOMAIN NewGeneral(f) : NewGeneral(f)[i].mode = f.mode
    BY <1>5, <2>1, SpelledFilters
  <2> QED BY <1>1, <2>1, <2>2, <2>3
<1> QED BY <1>2, <1>3, <1>4, <1>5

LEMMA AddedLists ==
  ASSUME NEW r \in Redactors, NEW f \in Filters
  PROVE  /\ Added(r, f).structs = r.structs \o NewStructs(f)
         /\ Added(r, f).fields = r.fields \o NewFields(f)
         /\ Added(r, f).general = r.general \o NewGeneral(f)
         /\ Added(r, f) \in Redactors
<1>0. /\ r.structs \in Seq(StructFilters) /\ r.fields \in Seq(StructFieldFilters)
      /\ r.general \in Seq(GeneralFieldFilters)
      /\ r = [structs |-> r.structs, fields |-> r.fields, general |-> r.general]
  BY DEF Redactors
<1>1. /\ r.structs \o <<>> = r.structs /\ r.fields \o <<>> = r.fields
      /\ r.general \o <<>> = r.general
  BY <1>0, ConcatEmptySeq
<1>2. ASSUME NEW a, NEW b, NEW c, a = r.structs \o NewStructs(f),
             b = r.fields \o NewFields(f), c = r.general \o NewGeneral(f)
      PROVE  [structs |-> a, fields |-> b, general |-> c] \in Redactors
  <2>1. a \in Seq(StructFilters) /\ b \in Seq(StructFieldFilters)
        /\ c \in Seq(GeneralFieldFilters)
    BY <1>0, <1>2, NewLists, ConcatProperties
  <2> QED BY <2>1 DEF Redactors
<1>3. CASE f.struct = NoType
  <2>1. Added(r, f) = [r EXCEPT !.general = @ \o filterWithFields(f)]
    BY <1>3 DEF Added
  <2>2. filterWithFields(f) = NewGeneral(f) /\ NewStructs(f) = <<>> /\ NewFields(f) = <<>>
    BY <1>3 DEF filterWithFields, NewGeneral, NewStructs, NewFields, AsCamel, AsSnake
  <2>3. Added(r, f) = [structs |-> r.structs, fields |-> r.fields,
                       general |-> r.general \o NewGeneral(f)]
    BY <1>0, <2>1, <2>2
  <2>8. /\ Added(r, f).structs = r.structs \o NewStructs(f)
        /\ Added(r, f).fields = r.fields \o NewFields(f)
        /\ Added(r, f).general = r.general \o NewGeneral(f)
    BY <1>1, <2>2, <2>3
  <2> QED BY <1>2, <2>8, <2>3
<1>4. CASE f.struct # NoType /\ f.field = NoName
  <2>1. Added(r, f) = [r EXCEPT !.structs = Append(@, f)]
    BY <1>4 DEF Added
  <2>2. NewStructs(f) = <<f>> /\ NewFields(f) = <<>> /\ NewGeneral(f) = <<>>
    BY <1>4 DEF NewGeneral, NewStructs, NewFields
  <2>3. f \in StructFilters
    BY <1>4 DEF StructFilters
  <2>4. Append(r.structs, f) = r.structs \o NewStructs(f)
    BY <1>0, <2>2, <2>3, AppendIsConcat
  <2>5. Added(r, f) = [structs |-> r.structs \o NewStructs(f), fields |-> r.fields,
                       general |-> r.general]
    BY <1>0, <2>1, <2>4
  <2>8. /\ Added(r, f).structs = r.structs \o NewStructs(f)
        /\ Added(r, f).fields = r.fields \o NewFields(f)
        /\ Added(r, f).general = r.general \o NewGeneral(f)
    BY <1>1, <2>2, <2>5
  <2> QED BY <1>2, <2>8, <2>5
<1>5. CASE f.struct # NoType /\ f.field # NoName
  <2>1. Added(r, f) = [r EXCEPT !.fields = Append(@, f) \o filterWithFields(f)]
    BY <1>5 DEF Added
  <2>2. /\ filterWithFields(f) = <<AsCamel(f), AsSnake(f)>>
        /\ NewFields(f) = <<f>> \o filterWithFields(f)
        /\ NewStructs(f) = <<>> /\ NewGeneral(f) = <<>>
    BY <1>5 DEF filterWithFields, NewGeneral, NewStructs, NewFields, AsCamel, AsSnake
  <2>3. f \in StructFieldFilters /\ <<f>> \in Seq(StructFieldFilters)
    BY <1>5 DEF StructFieldFilters
  <2>4. filterWithFields(f) \in Seq(StructFieldFilters)
    BY <2>2, <1>5, SpelledFilters, TypesOfData DEF StructFieldFilters
  <2>5. Append(r.fields, f) = r.fields \o <<f>>
    BY <1>0, <2>3, AppendIsConcat
  <2>6. Append(r.fields, f) \o filterWithFields(f) = r.fields \o NewFields(f)
    BY <1>0, <2>2, <2>3, <2>4, <2>5, ConcatAssociative
  <2>7. Added(r, f) = [structs |-> r.structs, fields |-> r.fields \o NewFields(f),
                       general |-> r.general]
    BY <1>0, <2>1, <2>6
  <2>8. /\ Added(r, f).structs = r.structs \o NewStructs(f)
        /\ Added(r, f).fields = r.fields \o NewFields(f)
        /\ Added(r, f).general = r.general \o NewGeneral(f)
    BY <1>1, <2>2, <2>7
  <2> QED BY <1>2, <2>8, <2>7
<1> QED BY <1>3, <1>4, <1>5

-----------------------------------------------------------------------------
\* Each list is looked through as all that was given would be.

Where(fs, M) == {i \in DOMAIN fs : fs[i] \in M}

\* The filters of M come first in one list as those of N do in the other.
Same(ls, M, fs, N) ==
  /\ FirstMode(ls, Where(ls, M)) = FirstMode(fs, Where(fs, N))
  /\ Where(ls, M) = {} <=> Where(fs, N) = {}

LEMMA WhereGrows ==
  ASSUME NEW S, NEW ls \in Seq(S), NEW gs \in Seq(S), NEW M
  PROVE  /\ Where(ls \o gs, M) \subseteq DOMAIN (ls \o gs)
         /\ Where(ls, M) = Where(ls \o gs, M) \cap DOMAIN ls
         /\ Where(ls \o gs, M) = {} <=>
              Where(ls, M) = {} /\ ~(\E j \in DOMAIN gs : gs[j] \in M)
<1>1. /\ DOMAIN ls = 1..Len(ls) /\ Len(ls) \in Nat
      /\ DOMAIN gs = 1..Len(gs) /\ Len(gs) \in Nat
      /\ DOMAIN (ls \o gs) = 1..(Len(ls) + Len(gs))
      /\ \A i \in 1..Len(ls) : (ls \o gs)[i] = ls[i]
      /\ \A j \in 1..Len(gs) : (ls \o gs)[Len(ls) + j] = gs[j]
  OBVIOUS
<1>2. Where(ls \o gs, M) \subseteq DOMAIN (ls \o gs)
  BY DEF Where
<1>3. Where(ls, M) = Where(ls \o gs, M) \cap DOMAIN ls
  BY <1>1 DEF Where
<1>4. ASSUME NEW j \in DOMAIN gs, gs[j] \in M PROVE Where(ls \o gs, M) # {}
  <2>1. Len(ls) + j \in DOMAIN (ls \o gs) /\ (ls \o gs)[Len(ls) + j] \in M
    BY <1>1, <1>4
  <2> QED BY <2>1 DEF Where
<1>5. ASSUME Where(ls, M) = {}, NEW i \in Where(ls \o gs, M)
      PROVE  \E j \in DOMAIN gs : gs[j] \in M
  <2>1. i \in 1..(Len(ls) + Len(gs)) /\ (ls \o gs)[i] \in M /\ i \notin 1..Len(ls)
    BY <1>1, <1>3, <1>5 DEF Where
  <2>2. i - Len(ls) \in 1..Len(gs) /\ i = Len(ls) + (i - Len(ls))
    BY <1>1, <2>1
  <2>3. gs[i - Len(ls)] \in M
    BY <1>1, <2>1, <2>2
  <2> QED BY <1>1, <2>2, <2>3
<1>6. Where(ls \o gs, M) = {} => Where(ls, M) = {}
  BY <1>3
<1> QED BY <1>2, <1>3, <1>4, <1>5, <1>6

LEMMA SameGrows ==
  ASSUME NEW S, NEW ls \in Seq(S), NEW gs \in Seq(S), NEW fs \in Seq(Filters),
         NEW f \in Filters, \A j \in DOMAIN gs : gs[j].mode = f.mode,
         NEW M, NEW N, Same(ls, M, fs, N),
         (\E j \in DOMAIN gs : gs[j] \in M) <=> f \in N
  PROVE  Same(ls \o gs, M, Append(fs, f), N)
<1>1. /\ Append(fs, f) = fs \o <<f>> /\ <<f>> \in Seq(Filters)
      /\ \A j \in DOMAIN <<f>> : <<f>>[j].mode = f.mode
      /\ (\E j \in DOMAIN <<f>> : <<f>>[j] \in N) <=> f \in N
  BY AppendIsConcat
<1>2. /\ Where(ls \o gs, M) \subseteq DOMAIN (ls \o gs)
      /\ Where(ls, M) = Where(ls \o gs, M) \cap DOMAIN ls
      /\ Where(ls \o gs, M) = {} <=>
           Where(ls, M) = {} /\ ~(\E j \in DOMAIN gs : gs[j] \in M)
  BY WhereGrows
<1>3. /\ Where(fs \o <<f>>, N) \subseteq DOMAIN (fs \o <<f>>)
      /\ Where(fs, N) = Where(fs \o <<f>>, N) \cap DOMAIN fs
      /\ Where(fs \o <<f>>, N) = {} <=> Where(fs, N) = {} /\ f \notin N
  <2>1. /\ Where(fs \o <<f>>, N) \subseteq DOMAIN (fs \o <<f>>)
        /\ Where(fs, N) = Where(fs \o <<f>>, N) \cap DOMAIN fs
        /\ Where(fs \o <<f>>, N) = {} <=>
             Where(fs, N) = {} /\ ~(\E j \in DOMAIN <<f>> : <<f>>[j] \in N)
    BY <1>1, WhereGrows
  <2> QED BY <1>1, <2>1
<1>4. FirstMode(ls \o gs, Where(ls \o gs, M)) =
        IF Where(ls, M) # {} THEN FirstMode(ls, Where(ls, M))
        ELSE IF Where(ls \o gs, M) # {} THEN f.mode ELSE "none"
  <2>1. OfMode(gs, f.mode)
    BY DEF OfMode
  <2>2. Grown(ls, gs, f.mode, Where(ls \o gs, M))
    BY <1>2, <2>1, FirstModeGrows
  <2> QED BY <1>2, <2>2 DEF Grown
<1>5. FirstMode(fs \o <<f>>, Where(fs \o <<f>>, N)) =
        IF Where(fs, N) # {} THEN FirstMode(fs, Where(fs, N))
        ELSE IF Where(fs \o <<f>>, N) # {} THEN f.mode ELSE "none"
  <2>1. OfMode(<<f>>, f.mode)
    BY <1>1 DEF OfMode
  <2>2. Grown(fs, <<f>>, f.mode, Where(fs \o <<f>>, N))
    BY <1>1, <1>3, <2>1, FirstModeGrows
  <2> QED BY <1>3, <2>2 DEF Grown
<1> QED BY <1>1, <1>2, <1>3, <1>4, <1>5 DEF Same

\* The two filters that AddFilters derives mean a name in any spelling but the
\* hyphenated one.
LEMMA Spellings ==
  ASSUME NEW f \in Filters, NEW n \in Names, f.field # NoName
  PROVE  EqualFold(n, AsCamel(f).field) \/ EqualFold(n, AsSnake(f).field) <=>
           f.field.word = n.word /\ (n.style # "kebab" \/ n.word \in OneWord)
<1>1. /\ AsCamel(f).field = [word |-> f.field.word, style |-> "camel"]
      /\ AsSnake(f).field = [word |-> f.field.word, style |-> "snake"]
  BY DEF AsCamel, AsSnake, NewFilter, LowerCamelCase, SnakeCase, Spelled
<1>2. /\ n = [word |-> n.word, style |-> n.style]
      /\ n.style \in {"camel", "snake", "kebab"}
  BY NameFacts
<1>3. EqualFold(n, AsCamel(f).field) <=>
        f.field.word = n.word /\ (n.word \in OneWord \/ n.style = "camel")
  BY <1>1, <1>2 DEF EqualFold, Folded, LowerCamelCase, Spelled
<1>4. EqualFold(n, AsSnake(f).field) <=>
        f.field.word = n.word /\ (n.word \in OneWord \/ n.style = "snake")
  BY <1>1, <1>2 DEF EqualFold, Folded, LowerCamelCase, Spelled
<1> QED BY <1>2, <1>3, <1>4

OfType(type) == {g \in Filters : g.struct = type /\ g.field = NoName}
OfField(type, n) == {g \in StructFieldFilters : g.struct = type /\ EqualFold(n, g.field)}
OfName(n) == {g \in GeneralFieldFilters : EqualFold(n, g.field)}
Meaning(type, n) ==
  {g \in Filters : /\ g.struct = type /\ Means(g, n)
                   /\ type # NoType => g.field # NoName}

\* The redactor finds in its lists what was given.  No field is looked up under
\* reflect.rtype, where the filters derived from those of structs' fields are.
Agrees(r, fs) ==
  \A n \in Names :
    /\ \A type \in Types \ {NoType} : Same(r.structs, OfType(type), fs, OfType(type))
    /\ \A type \in Types \ {NoType, Rtype} :
         Same(r.fields, OfField(type, n), fs, Meaning(type, n))
    /\ Same(r.general, OfName(n), fs, Meaning(NoType, n))

LEMMA NewMatches ==
  ASSUME NEW f \in Filters, NEW n \in Names
  PROVE  /\ \A type \in Types \ {NoType} :
              (\E j \in DOMAIN NewStructs(f) : NewStructs(f)[j] \in OfType(type))
                <=> f \in OfType(type)
         /\ \A type \in Types \ {NoType, Rtype} :
              (\E j \in DOMAIN NewFields(f) : NewFields(f)[j] \in OfField(type, n))
                <=> f \in Meaning(type, n)
         /\ (\E j \in DOMAIN NewGeneral(f) : NewGeneral(f)[j] \in OfName(n))
              <=> f \in Meaning(NoType, n)
<1>1. ASSUME NEW type \in Types \ {NoType}
      PROVE  (\E j \in DOMAIN NewStructs(f) : NewStructs(f)[j] \in OfType(type))
               <=> f \in OfType(type)
  <2>1. CASE f.struct # NoType /\ f.field = NoName
    <3>1. NewStructs(f) = <<f>>
      BY <2>1 DEF NewStructs
    <3> QED BY <3>1
  <2>2. CASE ~(f.struct # NoType /\ f.field = NoName)
    <3>1. NewStructs(f) = <<>> /\ f \notin OfType(type)
      BY <2>2 DEF NewStructs, OfType
    <3> QED BY <3>1
  <2> QED BY <2>1, <2>2
<1>2. ASSUME NEW type \in Types \ {NoType, Rtype}
      PROVE  (\E j \in DOMAIN NewFields(f) : NewFields(f)[j] \in OfField(type, n))
               <=> f \in Meaning(type, n)
  <2>1. CASE f.struct # NoType /\ f.field # NoName
    <3>1. NewFields(f) = <<f>> \o <<AsCamel(f), AsSnake(f)>>
      BY <2>1 DEF NewFields
    <3>2. \A g \in {f, AsCamel(f), AsSnake(f)} : g \in StructFieldFilters
      BY <2>1, SpelledFilters, TypesOfData DEF StructFieldFilters
    <3>3. <<f>> \in Seq(StructFieldFilters) /\ <<AsCamel(f), AsSnake(f)>> \in Seq(StructFieldFilters)
      BY <3>2
    <3>4. /\ Len(NewFields(f)) = 3 /\ NewFields(f) \in Seq(StructFieldFilters)
          /\ \A i \in 1..3 : NewFields(f)[i] = IF i <= 1 THEN <<f>>[i]
                                              ELSE <<AsCamel(f), AsSnake(f)>>[i - 1]
      BY <3>1, <3>3, ConcatProperties
    <3>5. /\ DOMAIN NewFields(f) = 1..3 /\ NewFields(f)[1] = f
          /\ NewFields(f)[2] = AsCamel(f) /\ NewFields(f)[3] = AsSnake(f)
      BY <3>4
    <3>6. AsCamel(f) \notin OfField(type, n) /\ AsSnake(f) \notin OfField(type, n)
      <4>1. AsCamel(f).struct = Rtype /\ AsSnake(f).struct = Rtype
        BY <2>1, SpelledFilters
      <4> QED BY <4>1 DEF OfField
    <3>7. (\E j \in DOMAIN NewFields(f) : NewFields(f)[j] \in OfField(type, n))
            <=> f \in OfField(type, n)
      <4>1. \A j \in 1..3 : j = 1 \/ j = 2 \/ j = 3
        OBVIOUS
      <4> QED BY <3>5, <3>6, <4>1
    <3>8. Means(f, n) <=> EqualFold(n, f.field)
      BY <2>1 DEF Means
    <3>9. f \in OfField(type, n) <=> f \in Meaning(type, n)
      BY <2>1, <3>2, <3>8 DEF OfField, Meaning
    <3> QED BY <3>7, <3>9
  <2>2. CASE ~(f.struct # NoType /\ f.field # NoName)
    <3>1. f \notin Meaning(type, n) /\ NewFields(f) = <<>>
      BY <2>2 DEF Meaning, NewFields
    <3> QED BY <3>1
  <2> QED BY <2>1, <2>2
<1>3. (\E j \in DOMAIN NewGeneral(f) : NewGeneral(f)[j] \in OfName(n))
        <=> f \in Meaning(NoType, n)
  <2>1. CASE f.struct = NoType /\ f.field = NoName
    <3>1. NewGeneral(f) = <<f>> /\ f \in GeneralFieldFilters
      BY <2>1 DEF NewGeneral, GeneralFieldFilters
    <3>2. (\E j \in DOMAIN NewGeneral(f) : NewGeneral(f)[j] \in OfName(n)) <=> EqualFold(n, NoName)
      BY <2>1, <3>1 DEF OfName
    <3>3. f \in Meaning(NoType, n) <=> Means(f, n)
      BY <2>1 DEF Meaning
    <3>4. Means(f, n) <=> n.word = ""
      <4>1. f.field.word = "" /\ "" \in OneWord
        <5>1. NoName.word = ""
          BY DEF NoName, Spelled
        <5>2. "" \in OneWord
          BY NamesAssumption
        <5> QED BY <2>1, <5>1, <5>2
      <4> QED BY <2>1, <4>1 DEF Means
    <3>5. EqualFold(n, NoName) <=> n.word = ""
      <4>1. n.word = "" => n = NoName
        BY NameFacts
      <4>2. EqualFold(n, NoName) => n.word = ""
        BY NameFacts DEF EqualFold, Folded, LowerCamelCase, NoName, Spelled
      <4> QED BY <4>1, <4>2 DEF EqualFold
    <3> QED BY <3>2, <3>3, <3>4, <3>5
  <2>2. CASE f.struct = NoType /\ f.field # NoName
    <3>1. NewGeneral(f) = <<AsCamel(f), AsSnake(f)>>
      BY <2>2 DEF NewGeneral
    <3>2. AsCamel(f) \in GeneralFieldFilters /\ AsSnake(f) \in GeneralFieldFilters
      BY <2>2, SpelledFilters DEF GeneralFieldFilters
    <3>3. (\E j \in DOMAIN NewGeneral(f) : NewGeneral(f)[j] \in OfName(n)) <=>
            EqualFold(n, AsCamel(f).field) \/ EqualFold(n, AsSnake(f).field)
      BY <3>1, <3>2 DEF OfName
    <3>4. f \in Meaning(NoType, n) <=> Means(f, n)
      BY <2>2 DEF Meaning
    <3>5. Means(f, n) <=> f.field.word = n.word /\ (n.style # "kebab" \/ n.word \in OneWord)
      BY <2>2 DEF Means
    <3> QED BY <2>2, <3>3, <3>4, <3>5, Spellings
  <2>3. CASE f.struct # NoType
    <3>1. NewGeneral(f) = <<>> /\ f \notin Meaning(NoType, n)
      BY <2>3 DEF NewGeneral, Meaning
    <3> QED BY <3>1
  <2> QED BY <2>1, <2>2, <2>3
<1> QED BY <1>1, <1>2, <1>3

LEMMA AgreesStep ==
  ASSUME NEW r \in Redactors, NEW fs \in Seq(Filters), NEW f \in Filters, Agrees(r, fs)
  PROVE  Agrees(Added(r, f), Append(fs, f))
<1>1. /\ r.structs \in Seq(StructFilters) /\ r.fields \in Seq(StructFieldFilters)
      /\ r.general \in Seq(GeneralFieldFilters)
  BY DEF Redactors
<1>2. ASSUME NEW n \in Names, NEW type \in Types \ {NoType}
      PROVE  Same(r.structs \o NewStructs(f), OfType(type), Append(fs, f), OfType(type))
  <2>1. Same(r.structs, OfType(type), fs, OfType(type))
    BY DEF Agrees
  <2> QED BY <1>1, <2>1, NewLists, NewMatches, SameGrows
<1>4. ASSUME NEW n \in Names, NEW type \in Types \ {NoType, Rtype}
      PROVE  Same(r.fields \o NewFields(f), OfField(type, n), Append(fs, f), Meaning(type, n))
  <2>1. Same(r.fields, OfField(type, n), fs, Meaning(type, n))
    BY DEF Agrees
  <2> QED BY <1>1, <2>1, NewLists, NewMatches, SameGrows
<1>3. ASSUME NEW n \in Names
      PROVE  Same(r.general \o NewGeneral(f), OfName(n), Append(fs, f), Meaning(NoType, n))
  <2>1. Same(r.general, OfName(n), fs, Meaning(NoType, n))
    BY DEF Agrees
  <2> QED BY <1>1, <2>1, NewLists, NewMatches, SameGrows
<1> QED BY <1>2, <1>3, <1>4, AddedLists DEF Agrees

LEMMA EmptyAgrees ==
  /\ EmptyRedactor \in Redactors /\ <<>> \in Seq(Filters)
  /\ Agrees(EmptyRedactor, <<>>)
<1>1. EmptyRedactor \in Redactors
  BY DEF EmptyRedactor, Redactors
<1>2. EmptyRedactor.structs = <<>> /\ EmptyRedactor.fields = <<>> /\ EmptyRedactor.general = <<>>
  BY DEF EmptyRedactor
<1>3. \A M : Where(<<>>, M) = {}
  BY DEF Where
<1>4. \A M, N : Same(<<>>, M, <<>>, N)
  BY <1>3 DEF Same
<1> QED BY <1>1, <1>2, <1>4 DEF Agrees

\* The loop over a list of filters adds them one after the other.
LEMMA AddedAllDef ==
  ASSUME NEW r \in Redactors, NEW fs \in Seq(Filters)
  PROVE  \E f \in [0..Len(fs) -> Redactors] :
           /\ AddedAll(r, fs) = f[Len(fs)] /\ f[0] = r
           /\ \A n \in 1..Len(fs) : f[n] = Added(f[n - 1], fs[n])
<1> DEFINE D == 0..Len(fs)
           step(f, n) == IF n = 0 THEN r ELSE Added(f[n - 1], fs[n])
           F == [f \in [D -> Redactors] |-> [n \in D |-> step(f, n)]]
           id == [n \in D |-> n]
           upTo == CHOOSE f : f = [n \in D |-> step(f, n)]
<1>1. /\ Len(fs) \in Nat /\ id \in [D -> Nat] /\ \A n \in D : id[n] = n
      /\ \A n \in 1..Len(fs) : fs[n] \in Filters
      /\ \A n \in D : n = 0 \/ (n \in 1..Len(fs) /\ n - 1 \in D /\ n - 1 < n)
  OBVIOUS
<1> HIDE DEF D, id
<1>2. ASSUME NEW f, NEW n \in D, \A m \in D : id[m] < id[n] => f[m] \in Redactors
      PROVE  step(f, n) \in Redactors
  <2>1. CASE n = 0
    BY <2>1
  <2>2. CASE n # 0
    <3>1. f[n - 1] \in Redactors /\ fs[n] \in Filters
      BY <1>1, <1>2, <2>2
    <3> QED BY <2>2, <3>1, AddedLists
  <2> QED BY <2>1, <2>2
<1>3. F \in [[D -> Redactors] -> [D -> Redactors]]
  BY <1>2
<1>4. ASSUME NEW g \in [D -> Redactors], NEW h \in [D -> Redactors], NEW n \in D,
             \A m \in D : id[m] < id[n] => g[m] = h[m]
      PROVE  F[g][n] = F[h][n]
  <2>1. n # 0 => g[n - 1] = h[n - 1]
    BY <1>1, <1>4
  <2> QED BY <2>1
<1>5. \E f \in [D -> Redactors] : Solves(f, F)
  <2> HIDE DEF F
  <2>1. Descends(D, Redactors, id, F)
    BY <1>4 DEF Descends
  <2>2. Redactors # {}
    OBVIOUS
  <2> QED BY <1>1, <1>3, <2>1, <2>2, RecursiveFunction
<1>6. \E f : f = [n \in D |-> step(f, n)]
  BY <1>5 DEF Solves
<1>7. upTo = [n \in D |-> step(upTo, n)]
  BY <1>6
<1>8. AddedAll(r, fs) = upTo[Len(fs)]
  BY DEF AddedAll, D
<1> HIDE DEF upTo
<1>9. \A n \in D : upTo[n] \in Redactors
  <2> DEFINE S == {n \in D : upTo[n] \in Redactors}
  <2>1. ASSUME NEW n \in D, \A m \in D : id[m] < id[n] => m \in S
        PROVE  n \in S
    <3>1. step(upTo, n) \in Redactors
      BY <2>1, <1>2
    <3> QED BY <3>1, <1>7
  <2> HIDE DEF S
  <2>2. D \subseteq S
    BY <1>1, <2>1, RankInduction
  <2> QED BY <2>2 DEF S
<1>10. upTo \in [D -> Redactors]
  BY <1>7, <1>9
<1>11. 0 \in D /\ upTo[0] = r
  BY <1>1, <1>7 DEF D
<1>12. ASSUME NEW n \in 1..Len(fs) PROVE upTo[n] = Added(upTo[n - 1], fs[n])
  <2>1. n \in D /\ n # 0
    BY <1>1 DEF D
  <2> QED BY <2>1, <1>7
<1> QED BY <1>8, <1>10, <1>11, <1>12 DEF D

LEMMA AddedAllAgrees ==
  ASSUME NEW fs \in Seq(Filters)
  PROVE  /\ AddedAll(EmptyRedactor, fs) \in Redactors
         /\ Agrees(AddedAll(EmptyRedactor, fs), fs)
<1>1. PICK f \in [0..Len(fs) -> Redactors] :
        /\ AddedAll(EmptyRedactor, fs) = f[Len(fs)] /\ f[0] = EmptyRedactor
        /\ \A n \in 1..Len(fs) : f[n] = Added(f[n - 1], fs[n])
  BY EmptyAgrees, AddedAllDef
<1> DEFINE D == 0..Len(fs)
           id == [n \in D |-> n]
           S == {n \in D : Agrees(f[n], SubSeq(fs, 1, n))}
<1>2. /\ Len(fs) \in Nat /\ id \in [D -> Nat] /\ \A n \in D : id[n] = n
  OBVIOUS
<1>3. ASSUME NEW n \in D, \A m \in D : id[m] < id[n] => m \in S
      PROVE  n \in S
  <2>1. CASE n = 0
    <3>1. SubSeq(fs, 1, n) = <<>>
      BY <2>1
    <3> QED BY <2>1, <3>1, <1>1, EmptyAgrees
  <2>2. CASE n # 0
    <3>1. n \in 1..Len(fs) /\ n - 1 \in D /\ id[n - 1] < id[n]
      BY <1>2, <2>2
    <3>2. Agrees(f[n - 1], SubSeq(fs, 1, n - 1))
      BY <1>3, <3>1
    <3>3. /\ f[n - 1] \in Redactors /\ fs[n] \in Filters
          /\ SubSeq(fs, 1, n - 1) \in Seq(Filters)
      BY <3>1
    <3>4. SubSeq(fs, 1, n) = Append(SubSeq(fs, 1, n - 1), fs[n])
      BY <3>1
    <3>5. Agrees(f[n], SubSeq(fs, 1, n))
      BY <1>1, <3>1, <3>2, <3>3, <3>4, AgreesStep
    <3> QED BY <3>5
  <2> QED BY <2>1, <2>2
<1>4. Len(fs) \in D /\ SubSeq(fs, 1, Len(fs)) = fs
  OBVIOUS
<1> HIDE DEF S, id, D
<1>5. D \subseteq S
  BY <1>2, <1>3, RankInduction
<1>6. Len(fs) \in S
  BY <1>4, <1>5
<1>7. Agrees(f[Len(fs)], fs) /\ Len(fs) \in 0..Len(fs)
  BY <1>4, <1>6 DEF S, D
<1> QED BY <1>1, <1>7

LEMMA DefaultsAgree ==
  /\ DefaultRedactor \in Redactors /\ DefaultFilters \in Seq(Filters)
  /\ Agrees(DefaultRedactor, DefaultFilters)
<1> DEFINE words == {"password", "address", "cipher", "email", "csrf", "accessToken",
                     "apiKey", "cvv"}
<1>1. ASSUME NEW word \in words, NEW mode \in {"full", "partial"}
      PROVE  ForName(word, mode) \in Filters
  <2>1. word \in Words
    BY DefaultsAssumption
  <2>2. Spelled(word, "camel") \in Names
    BY <2>1 DEF Names
  <2> QED BY <2>2, NamesAssumption, TypesOfData DEF ForName, NewFilter, Filters
<1>2. DefaultFilters \in Seq(Filters)
  BY <1>1 DEF DefaultFilters
<1> QED BY <1>2, AddedAllAgrees DEF DefaultRedactor

\* A redactor that agrees with what was given meets at a place what is wanted.
LEMMA ModeWanted ==
  ASSUME NEW r \in Redactors, NEW fs \in Seq(Filters), Agrees(r, fs), NEW p \in Places
  PROVE  ModeAt(r, p) = Wanted(fs, Here(p))
<1> DEFINE w == Indirect(p.node)
<1>0. /\ r.structs \in Seq(StructFilters) /\ r.fields \in Seq(StructFieldFilters)
      /\ r.general \in Seq(GeneralFieldFilters)
  BY DEF Redactors
<1>1. p.owner \in Types \ {Rtype} /\ p.name \in Names /\ w \in Nodes
  BY PlaceFacts DEF Places
<1>2. Here(p).owner = p.owner /\ Here(p).name = p.name /\ Here(p).node = w
  BY HereFacts
<1> HIDE DEF w
<1>3. CASE w.kind = "struct"
  <2>1. w.type \in Types \ {NoType}
    BY <1>1, <1>3, ValuesAssumption
  <2>2. {i \in DOMAIN r.structs : r.structs[i].struct = w.type} = Where(r.structs, OfType(w.type))
    <3>1. \A i \in DOMAIN r.structs : r.structs[i] \in StructFilters
      BY <1>0
    <3> QED BY <3>1 DEF Where, OfType, StructFilters
  <2>3. {i \in DOMAIN fs : /\ fs[i].field = NoName
                           /\ fs[i].struct = w.type} = Where(fs, OfType(w.type))
    <3>1. \A i \in DOMAIN fs : fs[i] \in Filters
      OBVIOUS
    <3> QED BY <3>1 DEF Where, OfType
  <2>4. Same(r.structs, OfType(w.type), fs, OfType(w.type))
    BY <1>1, <2>1 DEF Agrees
  <2>5. ModeAt(r, p) = FirstMode(r.structs, Where(r.structs, OfType(w.type)))
    BY <1>3, <2>2 DEF ModeAt, filterStruct, w
  <2>6. Wanted(fs, Here(p)) = FirstMode(fs, Where(fs, OfType(w.type)))
    BY <1>2, <1>3, <2>3 DEF Wanted
  <2> QED BY <2>4, <2>5, <2>6 DEF Same
<1>4. CASE w.kind # "struct"
  <2>1. ASSUME NEW type \in Types
        PROVE  Meant(fs, type, p.name) = Where(fs, Meaning(type, p.name))
    <3>1. \A i \in DOMAIN fs : fs[i] \in Filters
      OBVIOUS
    <3> QED BY <3>1 DEF Where, Meant, Meaning
  <2>2. General(r, p.name) = Where(r.general, OfName(p.name))
    <3>1. \A i \in DOMAIN r.general : r.general[i] \in GeneralFieldFilters
      BY <1>0
    <3> QED BY <3>1 DEF Where, General, OfName
  <2>3. p.owner # NoType => OfStruct(r, p.owner, p.name) = Where(r.fields, OfField(p.owner, p.name))
    <3>1. \A i \in DOMAIN r.fields : r.fields[i] \in StructFieldFilters
      BY <1>0
    <3> QED BY <3>1 DEF Where, OfStruct, OfField
  <2>4. p.owner = NoType => OfStruct(r, p.owner, p.name) = {}
    BY DEF OfStruct
  <2>5. /\ p.owner # NoType => Same(r.fields, OfField(p.owner, p.name), fs,
                                    Meaning(p.owner, p.name))
        /\ Same(r.general, OfName(p.name), fs, Meaning(NoType, p.name))
    BY <1>1 DEF Agrees
  <2>6. ModeAt(r, p) = filterField(r, p.owner, p.name)
    BY <1>4 DEF ModeAt, w
  <2>7. Wanted(fs, Here(p)) =
          IF p.owner # NoType /\ Where(fs, Meaning(p.owner, p.name)) # {}
          THEN FirstMode(fs, Where(fs, Meaning(p.owner, p.name)))
          ELSE FirstMode(fs, Where(fs, Meaning(NoType, p.name)))
    BY <1>1, <1>2, <1>4, <2>1, NamesAssumption DEF Wanted
  <2>8. CASE p.owner = NoType
    BY <2>2, <2>4, <2>5, <2>6, <2>7, <2>8 DEF Same, filterField
  <2>9. CASE p.owner # NoType
    BY <2>2, <2>3, <2>5, <2>6, <2>7, <2>9 DEF Same, filterField
  <2> QED BY <2>8, <2>9
<1> QED BY <1>3, <1>4

-----------------------------------------------------------------------------
\* What is decided on a trail, from what is wanted at its places.

HiddenBelow(v) ==
  UNION {Leaves[v.kids[j].value] : j \in {k \in DOMAIN v.kids : ~v.kids[k].exported}}

LEMMA OnePlace ==
  ASSUME NEW fs, NEW h
  PROVE  /\ Hits(fs, <<h>>) # {} <=> Wanted(fs, h) # "none"
         /\ Decided(fs, <<h>>) = Wanted(fs, h)
         /\ Hidden(<<h>>) = HiddenBelow(h.node)
         /\ Len(<<h>>) = 1 /\ <<h>>[1] = h
<1> DEFINE t == <<h>>
<1>1. DOMAIN t = {1} /\ t[1] = h /\ Len(t) = 1
  OBVIOUS
<1> HIDE DEF t
<1>2. Hits(fs, t) = IF Wanted(fs, h) # "none" THEN {1} ELSE {}
  BY <1>1 DEF Hits
<1>3. Min({1}) = 1
  BY MinFacts
<1>4. Decided(fs, t) = Wanted(fs, h)
  BY <1>1, <1>2, <1>3 DEF Decided
<1>5. Hidden(t) = UNION {HiddenBelow(t[i].node) : i \in DOMAIN t}
  BY DEF Hidden, HiddenBelow
<1>6. {HiddenBelow(t[i].node) : i \in DOMAIN t} = {HiddenBelow(h.node)}
  BY <1>1
<1>7. Hidden(t) = HiddenBelow(h.node)
  BY <1>5, <1>6
<1> QED BY <1>1, <1>2, <1>4, <1>7 DEF t

LEMMA OnePlaceMore ==
  ASSUME NEW fs, NEW h \in Places, NEW u \in Ways
  PROVE  LET t == <<h>> \o u
         IN  /\ t[Len(t)] = u[Len(u)]
             /\ Hits(fs, t) # {} <=> Wanted(fs, h) # "none" \/ Hits(fs, u) # {}
             /\ Decided(fs, t) = IF Wanted(fs, h) # "none" THEN Wanted(fs, h) ELSE Decided(fs, u)
             /\ Hidden(t) \subseteq HiddenBelow(h.node) \cup Hidden(u)
<1> DEFINE t == <<h>> \o u
<1>1. /\ Len(u) \in Nat /\ Len(u) # 0 /\ DOMAIN u = 1..Len(u)
      /\ Len(t) = Len(u) + 1 /\ DOMAIN t = 1..(Len(u) + 1)
      /\ t[1] = h /\ \A i \in 1..Len(u) : t[i + 1] = u[i]
  <2>1. u \in Seq(Places) /\ u # <<>> /\ <<h>> \in Seq(Places) /\ Len(<<h>>) = 1 /\ <<h>>[1] = h
    BY DEF Ways
  <2>2. Len(u) \in Nat /\ Len(u) # 0 /\ DOMAIN u = 1..Len(u)
    BY <2>1
  <2>3. /\ t \in Seq(Places) /\ Len(t) = 1 + Len(u)
        /\ \A i \in 1..(1 + Len(u)) : t[i] = IF i <= 1 THEN <<h>>[i] ELSE u[i - 1]
    BY <2>1, ConcatProperties
  <2>4. DOMAIN t = 1..(Len(u) + 1)
    BY <2>2, <2>3
  <2>5. ASSUME NEW i \in 1..Len(u) PROVE t[i + 1] = u[i]
    BY <2>2, <2>3
  <2>6. t[1] = h
    BY <2>1, <2>2, <2>3
  <2> QED BY <2>2, <2>3, <2>4, <2>5, <2>6
<1> HIDE DEF t
<1>2. t[Len(t)] = u[Len(u)]
  BY <1>1
<1>3. ASSUME NEW i \in DOMAIN t, i # 1
      PROVE  i \in Nat /\ i - 1 \in 1..Len(u) /\ t[i] = u[i - 1]
  <2>1. i \in Nat /\ i - 1 \in 1..Len(u) /\ i = (i - 1) + 1
    BY <1>1, <1>3
  <2> QED BY <1>1, <2>1
<1>4. 1 \in Hits(fs, t) <=> Wanted(fs, h) # "none"
  BY <1>1 DEF Hits
<1>5. ASSUME NEW i \in 1..Len(u) PROVE i + 1 \in Hits(fs, t) <=> i \in Hits(fs, u)
  BY <1>1 DEF Hits
<1>6. ASSUME NEW i \in Hits(fs, t), i # 1 PROVE i - 1 \in Hits(fs, u)
  BY <1>1, <1>3, <1>6 DEF Hits
<1>7. Hits(fs, t) # {} <=> Wanted(fs, h) # "none" \/ Hits(fs, u) # {}
  <2>1. Hits(fs, u) \subseteq 1..Len(u)
    BY <1>1 DEF Hits
  <2> QED BY <1>4, <1>5, <1>6, <2>1
<1>8. Hits(fs, t) \subseteq Nat /\ Hits(fs, u) \subseteq Nat
      /\ Hits(fs, u) \subseteq 1..Len(u) /\ \A i \in Hits(fs, t) : 1 <= i
  BY <1>1 DEF Hits
<1>9. Decided(fs, t) = IF Wanted(fs, h) # "none" THEN Wanted(fs, h) ELSE Decided(fs, u)
  <2>1. CASE Wanted(fs, h) # "none"
    <3>1. Min(Hits(fs, t)) = 1
      BY <2>1, <1>4, <1>8, MinFacts
    <3> QED BY <2>1, <3>1, <1>1, <1>4 DEF Decided
  <2>2. CASE Wanted(fs, h) = "none" /\ Hits(fs, u) = {}
    BY <2>2, <1>7 DEF Decided
  <2>3. CASE Wanted(fs, h) = "none" /\ Hits(fs, u) # {}
    <3> DEFINE m == Min(Hits(fs, u))
    <3>1. m \in Hits(fs, u) /\ \A i \in Hits(fs, u) : m <= i
      BY <2>3, <1>8, MinFacts
    <3>2. m \in 1..Len(u) /\ m + 1 \in Hits(fs, t)
      BY <3>1, <1>5, <1>8
    <3> HIDE DEF m
    <3>3. ASSUME NEW i \in Hits(fs, t) PROVE m + 1 <= i
      <4>1. i # 1 /\ i \in Nat
        BY <2>3, <1>4, <1>8
      <4>2. i - 1 \in Hits(fs, u)
        BY <1>6, <4>1
      <4>3. m <= i - 1
        BY <3>1, <4>2
      <4> QED BY <3>2, <4>1, <4>3
    <3>4. Min(Hits(fs, t)) = m + 1
      BY <1>8, <3>2, <3>3, MinFacts
    <3>5. t[m + 1] = u[m]
      BY <1>1, <3>2
    <3>6. Decided(fs, t) = Wanted(fs, t[m + 1])
      BY <3>2, <3>4 DEF Decided
    <3>7. Decided(fs, u) = Wanted(fs, u[m])
      BY <2>3 DEF Decided, m
    <3> QED BY <2>3, <3>5, <3>6, <3>7
  <2> QED BY <2>1, <2>2, <2>3
<1>10. Hidden(t) \subseteq HiddenBelow(h.node) \cup Hidden(u)
  <2>1. \A i \in DOMAIN t : HiddenBelow(t[i].node) = HiddenBelow(h.node)
                              \/ \E j \in DOMAIN u : HiddenBelow(t[i].node) = HiddenBelow(u[j].node)
    BY <1>1, <1>3
  <2>2. /\ Hidden(t) = UNION {HiddenBelow(t[i].node) : i \in DOMAIN t}
        /\ Hidden(u) = UNION {HiddenBelow(u[i].node) : i \in DOMAIN u}
    BY DEF Hidden, HiddenBelow
  <2> QED BY <2>1, <2>2
<1> QED BY <1>2, <1>7, <1>9, <1>10 DEF t

-----------------------------------------------------------------------------
\* What comes of a place, from what is decided on its trails.

Prepared(r, fs) == r \in Redactors /\ fs \in Seq(Filters) /\ Agrees(r, fs)

LEMMA RankOfPlaces == Rank \in [Places -> Nat]
BY ValuesAssumption DEF Rank, Places

LEMMA WantedModes ==
  ASSUME NEW fs \in Seq(Filters), NEW p
  PROVE  Wanted(fs, p) \in {"none", "full", "partial"}
<1>1. \A K : K \subseteq DOMAIN fs => FirstMode(fs, K) \in {"none", "full", "partial"}
  BY FirstModes
<1>2. \A type, name : Meant(fs, type, name) \subseteq DOMAIN fs
  BY DEF Meant
<1>3. {i \in DOMAIN fs : fs[i].field = NoName /\ fs[i].struct = p.node.type} \subseteq DOMAIN fs
  OBVIOUS
<1> QED BY <1>1, <1>2, <1>3 DEF Wanted

LEMMA HiddenTrails ==
  \A p \in Places : \A t \in Trails[p] : Hidden(t) \subseteq Leaves[p.node]
<1> DEFINE S == {p \in Places : \A t \in Trails[p] : Hidden(t) \subseteq Leaves[p.node]}
<1>1. ASSUME NEW p \in Places, \A q \in Places : Rank[q] < Rank[p] => q \in S
      PROVE  p \in S
  <2> SUFFICES ASSUME NEW t \in Trails[p] PROVE Hidden(t) \subseteq Leaves[p.node]
    OBVIOUS
  <2> DEFINE w == Indirect(p.node)
  <2>1. HiddenBelow(w) \subseteq Leaves[w] /\ Leaves[w] = Leaves[p.node] /\ w \in Nodes
    <3>1. w \in Nodes /\ Leaves[w] = Leaves[p.node]
      BY OnwardFacts
    <3>2. CASE w.kind = "leaf"
      BY <3>1, <3>2, ValuesAssumption DEF HiddenBelow
    <3>3. CASE w.kind # "leaf"
      BY <3>1, <3>3, LeafFacts DEF HiddenBelow
    <3> QED BY <3>1, <3>2, <3>3
  <2>2. HiddenBelow(Here(p).node) \subseteq Leaves[p.node]
    BY <2>1, HereFacts
  <2>3. CASE t = <<Here(p)>>
    BY <2>2, <2>3, OnePlace
  <2>4. CASE Opened(p)
    <3>1. Hidden(t) \subseteq Leaves[Below(p, 1).node]
      BY <2>4, <1>1, OnwardFacts, TrailCases
    <3> QED BY <2>4, <3>1, OnwardFacts
  <2>5. CASE Held(p) /\ t # <<Here(p)>>
    <3>0. PICK i \in Onward(p) : \E u \in Trails[Below(p, i)] : t = <<Here(p)>> \o u
      BY <2>5, TrailCases
    <3>1. PICK u \in Trails[Below(p, i)] : t = <<Here(p)>> \o u
      BY <3>0
    <3>2. Hidden(u) \subseteq Leaves[p.node] /\ u \in Ways
      BY <2>5, <1>1, <3>1, OnwardFacts, TrailCases
    <3>3. Hidden(t) \subseteq HiddenBelow(Here(p).node) \cup Hidden(u)
      BY <3>1, <3>2, HereFacts, OnePlaceMore
    <3> QED BY <2>2, <3>2, <3>3
  <2> QED BY <2>3, <2>4, <2>5, TrailCases, PlaceKinds
<1> HIDE DEF S
<1>2. Places \subseteq S
  BY <1>1, RankOfPlaces, RankInduction
<1> QED BY <1>2 DEF S

EndsIn(t, id) == t[Len(t)].node.kind = "leaf" /\ id = t[Len(t)].node.id

LEMMA TrailEnds ==
  \A p \in Places : \A t \in Trails[p] : \A id :
    EndsIn(t, id) => id \in Leaves[p.node] /\ id \in PartialIds(p.node)
<1> DEFINE S == {p \in Places : \A t \in Trails[p] : \A id :
                   EndsIn(t, id) => id \in Leaves[p.node] /\ id \in PartialIds(p.node)}
<1>1. ASSUME NEW p \in Places, \A q \in Places : Rank[q] < Rank[p] => q \in S
      PROVE  p \in S
  <2> SUFFICES ASSUME NEW t \in Trails[p], NEW id, EndsIn(t, id)
               PROVE  id \in Leaves[p.node] /\ id \in PartialIds(p.node)
    OBVIOUS
  <2> DEFINE w == Indirect(p.node)
  <2>1. /\ PartialRedact[p.node] = PartialRedactBody(PartialRedact, p.node)
        /\ Leaves[w] = Leaves[p.node] /\ w \in Nodes
        /\ Here(p).node = w
    BY PartialDef, OnwardFacts, HereFacts
  <2>2. CASE t = <<Here(p)>>
    <3>1. w.kind = "leaf" /\ id = w.id
      BY <2>1, <2>2, OnePlace DEF EndsIn
    <3>2. p.node.kind # "nil"
      BY TrailCases
    <3>3. PartialRedact[p.node] = {Mask(w)}
      BY <2>1, <3>1, <3>2 DEF PartialRedactBody, Containers
    <3> QED BY <2>1, <3>1, <3>3, LeafFacts DEF PartialIds, Mask
  <2>3. CASE Opened(p)
    <3>1. t \in Trails[Below(p, 1)] /\ Below(p, 1) \in S
      BY <2>3, <1>1, OnwardFacts, TrailCases
    <3>2. id \in Leaves[Below(p, 1).node] /\ id \in PartialIds(Below(p, 1).node)
      BY <3>1
    <3>3. Below(p, 1).node = w.kids[1].value
      BY <2>3, PlaceFacts DEF Opened
    <3>4. PartialRedact[p.node] = PartialRedact[w.kids[1].value]
      BY <2>1, <2>3 DEF PartialRedactBody, Opened, Containers
    <3> QED BY <2>3, <3>2, <3>3, <3>4, OnwardFacts DEF PartialIds
  <2>4. CASE Held(p) /\ t # <<Here(p)>>
    <3>0. PICK i \in Onward(p) : \E u \in Trails[Below(p, i)] : t = <<Here(p)>> \o u
      BY <2>4, TrailCases
    <3>1. PICK u \in Trails[Below(p, i)] : t = <<Here(p)>> \o u
      BY <3>0
    <3>2. Below(p, i) \in S /\ Below(p, i) \in Places /\ Below(p, i).node = w.kids[i].value
      BY <1>1, OnwardFacts
    <3>3. u \in Ways
      BY <3>1, <3>2, TrailCases
    <3>4. EndsIn(u, id)
      BY <3>1, <3>3, HereFacts, OnePlaceMore DEF EndsIn
    <3>5. id \in Leaves[Below(p, i).node] /\ id \in PartialIds(Below(p, i).node)
      BY <3>1, <3>2, <3>4
    <3>6. PartialRedact[p.node] = UNION {PartialRedact[w.kids[j].value] : j \in Exported(w)}
      BY <2>1, <2>4 DEF PartialRedactBody, Held, Containers
    <3>7. i \in Exported(w)
      BY DEF Onward
    <3> QED BY <2>4, <3>2, <3>5, <3>6, <3>7, OnwardFacts DEF PartialIds
  <2> QED BY <2>2, <2>3, <2>4, TrailCases, PlaceKinds
<1> HIDE DEF S
<1>2. Places \subseteq S
  BY <1>1, RankOfPlaces, RankInduction
<1> QED BY <1>2 DEF S

LEMMA KidsApart ==
  ASSUME NEW p \in Places, NEW i \in Onward(p),
         NEW j \in DOMAIN Indirect(p.node).kids, i # j
  PROVE  Leaves[Below(p, i).node] \cap Leaves[Indirect(p.node).kids[j].value] = {}
<1>1. /\ Indirect(p.node) \in Nodes /\ i \in DOMAIN Indirect(p.node).kids
      /\ Below(p, i).node = Indirect(p.node).kids[i].value
  BY OnwardFacts
<1> QED BY <1>1, LeavesAssumption

\* A kid's outcome is among the kids', and the others show nothing of it.
LEMMA KidShown ==
  ASSUME NEW r, NEW p \in Places, NEW i \in Onward(p), NEW id \in Leaves[Below(p, i).node],
         NEW k \in KidsAt(r, p)
  PROVE  /\ redact(r)[Below(p, i)] \in KidsAt(r, p)
         /\ id \in k.shown => k = redact(r)[Below(p, i)]
         /\ id \in MaskedIds(k) => k = redact(r)[Below(p, i)]
<1>1. PICK j \in Onward(p) : k = redact(r)[Below(p, j)]
  BY DEF KidsAt
<1>2. Below(p, j) \in Places /\ j \in DOMAIN Indirect(p.node).kids
      /\ Below(p, j).node = Indirect(p.node).kids[j].value
  BY OnwardFacts
<1>3. k.shown \subseteq Leaves[Below(p, j).node] /\ MaskedIds(k) \subseteq Leaves[Below(p, j).node]
  BY <1>1, <1>2, RedactSound DEF Sound
<1>4. i # j => id \notin Leaves[Below(p, j).node]
  BY <1>2, KidsApart
<1>5. redact(r)[Below(p, i)] \in KidsAt(r, p)
  BY DEF KidsAt
<1> QED BY <1>1, <1>3, <1>4, <1>5

LEMMA HitIfOnTrail ==
  ASSUME NEW r, NEW fs, Prepared(r, fs)
  PROVE  \A p \in Places : redact(r)[p].hit <=> \E t \in Trails[p] : Hits(fs, t) # {}
<1> DEFINE S == {p \in Places : redact(r)[p].hit <=> \E t \in Trails[p] : Hits(fs, t) # {}}
<1>1. ASSUME NEW p \in Places, \A q \in Places : Rank[q] < Rank[p] => q \in S
      PROVE  p \in S
  <2>1. /\ ModeAt(r, p) = Wanted(fs, Here(p))
        /\ Hits(fs, <<Here(p)>>) # {} <=> ModeAt(r, p) # "none"
    BY ModeWanted, OnePlace DEF Prepared
  <2>2. CASE p.node.kind = "nil"
    <3>1. redact(r)[p].hit = FALSE
      <4>1. redact(r)[p] = Kept(p.node)
        BY <2>2, RedactCases
      <4> QED BY <4>1 DEF Kept, Outcome
    <3>2. ~(\E t \in Trails[p] : TRUE)
      BY <2>2, TrailCases
    <3> QED BY <3>1, <3>2
  <2>3. CASE Opened(p)
    <3>1. Below(p, 1) \in S
      BY <2>3, <1>1, OnwardFacts
    <3>2. redact(r)[p] = redact(r)[Below(p, 1)] /\ Trails[p] = Trails[Below(p, 1)]
      BY <2>3, RedactCases, TrailsThere
    <3> QED BY <3>1, <3>2
  <2>4. CASE (Held(p) \/ Bottom(p)) /\ ModeAt(r, p) # "none"
    <3>1. redact(r)[p].hit
      <4>1. redact(r)[p] = Outcome(TRUE, {}, RedactFunc(ModeAt(r, p), Indirect(p.node)))
        BY <2>4, RedactCases
      <4> QED BY <4>1 DEF Outcome
    <3>2. <<Here(p)>> \in Trails[p]
      BY <2>4, TrailsThere
    <3> QED BY <2>1, <2>4, <3>1, <3>2
  <2>5. CASE Bottom(p) /\ ModeAt(r, p) = "none"
    <3>1. redact(r)[p].hit = FALSE
      <4>1. redact(r)[p] = Kept(Indirect(p.node))
        BY <2>5, RedactCases
      <4> QED BY <4>1 DEF Kept, Outcome
    <3>2. \A t \in Trails[p] : t = <<Here(p)>>
      BY <2>5, TrailCases
    <3> QED BY <2>1, <2>5, <3>1, <3>2
  <2>6. CASE Held(p) /\ ModeAt(r, p) = "none"
    <3>1. redact(r)[p].hit <=> \E k \in KidsAt(r, p) : k.hit
      <4>1. CASE \E k \in KidsAt(r, p) : k.hit
        <5>1. redact(r)[p] = Outcome(TRUE, UNION {k.shown : k \in KidsAt(r, p)},
                                           UNION {k.masked : k \in KidsAt(r, p)})
          BY <2>6, <4>1, RedactCases
        <5>2. redact(r)[p].hit
          BY <5>1 DEF Outcome
        <5> QED BY <4>1, <5>2
      <4>2. CASE ~(\E k \in KidsAt(r, p) : k.hit)
        <5>1. redact(r)[p] = Kept(Indirect(p.node))
          BY <2>6, <4>2, RedactCases
        <5>2. redact(r)[p].hit = FALSE
          BY <5>1 DEF Kept, Outcome
        <5> QED BY <4>2, <5>2
      <4> QED BY <4>1, <4>2
    <3>2. (\E k \in KidsAt(r, p) : k.hit) <=> \E i \in Onward(p) : redact(r)[Below(p, i)].hit
      BY DEF KidsAt
    <3>3. \A i \in Onward(p) : redact(r)[Below(p, i)].hit <=>
                                 \E u \in Trails[Below(p, i)] : Hits(fs, u) # {}
      BY <1>1, OnwardFacts
    <3>4. ASSUME NEW t \in Trails[p], Hits(fs, t) # {}
          PROVE  \E i \in Onward(p) : \E u \in Trails[Below(p, i)] : Hits(fs, u) # {}
      <4>1. t # <<Here(p)>>
        BY <2>1, <2>6, <3>4
      <4>2. PICK i \in Onward(p) : \E u \in Trails[Below(p, i)] : t = <<Here(p)>> \o u
        BY <2>6, <4>1, TrailCases
      <4>3. PICK u \in Trails[Below(p, i)] : t = <<Here(p)>> \o u
        BY <4>2
      <4>4. u \in Ways
        BY <4>3, OnwardFacts, TrailCases
      <4>5. Hits(fs, <<Here(p)>> \o u) # {} <=> Wanted(fs, Here(p)) # "none" \/ Hits(fs, u) # {}
        BY <4>4, HereFacts, OnePlaceMore
      <4>6. Hits(fs, u) # {}
        BY <2>1, <2>6, <3>4, <4>3, <4>5
      <4> QED BY <4>6
    <3>5. ASSUME NEW i \in Onward(p), NEW u \in Trails[Below(p, i)], Hits(fs, u) # {}
          PROVE  \E t \in Trails[p] : Hits(fs, t) # {}
      <4>1. <<Here(p)>> \o u \in Trails[p]
        BY <2>6, TrailsThere
      <4>2. u \in Ways
        BY OnwardFacts, TrailCases
      <4>3. Hits(fs, <<Here(p)>> \o u) # {}
        BY <3>5, <4>2, HereFacts, OnePlaceMore
      <4> QED BY <4>1, <4>3
    <3> QED BY <3>1, <3>2, <3>3, <3>4, <3>5
  <2> QED BY <2>2, <2>3, <2>4, <2>5, <2>6, PlaceKinds
<1> HIDE DEF S
<1>2. Places \subseteq S
  BY <1>1, RankOfPlaces, RankInduction
<1> QED BY <1>2 DEF S

LEMMA HiddenIfHit ==
  ASSUME NEW r, NEW fs, Prepared(r, fs)
  PROVE  \A p \in Places : \A t \in Trails[p] :
           Hits(fs, t) # {} => Hidden(t) \cap redact(r)[p].shown = {}
<1> DEFINE S == {p \in Places : \A t \in Trails[p] :
                   Hits(fs, t) # {} => Hidden(t) \cap redact(r)[p].shown = {}}
<1>1. ASSUME NEW p \in Places, \A q \in Places : Rank[q] < Rank[p] => q \in S
      PROVE  p \in S
  <2> SUFFICES ASSUME NEW t \in Trails[p], Hits(fs, t) # {}
               PROVE  Hidden(t) \cap redact(r)[p].shown = {}
    OBVIOUS
  <2>1. /\ ModeAt(r, p) = Wanted(fs, Here(p))
        /\ Hits(fs, <<Here(p)>>) # {} <=> ModeAt(r, p) # "none"
    BY ModeWanted, OnePlace DEF Prepared
  <2>2. CASE Opened(p)
    <3>1. Below(p, 1) \in S
      BY <2>2, <1>1, OnwardFacts
    <3>2. redact(r)[p] = redact(r)[Below(p, 1)] /\ Trails[p] = Trails[Below(p, 1)]
      BY <2>2, RedactCases, TrailsThere
    <3> QED BY <3>1, <3>2
  <2>3. CASE (Held(p) \/ Bottom(p)) /\ ModeAt(r, p) # "none"
    <3>1. redact(r)[p] = Outcome(TRUE, {}, RedactFunc(ModeAt(r, p), Indirect(p.node)))
      BY <2>3, RedactCases
    <3> QED BY <3>1 DEF Outcome
  <2>4. CASE Held(p) /\ ModeAt(r, p) = "none"
    <3>1. t # <<Here(p)>>
      BY <2>1, <2>4
    <3>2. PICK i \in Onward(p) : \E u \in Trails[Below(p, i)] : t = <<Here(p)>> \o u
      BY <2>4, <3>1, TrailCases
    <3>3. PICK u \in Trails[Below(p, i)] : t = <<Here(p)>> \o u
      BY <3>2
    <3>4. /\ Below(p, i) \in Places /\ Below(p, i) \in S /\ u \in Ways
          /\ Here(p) \in Places /\ Here(p).node = Indirect(p.node)
      BY <1>1, <3>3, OnwardFacts, TrailCases, HereFacts
    <3>5. Hits(fs, u) # {} /\ Hidden(t) \subseteq HiddenBelow(Indirect(p.node)) \cup Hidden(u)
      <4>1. /\ Hits(fs, t) # {} <=> Wanted(fs, Here(p)) # "none" \/ Hits(fs, u) # {}
            /\ Hidden(t) \subseteq HiddenBelow(Here(p).node) \cup Hidden(u)
        BY <3>3, <3>4, OnePlaceMore
      <4> QED BY <2>1, <2>4, <3>4, <4>1
    <3>6. redact(r)[Below(p, i)].hit /\ redact(r)[Below(p, i)] \in KidsAt(r, p)
      BY <3>3, <3>4, <3>5, HitIfOnTrail DEF KidsAt
    <3>7. redact(r)[p].shown = UNION {k.shown : k \in KidsAt(r, p)}
      <4>1. redact(r)[p] = Outcome(TRUE, UNION {k.shown : k \in KidsAt(r, p)},
                                         UNION {k.masked : k \in KidsAt(r, p)})
        BY <2>4, <3>6, RedactCases
      <4> QED BY <4>1 DEF Outcome
    <3>8. ASSUME NEW id \in Hidden(u) PROVE id \notin redact(r)[p].shown
      <4>1. id \in Leaves[Below(p, i).node]
        BY <3>3, <3>4, HiddenTrails
      <4>2. id \notin redact(r)[Below(p, i)].shown
        BY <3>3, <3>4, <3>5
      <4>3. \A k \in KidsAt(r, p) : id \in k.shown => k = redact(r)[Below(p, i)]
        BY <4>1, KidShown
      <4> QED BY <3>7, <4>2, <4>3
    <3>9. ASSUME NEW id \in HiddenBelow(Indirect(p.node)), NEW k \in KidsAt(r, p)
          PROVE  id \notin k.shown
      <4>1. PICK j \in DOMAIN Indirect(p.node).kids :
              /\ ~Indirect(p.node).kids[j].exported
              /\ id \in Leaves[Indirect(p.node).kids[j].value]
        BY DEF HiddenBelow
      <4>2. PICK l \in Onward(p) : k = redact(r)[Below(p, l)]
        BY DEF KidsAt
      <4>3. l # j
        BY <4>1, <4>2 DEF Onward, Exported
      <4>4. k.shown \subseteq Leaves[Below(p, l).node]
        BY <4>2, OnwardFacts, RedactSound DEF Sound
      <4> QED BY <4>1, <4>3, <4>4, KidsApart
    <3> QED BY <3>5, <3>7, <3>8, <3>9
  <2>5. CASE Bottom(p) /\ ModeAt(r, p) = "none"
    BY <2>1, <2>5, TrailCases
  <2> QED BY <2>2, <2>3, <2>4, <2>5, TrailCases, PlaceKinds
<1> HIDE DEF S
<1>2. Places \subseteq S
  BY <1>1, RankOfPlaces, RankInduction
<1> QED BY <1>2 DEF S

Decides(r, fs, p, t, id) ==
  /\ id \in redact(r)[p].shown <=> Decided(fs, t) = "none"
  /\ id \in MaskedIds(redact(r)[p]) <=> Decided(fs, t) = "partial"

LEMMA DecidedOnTrail ==
  ASSUME NEW r, NEW fs, Prepared(r, fs)
  PROVE  \A p \in Places : \A t \in Trails[p] : \A id :
           EndsIn(t, id) => Decides(r, fs, p, t, id)
<1> DEFINE S == {p \in Places : \A t \in Trails[p] : \A id :
                   EndsIn(t, id) => Decides(r, fs, p, t, id)}
<1>1. ASSUME NEW p \in Places, \A q \in Places : Rank[q] < Rank[p] => q \in S
      PROVE  p \in S
  <2> SUFFICES ASSUME NEW t \in Trails[p], NEW id, EndsIn(t, id)
               PROVE  Decides(r, fs, p, t, id)
    OBVIOUS
  <2> DEFINE w == Indirect(p.node)
  <2>1. /\ ModeAt(r, p) = Wanted(fs, Here(p)) /\ Decided(fs, <<Here(p)>>) = ModeAt(r, p)
        /\ ModeAt(r, p) \in {"none", "full", "partial"}
    BY ModeWanted, WantedModes, OnePlace DEF Prepared
  <2>2. p \in Places /\ w \in Nodes /\ Leaves[w] = Leaves[p.node] /\ Here(p) \in Places
        /\ Here(p).node = w /\ id \in Leaves[p.node] /\ id \in PartialIds(p.node)
    BY OnwardFacts, HereFacts, TrailEnds
  <2> HIDE DEF w
  <2>3. ASSUME w.kind # "ptr" PROVE PartialIds(w) = PartialIds(p.node)
    <3>1. CASE p.node.kind # "ptr"
      BY <3>1 DEF Indirect, w
    <3>2. CASE p.node.kind = "ptr"
      <4>1. Indirect(w) = w /\ Indirect(p.node) = w /\ p.node \in Nodes
        BY <2>3, OnwardFacts DEF Indirect, w
      <4>2. PartialRedact[w] = PartialRedactBody(PartialRedact, w)
            /\ PartialRedact[p.node] = PartialRedactBody(PartialRedact, p.node)
        BY <2>2, <4>1, PartialDef
      <4>3. w.kind = "nil" => PartialRedact[w] = {} /\ PartialRedact[p.node] = {}
        BY <3>2, <4>1, <4>2 DEF PartialRedactBody, Containers
      <4>4. w.kind # "nil" => PartialRedactBody(PartialRedact, w)
                                = PartialRedactBody(PartialRedact, p.node)
        BY <3>2, <4>1 DEF PartialRedactBody
      <4> QED BY <4>2, <4>3, <4>4 DEF PartialIds
    <3> QED BY <3>1, <3>2
  <2>4. CASE Opened(p)
    <3>1. Below(p, 1) \in S
      BY <2>4, <1>1, OnwardFacts
    <3>2. redact(r)[p] = redact(r)[Below(p, 1)] /\ Trails[p] = Trails[Below(p, 1)]
      BY <2>4, RedactCases, TrailsThere
    <3> QED BY <3>1, <3>2 DEF Decides
  <2>5. CASE (Held(p) \/ Bottom(p)) /\ ModeAt(r, p) # "none"
    <3>1. redact(r)[p] = Outcome(TRUE, {}, RedactFunc(ModeAt(r, p), w))
      BY <2>5, RedactCases DEF w
    <3>2. redact(r)[p].shown = {}
      BY <3>1 DEF Outcome
    <3>3. MaskedIds(redact(r)[p]) = IF ModeAt(r, p) = "full" THEN {} ELSE PartialIds(w)
      BY <3>1 DEF Outcome, MaskedIds, RedactFunc, PartialIds
    <3>4. Decided(fs, t) = ModeAt(r, p)
      <4>1. CASE t = <<Here(p)>>
        BY <2>1, <4>1
      <4>2. CASE t # <<Here(p)>>
        <5>1. PICK i \in Onward(p) : \E u \in Trails[Below(p, i)] : t = <<Here(p)>> \o u
          BY <2>5, <4>2, TrailCases
        <5>2. PICK u \in Trails[Below(p, i)] : t = <<Here(p)>> \o u
          BY <5>1
        <5>3. u \in Ways
          BY <5>2, OnwardFacts, TrailCases
        <5> QED BY <2>1, <2>2, <2>5, <5>2, <5>3, OnePlaceMore
      <4> QED BY <4>1, <4>2
    <3>5. w.kind # "ptr"
      <4>1. CASE Held(p)
        BY <4>1 DEF Held, Containers, w
      <4>2. CASE Bottom(p)
        <5>1. t = <<Here(p)>>
          BY <4>2, TrailCases
        <5> QED BY <2>2, <5>1, OnePlace DEF EndsIn
      <4> QED BY <2>5, <4>1, <4>2
    <3> QED BY <2>1, <2>2, <2>3, <2>5, <3>2, <3>3, <3>4, <3>5 DEF Decides
  <2>6. CASE Bottom(p) /\ ModeAt(r, p) = "none"
    <3>1. redact(r)[p] = Kept(w) /\ t = <<Here(p)>>
      BY <2>6, RedactCases, TrailCases DEF w
    <3>2. redact(r)[p].shown = Leaves[w] /\ MaskedIds(redact(r)[p]) = {}
      BY <3>1 DEF Kept, Outcome, MaskedIds
    <3> QED BY <2>1, <2>2, <2>6, <3>1, <3>2 DEF Decides
  <2>7. CASE Held(p) /\ ModeAt(r, p) = "none"
    <3>1. t # <<Here(p)>>
      BY <2>2, <2>7, OnePlace DEF EndsIn, Held, Containers, w
    <3>2. PICK i \in Onward(p) : \E u \in Trails[Below(p, i)] : t = <<Here(p)>> \o u
      BY <2>7, <3>1, TrailCases
    <3>3. PICK u \in Trails[Below(p, i)] : t = <<Here(p)>> \o u
      BY <3>2
    <3> DEFINE kid == redact(r)[Below(p, i)]
    <3>4. Below(p, i) \in Places /\ Below(p, i) \in S /\ u \in Ways /\ kid \in KidsAt(r, p)
      BY <1>1, <3>3, OnwardFacts, TrailCases DEF KidsAt
    <3>5. EndsIn(u, id) /\ Decided(fs, t) = Decided(fs, u)
      BY <2>1, <2>2, <2>7, <3>3, <3>4, OnePlaceMore DEF EndsIn
    <3>6. Decides(r, fs, Below(p, i), u, id)
      BY <3>3, <3>4, <3>5
    <3>7. id \in Leaves[Below(p, i).node]
      BY <3>3, <3>4, <3>5, TrailEnds
    <3>8. CASE \E k \in KidsAt(r, p) : k.hit
      <4>1. redact(r)[p] = Outcome(TRUE, UNION {k.shown : k \in KidsAt(r, p)},
                                         UNION {k.masked : k \in KidsAt(r, p)})
        BY <2>7, <3>8, RedactCases
      <4>2. \A k \in KidsAt(r, p) : /\ id \in k.shown => k = kid
                                    /\ id \in MaskedIds(k) => k = kid
        BY <3>7, KidShown
      <4>3. id \in redact(r)[p].shown <=> id \in kid.shown
        BY <3>4, <4>1, <4>2 DEF Outcome
      <4>4. id \in MaskedIds(redact(r)[p]) <=> \E k \in KidsAt(r, p) : id \in MaskedIds(k)
        BY <4>1 DEF Outcome, MaskedIds
      <4>5. id \in MaskedIds(redact(r)[p]) <=> id \in MaskedIds(kid)
        BY <3>4, <4>2, <4>4
      <4> QED BY <3>5, <3>6, <4>3, <4>5 DEF Decides
    <3>9. CASE ~(\E k \in KidsAt(r, p) : k.hit)
      <4>1. redact(r)[p] = Kept(w)
        BY <2>7, <3>9, RedactCases DEF w
      <4>2. redact(r)[p].shown = Leaves[w] /\ MaskedIds(redact(r)[p]) = {}
        BY <4>1 DEF Kept, Outcome, MaskedIds
      <4>3. kid.shown = Leaves[Below(p, i).node]
        BY <3>4, <3>9, RedactSound DEF Sound
      <4>4. Decided(fs, u) = "none"
        BY <3>6, <3>7, <4>3 DEF Decides
      <4> QED BY <2>2, <3>5, <4>2, <4>4 DEF Decides
    <3> QED BY <3>8, <3>9
  <2> QED BY <2>4, <2>5, <2>6, <2>7, TrailCases, PlaceKinds
<1> HIDE DEF S
<1>2. Places \subseteq S
  BY <1>1, RankOfPlaces, RankInduction
<1> QED BY <1>2 DEF S

-----------------------------------------------------------------------------
\* One more filter.

LEMMA WantedStill ==
  ASSUME NEW fs \in Seq(Filters), NEW f \in Filters, NEW p, Wanted(fs, p) # "none"
  PROVE  Wanted(Append(fs, f), p) # "none"
<1> DEFINE gs == Append(fs, f)
           OfIts(s) == {i \in DOMAIN s : /\ s[i].field = NoName
                                         /\ s[i].struct = p.node.type}
<1>1. /\ gs \in Seq(Filters) /\ DOMAIN fs \subseteq DOMAIN gs
      /\ \A i \in DOMAIN fs : gs[i] = fs[i]
  <2>1. /\ gs \in Seq(Filters) /\ Len(gs) = Len(fs) + 1
        /\ \A i \in 1..Len(fs) : gs[i] = fs[i]
    BY AppendProperties
  <2> QED BY <2>1
<1> HIDE DEF gs
<1>2. OfIts(fs) \subseteq OfIts(gs)
  BY <1>1
<1>3. \A type, name : Meant(fs, type, name) \subseteq Meant(gs, type, name)
  BY <1>1 DEF Meant
<1>4. /\ OfIts(fs) \subseteq DOMAIN fs /\ OfIts(gs) \subseteq DOMAIN gs
      /\ \A type, name : /\ Meant(fs, type, name) \subseteq DOMAIN fs
                         /\ Meant(gs, type, name) \subseteq DOMAIN gs
  BY DEF Meant
<1>5. /\ \A K : K \subseteq DOMAIN fs => (FirstMode(fs, K) = "none" <=> K = {})
      /\ \A K : K \subseteq DOMAIN gs => (FirstMode(gs, K) = "none" <=> K = {})
  BY <1>1, FirstModes
<1>6. CASE p.node.kind = "struct"
  <2>1. Wanted(fs, p) = FirstMode(fs, OfIts(fs)) /\ Wanted(gs, p) = FirstMode(gs, OfIts(gs))
    BY <1>6 DEF Wanted
  <2> HIDE DEF OfIts
  <2> QED BY <1>2, <1>4, <1>5, <2>1 DEF gs
<1>7. CASE p.node.kind # "struct"
  <2>1. \A s : Wanted(s, p) = IF p.owner # NoType /\ Meant(s, p.owner, p.name) # {}
                              THEN FirstMode(s, Meant(s, p.owner, p.name))
                              ELSE FirstMode(s, Meant(s, NoType, p.name))
    BY <1>7 DEF Wanted
  <2>2. \/ p.owner # NoType /\ Meant(fs, p.owner, p.name) # {}
        \/ Meant(fs, NoType, p.name) # {}
    BY <1>4, <1>5, <2>1
  <2>3. \/ p.owner # NoType /\ Meant(gs, p.owner, p.name) # {}
        \/ Meant(gs, NoType, p.name) # {}
    BY <1>3, <2>2
  <2>4. Wanted(gs, p) # "none"
    BY <1>4, <1>5, <2>1, <2>3
  <2> QED BY <2>4 DEF gs
<1> QED BY <1>6, <1>7

LEMMA AddedHides ==
  ASSUME NEW r, NEW fs, Prepared(r, fs), NEW f \in Filters
  PROVE  \A p \in Places :
           /\ redact(Added(r, f))[p].shown \subseteq redact(r)[p].shown
           /\ redact(r)[p].hit => redact(Added(r, f))[p].hit
<1> DEFINE q == Added(r, f)
           S == {p \in Places : /\ redact(q)[p].shown \subseteq redact(r)[p].shown
                                /\ redact(r)[p].hit => redact(q)[p].hit}
<1>1. Prepared(q, Append(fs, f))
  BY AddedLists, AgreesStep, AppendProperties DEF Prepared
<1>2. ASSUME NEW p \in Places, ModeAt(r, p) # "none" PROVE ModeAt(q, p) # "none"
  <2>1. ModeAt(r, p) = Wanted(fs, Here(p))
    BY ModeWanted DEF Prepared
  <2> HIDE DEF q
  <2>2. ModeAt(q, p) = Wanted(Append(fs, f), Here(p))
    BY <1>1, ModeWanted DEF Prepared
  <2> QED BY <1>2, <2>1, <2>2, WantedStill DEF Prepared
<1> HIDE DEF q
<1>3. ASSUME NEW p \in Places, \A o \in Places : Rank[o] < Rank[p] => o \in S
      PROVE  p \in S
  <2> DEFINE w == Indirect(p.node)
             Hit(s) == \E k \in KidsAt(s, p) : k.hit
  <2>1. CASE p.node.kind = "nil"
    <3>1. redact(q)[p] = redact(r)[p]
      BY <2>1, RedactCases
    <3> QED BY <3>1
  <2>2. CASE Opened(p)
    <3>1. Below(p, 1) \in S
      BY <2>2, <1>3, OnwardFacts
    <3>2. redact(r)[p] = redact(r)[Below(p, 1)] /\ redact(q)[p] = redact(q)[Below(p, 1)]
      BY <2>2, RedactCases
    <3> QED BY <3>1, <3>2
  <2>3. CASE (Held(p) \/ Bottom(p)) /\ ModeAt(q, p) # "none"
    <3>1. redact(q)[p] = Outcome(TRUE, {}, RedactFunc(ModeAt(q, p), w))
      BY <2>3, RedactCases
    <3>2. redact(q)[p].hit /\ redact(q)[p].shown = {}
      BY <3>1 DEF Outcome
    <3> QED BY <3>2
  <2>4. CASE Bottom(p) /\ ModeAt(q, p) = "none"
    <3>1. redact(q)[p] = Kept(w)
      BY <2>4, RedactCases
    <3>2. ModeAt(r, p) = "none"
      BY <2>4, <1>2
    <3>3. redact(r)[p] = Kept(w)
      BY <2>4, <3>2, RedactCases
    <3> QED BY <3>1, <3>3
  <2>5. CASE Held(p) /\ ModeAt(q, p) = "none"
    <3>0. ModeAt(r, p) = "none"
      BY <2>5, <1>2
    <3>1. \A i \in Onward(p) : Below(p, i) \in S
      BY <1>3, OnwardFacts
    <3>2. Hit(r) => Hit(q)
      BY <3>1 DEF KidsAt
    <3> HIDE DEF S
    <3>3. CASE ~Hit(q)
      <4>1. redact(q)[p] = Kept(w)
        BY <2>5, <3>3, RedactCases
      <4>2. redact(r)[p] = Kept(w)
        BY <2>5, <3>0, <3>2, <3>3, RedactCases
      <4> QED BY <4>1, <4>2 DEF S
    <3>4. CASE Hit(q)
      <4>1. redact(q)[p] = Outcome(TRUE, UNION {k.shown : k \in KidsAt(q, p)},
                                         UNION {k.masked : k \in KidsAt(q, p)})
        BY <2>5, <3>4, RedactCases
      <4>2. redact(q)[p].hit /\ redact(q)[p].shown = UNION {k.shown : k \in KidsAt(q, p)}
        BY <4>1 DEF Outcome
      <4>3. redact(q)[p].shown \subseteq redact(r)[p].shown
        <5>1. CASE Hit(r)
          <6>1. redact(r)[p] = Outcome(TRUE, UNION {k.shown : k \in KidsAt(r, p)},
                                             UNION {k.masked : k \in KidsAt(r, p)})
            BY <3>0, <2>5, <5>1, RedactCases
          <6>2. redact(r)[p].shown = UNION {k.shown : k \in KidsAt(r, p)}
            BY <6>1 DEF Outcome
          <6>3. ASSUME NEW k \in KidsAt(q, p)
                PROVE  k.shown \subseteq UNION {l.shown : l \in KidsAt(r, p)}
            <7>1. PICK i \in Onward(p) : k = redact(q)[Below(p, i)]
              BY DEF KidsAt
            <7>2. k.shown \subseteq redact(r)[Below(p, i)].shown
              BY <3>1, <7>1 DEF S
            <7>3. redact(r)[Below(p, i)] \in KidsAt(r, p)
              BY DEF KidsAt
            <7> QED BY <7>2, <7>3
          <6> QED BY <4>2, <6>2, <6>3
        <5>2. CASE ~Hit(r)
          <6>1. redact(r)[p] = Kept(w)
            BY <3>0, <2>5, <5>2, RedactCases
          <6>2. redact(r)[p].shown = Leaves[p.node]
            BY <6>1, OnwardFacts DEF Kept, Outcome
          <6> QED BY <6>2, RedactSound DEF Sound
        <5> QED BY <5>1, <5>2
      <4> QED BY <4>2, <4>3 DEF S
    <3> QED BY <3>3, <3>4
  <2> QED BY <2>1, <2>2, <2>3, <2>4, <2>5, PlaceKinds
<1> HIDE DEF S
<1>4. Places \subseteq S
  BY <1>3, RankOfPlaces, RankInduction
<1> QED BY <1>4 DEF S, q

-----------------------------------------------------------------------------
\* A redactor in use.  Inductive: what was given is found in the lists, and the
\* output is what the walk with these lists makes of its value.

Inv ==
  /\ Prepared(filters, given)
  /\ output.of \in Values \cup {NilPointer}
  /\ output.out = Redacted(filters, output.of)

LEMMA Roots ==
  ASSUME NEW v \in Values \cup {NilPointer}
  PROVE  Root(v) \in Places /\ Root(v).node = v /\ v \in Nodes
<1>1. v \in Nodes /\ NoType \in Types /\ NoName \in Names
  <2>1. v \in Nodes
    BY ValuesAssumption
  <2>2. NoName \in Names
    BY DEF Names
  <2> QED BY <2>1, <2>2, NamesAssumption
<1> QED BY <1>1, TypesOfData DEF Root, Place, Places

LEMMA NoOutputFits ==
  ASSUME NEW r
  PROVE  NoOutput.of = NilPointer /\ NoOutput.out = Redacted(r, NoOutput.of)
<1>1. Root(NilPointer) \in Places /\ Root(NilPointer).node = NilPointer /\ NilPointer \in Nodes
  BY Roots
<1>2. NilPointer.kind = "nil" /\ NilPointer.kids = <<>>
  BY DEF NilPointer, Node
<1>3. Leaves[NilPointer] = {}
  <2>1. KidsOf(NilPointer) = {}
    BY <1>2 DEF KidsOf
  <2>2. Leaves[NilPointer] = LeavesBody(Leaves, NilPointer)
    BY <1>1, LeavesDef
  <2> QED BY <1>2, <2>1, <2>2 DEF LeavesBody
<1>4. redact(r)[Root(NilPointer)] = Kept(NilPointer)
  BY <1>1, <1>2, RedactCases
<1>5. NoOutput.of = NilPointer /\ NoOutput.out = Outcome(FALSE, {}, {})
  BY DEF NoOutput
<1> QED BY <1>3, <1>4, <1>5 DEF Redacted, Kept

LEMMA InitInv == Init => Inv
<1> SUFFICES ASSUME Init PROVE Inv
  OBVIOUS
<1>1. Prepared(filters, given)
  BY EmptyAgrees, DefaultsAgree DEF Init, Prepared
<1>2. output = NoOutput
  BY DEF Init
<1> QED BY <1>1, <1>2, NoOutputFits DEF Inv

LEMMA NextInv == Inv /\ [Next]_vars => Inv'
<1> SUFFICES ASSUME Inv, [Next]_vars PROVE Inv'
  OBVIOUS
<1>1. ASSUME NEW f \in Candidates, AddFilters(f) PROVE Inv'
  <2>1. f \in Filters
    BY CandidatesAssumption
  <2>2. Prepared(filters', given')
    BY <1>1, <2>1, AddedLists, AgreesStep, AppendProperties DEF Inv, Prepared, AddFilters
  <2>3. output' = NoOutput
    BY <1>1 DEF AddFilters
  <2> QED BY <2>2, <2>3, NoOutputFits DEF Inv
<1>2. ASSUME NEW v \in Values, Redact(v) PROVE Inv'
  BY <1>2 DEF Inv, Redact
<1>3. CASE UNCHANGED vars
  BY <1>3 DEF Inv, vars
<1> QED BY <1>1, <1>2, <1>3 DEF Next

LEMMA Invariance == Spec => []Inv
  BY InitInv, NextInv, PTL DEF Spec

\* Every filter that AddFilters (redactor.go:151-167) is given is in the list
\* that it is looked up in, and what is shown of a value was in it.
THEOREM TypeCorrect == Spec => []TypeOK
<1>1. Inv => TypeOK
  <2> SUFFICES ASSUME Inv PROVE TypeOK
    OBVIOUS
  <2>1. /\ filters \in Redactors /\ given \in Seq(Filters)
        /\ output.of \in Values \cup {NilPointer}
        /\ output.out = redact(filters)[Root(output.of)]
    BY DEF Inv, Prepared, Redacted
  <2>2. Root(output.of) \in Places /\ Root(output.of).node = output.of
    BY <2>1, Roots
  <2>3. output.out.shown \subseteq Leaves[output.of]
    BY <2>1, <2>2, RedactSound DEF Sound
  <2>4. output.out.hit \in BOOLEAN
    BY <2>1, <2>2, RedactDef DEF Outcomes
  <2> QED BY <2>1, <2>3, <2>4 DEF TypeOK, Redactors, StructFilters, StructFieldFilters,
                                   GeneralFieldFilters
<1> QED BY <1>1, Invariance, PTL

\* Whatever filters were added in whatever order, the walk (redactor.go:205-287)
\* does with a leaf what the filter says that is met first on the way down to
\* it, and of those that fit one place the most specific and the earliest.
THEOREM FirstFilterDecidesCorrect == Spec => []FirstFilterDecides
<1>1. Inv => FirstFilterDecides
  <2> SUFFICES ASSUME Inv, NEW t \in Trails[Root(output.of)], t[Len(t)].node.kind = "leaf"
               PROVE  LET id == t[Len(t)].node.id
                      IN  /\ id \in output.out.shown <=> Decided(given, t) = "none"
                          /\ id \in MaskedIds(output.out) <=> Decided(given, t) = "partial"
    BY DEF FirstFilterDecides
  <2>1. /\ Prepared(filters, given) /\ Root(output.of) \in Places
        /\ output.out = redact(filters)[Root(output.of)]
    BY Roots DEF Inv, Redacted
  <2>2. Decides(filters, given, Root(output.of), t, t[Len(t)].node.id)
    BY <2>1, DecidedOnTrail DEF EndsIn
  <2> QED BY <2>1, <2>2 DEF Decides
<1> QED BY <1>1, Invariance, PTL

\* A value is taken apart exactly if a filter fits somewhere in it, and no
\* unexported field around that place gets into the copy (redactor.go:229-245).
THEOREM RebuiltIfHitCorrect == Spec => []RebuiltIfHit
<1>1. Inv => RebuiltIfHit
  <2> SUFFICES ASSUME Inv PROVE RebuiltIfHit
    OBVIOUS
  <2>1. /\ Prepared(filters, given) /\ Root(output.of) \in Places
        /\ Root(output.of).node = output.of
        /\ output.out = redact(filters)[Root(output.of)]
    BY Roots DEF Inv, Redacted
  <2> DEFINE hit == {t \in Trails[Root(output.of)] : Hits(given, t) # {}}
  <2>2. output.out.hit <=> hit # {}
    <3>1. output.out.hit <=> \E t \in Trails[Root(output.of)] : Hits(given, t) # {}
      BY <2>1, HitIfOnTrail
    <3> QED BY <3>1
  <2>3. ~output.out.hit => output.out.shown = Leaves[output.of]
    BY <2>1, RedactSound DEF Sound
  <2>4. \A t \in hit : Hidden(t) \cap output.out.shown = {}
    BY <2>1, HiddenIfHit
  <2> QED BY <2>2, <2>3, <2>4 DEF RebuiltIfHit
<1> QED BY <1>1, Invariance, PTL

\* A leaf of any length shows at most three tenths of itself under a mask, and
\* something of every leaf that is not empty is masked (redactor.go:120-127).
THEOREM MasksHideMostCorrect == Spec => []MasksHideMost
<1>1. ASSUME NEW m \in Masks
      PROVE  /\ 10 * m.as.shown <= 3 * m.runes
             /\ m.as.shown + m.as.stars <= m.runes
             /\ m.runes > 0 => m.as.stars > 0
  <2>1. PICK v \in Nodes : m = Mask(v)
    BY DEF Masks
  <2> DEFINE n == v.runes
             s == (n * 3) \div 10
  <2>2. n \in Nat
    BY ValuesAssumption
  <2>3. m.runes = n /\ m.as.shown = s /\ m.as.stars = SmallerOf(5, n - s)
    BY <2>1 DEF Mask, partialRedactString
  <2> HIDE DEF n
  <2>4. s \in Nat /\ 10 * s <= 3 * n /\ s <= n /\ (n > 0 => s < n)
    BY <2>2
  <2> HIDE DEF s
  <2> QED BY <2>2, <2>3, <2>4 DEF SmallerOf
<1>2. Inv => MasksHideMost
  <2> SUFFICES ASSUME Inv, NEW m \in output.out.masked PROVE m \in Masks
    BY <1>1 DEF MasksHideMost
  <2>1. Root(output.of) \in Places /\ output.out = redact(filters)[Root(output.of)]
    BY Roots DEF Inv, Redacted
  <2> QED BY <2>1, RedactDef DEF Outcomes
<1> QED BY <1>2, Invariance, PTL

\* Whatever AddFilters (redactor.go:151-167) is given next, no value shows a
\* leaf that it did not show before.
THEOREM FiltersOnlyHideCorrect == Spec => FiltersOnlyHide
<1> DEFINE Hides == \A v \in Values : Redacted(filters', v).shown
                                        \subseteq Redacted(filters, v).shown
<1>1. Inv /\ [Next]_vars => [Hides]_filters
  <2> SUFFICES ASSUME Inv, [Next]_vars, filters' # filters PROVE Hides
    OBVIOUS
  <2>1. PICK f \in Candidates : AddFilters(f)
    BY DEF Next, Redact, vars
  <2>2. f \in Filters /\ filters' = Added(filters, f) /\ Prepared(filters, given)
    BY <2>1, CandidatesAssumption DEF AddFilters, Inv
  <2>3. ASSUME NEW v \in Values
        PROVE  Redacted(filters', v).shown \subseteq Redacted(filters, v).shown
    <3>1. Root(v) \in Places
      BY Roots
    <3> QED BY <2>2, <3>1, AddedHides DEF Redacted
  <2> QED BY <2>3
<1>2. Spec => [][Hides]_filters
  BY <1>1, Invariance, PTL DEF Spec
<1> QED BY <1>2 DEF FiltersOnlyHide
=============================================================================
