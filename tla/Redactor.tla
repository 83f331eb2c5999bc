------------------------------ MODULE Redactor ------------------------------
(***************************************************************************)
(* The redactor of common/redactor.go, which hides what must not reach a   *)
(* log: a walk over any Go value that replaces what a filter matches.      *)
(*                                                                         *)
(* A value is a tree.  A node has a kind, a Go type (of structs and maps)  *)
(* and kids; a leaf (a string, a number, ...) has an identity, by which it *)
(* is found again in the output, and the number of its runes.  Pointers    *)
(* and interfaces are nodes with one kid.  A name is what its letters say  *)
(* and the style it is spelled in.                                         *)
(*                                                                         *)
(* Of what a value becomes, the model keeps what can be read in it: which  *)
(* leaves are shown, which are masked and how, and whether the value had   *)
(* to be rebuilt for that.                                                 *)
(***************************************************************************)
EXTENDS Integers, FiniteSetsExt, SequencesExt

CONSTANTS
  Words,        \* what names say
  OneWord,      \* those that are spelled alike in every style
  Types,        \* the Go types of structs and maps
  Nodes,        \* the nodes of all values
  Depth,        \* how far down a node goes
  Values,       \* the values the application redacts
  Candidates,   \* the filters it may add
  MaxAdded      \* a bound on the filters added to those of Init

VARIABLES
  given,    \* the filters handed to AddFilters, in order (history)
  filters,  \* the three lists of the Redactor
  output    \* the latest value redacted with these, and what came of it

vars == <<given, filters, output>>

-----------------------------------------------------------------------------
\* Names, filters and values

Spelled(word, style) == [word |-> word, style |-> style]
NoName == Spelled("", "camel")
NoType == ""
Rtype == "reflect.rtype"   \* what Go keeps a reflect.Type in
Names == {Spelled(word, style) : word \in Words, style \in {"camel", "snake", "kebab"}}
           \cup {NoName}

ASSUME NamesAssumption ==
  "" \in OneWord /\ "" \notin Words /\ NoType \in Types /\ Rtype \in Types

\* strcase.LowerCamelCase and strcase.SnakeCase
LowerCamelCase(n) == Spelled(n.word, "camel")
SnakeCase(n)      == Spelled(n.word, "snake")

\* strings.EqualFold: case is ignored, underscores and hyphens are not.
Folded(n) == IF n.word \in OneWord THEN LowerCamelCase(n) ELSE n
EqualFold(m, n) == Folded(m) = Folded(n)

Kid(name, exported, v)  == [name |-> name, exported |-> exported, value |-> v]
Node(kind, type, kids)  ==
  [kind |-> kind, type |-> type, kids |-> kids, id |-> 0, runes |-> 0]
Leaf(id, runes) ==
  [kind |-> "leaf", type |-> NoType, kids |-> <<>>, id |-> id, runes |-> runes]
NilPointer == Node("nil", NoType, <<>>)
Pointer(v) == Node("ptr", NoType, <<Kid(NoName, TRUE, v)>>)

\* reflect.Indirect follows one pointer.
Indirect(v) == IF v.kind = "ptr" THEN v.kids[1].value ELSE v

\* A reflect.Type as a value: nil, or a pointer to a struct of its own.
TypeAsValue(type) ==
  IF type = NoType THEN NilPointer ELSE Pointer(Node("struct", Rtype, <<>>))

\* The data of a filter is nil, or a value or a pointer whose type counts.
NewFilter(data, field, mode) ==
  [struct |-> Indirect(data).type, field |-> field, mode |-> mode]
Filters == [struct : Types, field : Names, mode : {"full", "partial"}]

ASSUME CandidatesAssumption == Candidates \subseteq Filters

KidsOf(v) == {v.kids[i].value : i \in DOMAIN v.kids}

\* Values are finite trees: a value that leads back to itself the program
\* would walk until its stack overflows.  A struct has a type; the fields of a
\* reflect.rtype are unexported and hold nothing of the application.
ASSUME ValuesAssumption ==
  /\ NilPointer \in Nodes /\ Values \subseteq Nodes
  /\ Depth \in [Nodes -> Nat]
  /\ \A v \in Nodes :
       /\ v.type \in Types /\ v.runes \in Nat
       /\ v.kind = "struct" => v.type # NoType
       /\ v.type = Rtype => DOMAIN v.kids = {}
       /\ v.kind \in {"ptr", "iface"} => DOMAIN v.kids = {1}
       /\ v.kind = "leaf" => DOMAIN v.kids = {}
       /\ \A i \in DOMAIN v.kids : v.kids[i].name \in Names
       /\ \A u \in KidsOf(v) : u \in Nodes /\ Depth[u] < Depth[v]

\* The identities of the leaves under a node.
Leaves[v \in Nodes] ==
  IF v.kind = "leaf" THEN {v.id} ELSE UNION {Leaves[u] : u \in KidsOf(v)}

\* A leaf's identity is its own.
ASSUME LeavesAssumption ==
  \A v \in Nodes : \A i, j \in DOMAIN v.kids :
    i # j => Leaves[v.kids[i].value] \cap Leaves[v.kids[j].value] = {}

-----------------------------------------------------------------------------
\* Filters

\* The type of the filter is handed to NewFilter as data: of a filter that has
\* a struct it makes filters of reflect.rtype, which match no field.
filterWithFields(f) ==
  IF f.field = NoName
  THEN <<f>>
  ELSE << NewFilter(TypeAsValue(f.struct), LowerCamelCase(f.field), f.mode),
          NewFilter(TypeAsValue(f.struct), SnakeCase(f.field), f.mode) >>

\* Mutants: a filter of a struct's field is filed among the general ones ...
AddedAsGeneral(r, f) ==
  IF f.struct = NoType \/ f.field # NoName
  THEN [r EXCEPT !.general = @ \o filterWithFields(f)]
  ELSE [r EXCEPT !.structs = Append(@, f)]

\* ... and a general filter takes the place of those before it.
AddedAlone(r, f) ==
  IF f.struct = NoType
  THEN [r EXCEPT !.general = filterWithFields(f)]
  ELSE r

\* One round of the loop of AddFilters.
Added(r, f) ==
  CASE f.struct = NoType ->
         [r EXCEPT !.general = @ \o filterWithFields(f)]
    [] f.struct # NoType /\ f.field = NoName ->
         [r EXCEPT !.structs = Append(@, f)]
    [] f.struct # NoType /\ f.field # NoName ->
         [r EXCEPT !.fields = Append(@, f) \o filterWithFields(f)]

\* AddFilters, for a whole list.
AddedAll(r, fs) ==
  LET upTo[n \in 0..Len(fs)] == IF n = 0 THEN r ELSE Added(upTo[n - 1], fs[n])
  IN  upTo[Len(fs)]

ForName(word, mode) == NewFilter(NilPointer, Spelled(word, "camel"), mode)
DefaultFilters ==
  << ForName("password", "full"), ForName("address", "full"), ForName("cipher", "full"),
     ForName("email", "partial"), ForName("csrf", "partial"),
     ForName("accessToken", "partial"), ForName("apiKey", "partial"),
     ForName("cvv", "partial") >>

ASSUME DefaultsAssumption ==
  {"password", "address", "cipher", "email", "csrf", "accessToken", "apiKey", "cvv"}
    \subseteq Words

EmptyRedactor == [structs |-> <<>>, fields |-> <<>>, general |-> <<>>]
DefaultRedactor == AddedAll(EmptyRedactor, DefaultFilters)

\* The mode of the first filter of a list that is among the matching ones.
FirstMode(fs, matching) ==
  IF matching = {} THEN "none" ELSE fs[Min(matching)].mode

filterStruct(r, type) ==
  FirstMode(r.structs, {i \in DOMAIN r.structs : r.structs[i].struct = type})

OfStruct(r, type, field) ==
  {i \in DOMAIN r.fields : /\ type # NoType /\ r.fields[i].struct = type
                           /\ EqualFold(field, r.fields[i].field)}
General(r, field) == {i \in DOMAIN r.general : EqualFold(field, r.general[i].field)}

\* Mutant: the general filters are looked through first.
filterGeneralFirst(r, type, field) ==
  IF General(r, field) # {} THEN FirstMode(r.general, General(r, field))
                            ELSE FirstMode(r.fields, OfStruct(r, type, field))

filterField(r, type, field) ==
  IF OfStruct(r, type, field) # {} THEN FirstMode(r.fields, OfStruct(r, type, field))
                                   ELSE FirstMode(r.general, General(r, field))

-----------------------------------------------------------------------------
\* Redaction

Containers == {"struct", "map", "list"}

\* Mutant: every field is taken.
AllKids(v) == DOMAIN v.kids

\* CanInterface: kids that are no unexported fields.
Exported(v) == {i \in DOMAIN v.kids : v.kids[i].exported}

SmallerOf(m, n) == IF m < n THEN m ELSE n

\* Mutant: the part shown is rounded up.
partialRedactRoundedUp(runes) ==
  LET initialMask == (runes * 3 + 9) \div 10
  IN  [shown |-> initialMask, stars |-> SmallerOf(5, runes - initialMask)]

\* How many runes are shown, and how many stars follow.
partialRedactString(runes) ==
  LET initialMask == (runes * 3) \div 10
  IN  [shown |-> initialMask, stars |-> SmallerOf(5, runes - initialMask)]

Mask(leaf) ==
  [id |-> leaf.id, runes |-> leaf.runes, as |-> partialRedactString(leaf.runes)]

\* The masks PartialRedact makes of the leaves of a value; nothing else of it
\* can be read, an address that a pointer to a pointer holds counting as none.
\* The body calls the function itself as again.
PartialRedactBody(again, v) ==
  LET w == Indirect(v)
  IN  CASE v.kind = "nil" -> {}
        [] v.kind # "nil" /\ w.kind = "iface" -> again[w.kids[1].value]
        [] w.kind \in Containers -> UNION {again[w.kids[i].value] : i \in Exported(w)}
        [] w.kind = "leaf" -> {Mask(w)}
        [] OTHER -> {}

PartialRedact[v \in Nodes] == PartialRedactBody(PartialRedact, v)

RedactFunc(mode, v) == IF mode = "full" THEN {} ELSE PartialRedact[v]

Outcome(hit, shown, masked) == [hit |-> hit, shown |-> shown, masked |-> masked]
Kept(v) == Outcome(FALSE, Leaves[v], {})

\* Where the walk is: at a node that it has found under a name of an owner.
Places == [owner : Types \ {Rtype}, name : Names, node : Nodes]
Place(owner, name, v) == [owner |-> owner, name |-> name, node |-> v]

\* The place of a kid; an element of a list has the name of the list.
Below(p, i) ==
  LET w == Indirect(p.node)
  IN  IF w.kind \in {"list", "iface"}
      THEN Place(p.owner, p.name, w.kids[i].value)
      ELSE Place(w.type, w.kids[i].name, w.kids[i].value)

\* The body of redact, which calls itself as again.
redactBody(r, again, p) ==
  LET w == Indirect(p.node)
      mode == IF w.kind = "struct" THEN filterStruct(r, w.type)
                                   ELSE filterField(r, p.owner, p.name)
      kids == {again[Below(p, i)] : i \in Exported(w)}
  IN  CASE p.node.kind = "nil" -> Kept(p.node)
        [] p.node.kind # "nil" /\ w.kind = "iface" -> again[Below(p, 1)]
        [] p.node.kind # "nil" /\ w.kind # "iface" /\ mode # "none" ->
             Outcome(TRUE, {}, RedactFunc(mode, w))
        [] OTHER ->
             IF w.kind \in Containers /\ \E k \in kids : k.hit
             THEN Outcome(TRUE, UNION {k.shown : k \in kids},
                                UNION {k.masked : k \in kids})
             ELSE Kept(w)

\* What a value becomes, and whether anything in it was redacted.
redact(r) == LET walk[p \in Places] == redactBody(r, walk, p) IN walk

Root(v) == Place(NoType, NoName, v)
Redacted(r, v) == redact(r)[Root(v)]

-----------------------------------------------------------------------------
\* A redactor in use

NoOutput == [of |-> NilPointer, out |-> Outcome(FALSE, {}, {})]

\* The package's init builds DefaultRedactor; others start out empty.
Init == /\ \/ given = <<>> /\ filters = EmptyRedactor
           \/ given = DefaultFilters /\ filters = DefaultRedactor
        /\ output = NoOutput

AddFilters(f) ==
  /\ Len(given) < MaxAdded + IF IsPrefix(DefaultFilters, given)
                               THEN Len(DefaultFilters) ELSE 0
  /\ given' = Append(given, f)
  /\ filters' = Added(filters, f)
  /\ output' = NoOutput

Redact(v) == /\ output' = [of |-> v, out |-> Redacted(filters, v)]
             /\ UNCHANGED <<given, filters>>

Next == \/ \E f \in Candidates : AddFilters(f)
        \/ \E v \in Values : Redact(v)

Spec == Init /\ [][Next]_vars

-----------------------------------------------------------------------------
(***************************************************************************)
(* What the walk should do, said of the places a value has.  A trail leads *)
(* from the value down to a node, over everything the walk can see: the    *)
(* nodes behind pointers and interfaces, but neither unexported fields nor *)
(* what a pointer to a pointer leads to.                                   *)
(***************************************************************************)
TrailsBody(again, p) ==
  LET w == Indirect(p.node)
      here == <<[p EXCEPT !.node = w]>>
      below == UNION {again[Below(p, i)] : i \in Exported(w)}
  IN  CASE p.node.kind = "nil" -> {}
        [] p.node.kind # "nil" /\ w.kind = "iface" -> again[Below(p, 1)]
        [] p.node.kind # "nil" /\ w.kind \in Containers ->
             {here} \cup {here \o t : t \in below}
        [] OTHER -> {here}

Trails[p \in Places] == TrailsBody(Trails, p)

\* A general filter means a name in any spelling but a hyphenated one, and a
\* filter of a struct's field in the spelling it was given.
Means(f, n) ==
  \/ /\ f.struct = NoType /\ f.field.word = n.word
     /\ n.style # "kebab" \/ n.word \in OneWord
  \/ f.struct # NoType /\ EqualFold(n, f.field)

\* The filters of a list that mean a field of this name of a struct (or any).
Meant(fs, struct, name) ==
  {i \in DOMAIN fs : /\ fs[i].struct = struct /\ Means(fs[i], name)
                     /\ struct # NoType => fs[i].field # NoName}

\* What is to be done at a place.  A filter of a struct goes before one of a
\* struct's field, and this before a general one; an earlier filter goes
\* before a later one.  A struct is not looked up by the name it is found
\* under: its own fields have names.
Wanted(fs, p) ==
  IF p.node.kind = "struct"
  THEN FirstMode(fs, {i \in DOMAIN fs : /\ fs[i].field = NoName
                                        /\ fs[i].struct = p.node.type})
  ELSE IF p.owner # NoType /\ Meant(fs, p.owner, p.name) # {}
  THEN FirstMode(fs, Meant(fs, p.owner, p.name))
  ELSE FirstMode(fs, Meant(fs, NoType, p.name))

\* The first place on a trail where something is to be done, and what.
Hits(fs, t) == {i \in DOMAIN t : Wanted(fs, t[i]) # "none"}
Decided(fs, t) == IF Hits(fs, t) = {} THEN "none" ELSE Wanted(fs, t[Min(Hits(fs, t))])

MaskedIds(out) == {m.id : m \in out.masked}

\* The three lists hold filters with what makes them belong there; the list of
\* the fields also holds those of reflect.rtype made for them.
TypeOK ==
  /\ given \in Seq(Filters)
  /\ filters \in [structs : Seq({f \in Filters : f.struct # NoType /\ f.field = NoName}),
                  fields  : Seq({f \in Filters : f.struct # NoType /\ f.field # NoName}),
                  general : Seq({f \in Filters : f.struct = NoType})]
  /\ output.of \in Values \cup {NilPointer}
  /\ output.out.hit \in BOOLEAN
  /\ output.out.shown \subseteq Leaves[output.of]

\* The filter that is met first on the way from the value to a leaf decides
\* what is seen of the leaf, and where several fit one place the most specific
\* one does (README.md of common, "Specificity"): redact looks down the value
\* (redactor.go:205-287) and filterField through its two lists (178-194).
FirstFilterDecides ==
  \A t \in Trails[Root(output.of)] :
    t[Len(t)].node.kind = "leaf" =>
      LET id == t[Len(t)].node.id
      IN  /\ id \in output.out.shown <=> Decided(given, t) = "none"
          /\ id \in MaskedIds(output.out) <=> Decided(given, t) = "partial"

\* The leaves under unexported fields of the structs on a trail.
Hidden(t) ==
  UNION {UNION {Leaves[t[i].node.kids[j].value] :
                  j \in {k \in DOMAIN t[i].node.kids : ~t[i].node.kids[k].exported}} :
           i \in DOMAIN t}

\* A value is rebuilt exactly if something in it is filtered, and then without
\* the unexported fields of the structs around it (redactor.go:229-245), so
\* they do not get into a log beside a redacted secret.
RebuiltIfHit ==
  LET hit == {t \in Trails[Root(output.of)] : Hits(given, t) # {}}
  IN  /\ output.out.hit <=> hit # {}
      /\ ~output.out.hit => output.out.shown = Leaves[output.of]
      /\ \A t \in hit : Hidden(t) \cap output.out.shown = {}

\* A masked leaf shows less than a third of what it was, and something of every
\* leaf is masked, however long or short it is (redactor.go:120-127).
MasksHideMost ==
  \A m \in output.out.masked :
    /\ 10 * m.as.shown <= 3 * m.runes
    /\ m.as.shown + m.as.stars <= m.runes
    /\ m.runes > 0 => m.as.stars > 0

\* One more filter never reveals anything: what AddFilters (redactor.go:151-167)
\* is given never takes a filter away, and no rebuilding of a value around one
\* more hit brings back what was hidden.
FiltersOnlyHide ==
  [][\A v \in Values : Redacted(filters', v).shown
                          \subseteq Redacted(filters, v).shown]_filters

=============================================================================
