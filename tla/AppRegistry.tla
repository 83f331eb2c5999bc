---------------------------- MODULE AppRegistry ----------------------------
(***************************************************************************)
(* The constructors of an application: app.go and plugins/plugins.go.      *)
(*                                                                         *)
(* Plugins append themselves to the slice plugins.Registry from their      *)
(* package's init.  NewApplication copies the slice, which is to say its   *)
(* pointer, length and capacity: the applications of a process share the   *)
(* registry's array until an append needs more room than the array has.    *)
(* Arrays and slices are therefore told apart here.                        *)
(***************************************************************************)
EXTENDS Integers, Sequences

CONSTANTS
  Apps,           \* the applications of the process
  Modules,        \* the modules an application may add
  Constructors,
  NoConstructor,  \* what is in an array beyond the slices
  Controllers,    \* Controllers() of each module
  Provide,        \* Provide() of each module
  Registered,     \* the constructors in plugins.Registry
  PluginLists,    \* what SetPlugins may be called with
  MaxSpare,       \* a bound on the capacity an append leaves unused
  MaxArrays, MaxPlugins  \* bounds on the arrays, and on an application's list

ASSUME RegistryAssumption ==
  /\ Registered \in Seq(Constructors)
  /\ PluginLists \subseteq Seq(Constructors)
  /\ Controllers \in [Modules -> Seq(Constructors)]
  /\ Provide \in [Modules -> Seq(Constructors)]
  /\ MaxSpare \in Nat

VARIABLES
  arrays,    \* the arrays allocated so far; the first is the registry's
  slice,     \* the field plugins of each application; array 0 before it exists
  given,     \* what each application was given (history)
  appended   \* the applications that wrote into the registry's array (history)

registryVars == <<arrays, slice, given, appended>>

Slice(array, len) == [array |-> array, len |-> len]

\* The elements of a slice, as append and fx.Provide see them.
Contents(heap, s) == [i \in 1..s.len |-> heap[s.array][i]]

Exists(a) == slice[a].array # 0

RegistryInit ==
  /\ \E spare \in 0..MaxSpare :
       arrays = << [i \in 1..(Len(Registered) + spare) |->
                      IF i <= Len(Registered) THEN Registered[i]
                                              ELSE NoConstructor] >>
  /\ slice = [a \in Apps |-> Slice(0, 0)]
  /\ given = [a \in Apps |-> <<>>]
  /\ appended = {}

-----------------------------------------------------------------------------
\* append(s, xs...) in Go: into the array of s where it has the room, and
\* into a new one, with some capacity to spare, where it has not.

\* Mutant: off by one.
FitsOneMore(heap, s, xs) == s.len + Len(xs) <= Len(heap[s.array]) + 1

Fits(heap, s, xs) == s.len + Len(xs) <= Len(heap[s.array])

Overwritten(heap, s, xs) ==
  [heap EXCEPT ![s.array] =
     [i \in 1..Len(heap[s.array]) |->
        IF i \in (s.len + 1)..(s.len + Len(xs)) THEN xs[i - s.len]
                                                ELSE heap[s.array][i]]]

Grown(heap, s, xs, spare) ==
  Append(heap, [i \in 1..(s.len + Len(xs) + spare) |->
                IF i <= s.len THEN heap[s.array][i]
                ELSE IF i <= s.len + Len(xs) THEN xs[i - s.len]
                                             ELSE NoConstructor])

AppendTo(heap, s, xs, spare) ==
  IF xs = <<>> THEN [arrays |-> heap, slice |-> s]
  ELSE IF Fits(heap, s, xs)
  THEN [arrays |-> Overwritten(heap, s, xs),
        slice  |-> Slice(s.array, s.len + Len(xs))]
  ELSE [arrays |-> Grown(heap, s, xs, spare),
        slice  |-> Slice(Len(heap) + 1, s.len + Len(xs))]

\* An append with the outcome s wrote into the registry's array.
InRegistry(s) == s.array = 1 /\ s.len > Len(Registered)

-----------------------------------------------------------------------------

\* Mutant: plugins.Registry[:0], an empty list in the registry's array.
NewApplicationEmptied(a) ==
  /\ ~Exists(a)
  /\ slice' = [slice EXCEPT ![a] = Slice(1, 0)]
  /\ UNCHANGED <<arrays, given, appended>>

NewApplication(a) ==
  /\ ~Exists(a)
  /\ slice' = [slice EXCEPT ![a] = Slice(1, Len(Registered))]
  /\ given' = [given EXCEPT ![a] = Registered]
  /\ UNCHANGED <<arrays, appended>>

\* The arguments are a new array.  An Application that is no work of
\* NewApplication begins with this (plugins/README.md).
SetPlugins(a, xs) ==
  /\ Len(arrays) < MaxArrays
  /\ arrays' = Append(arrays, xs)
  /\ slice' = [slice EXCEPT ![a] = Slice(Len(arrays) + 1, Len(xs))]
  /\ given' = [given EXCEPT ![a] = xs]
  /\ UNCHANGED appended

\* Mutant: append(plugins.Registry, ...), so an earlier module is forgotten.
AddModuleToRegistry(a, m) ==
  /\ Exists(a)
  /\ LET one == AppendTo(arrays, Slice(1, Len(Registered)), Controllers[m], 0)
         two == AppendTo(one.arrays, one.slice, Provide[m], 0)
     IN  /\ Len(two.arrays) <= MaxArrays
         /\ arrays' = two.arrays
         /\ slice' = [slice EXCEPT ![a] = two.slice]
         /\ given' = [given EXCEPT ![a] = (@ \o Controllers[m]) \o Provide[m]]
         /\ UNCHANGED appended

\* The controllers first, then what the module provides.
AddModule(a, m) ==
  /\ Exists(a)
  /\ Len(given[a]) + Len(Controllers[m]) + Len(Provide[m]) <= MaxPlugins
  /\ \E spare1, spare2 \in 0..MaxSpare :
       LET one == AppendTo(arrays, slice[a], Controllers[m], spare1)
           two == AppendTo(one.arrays, one.slice, Provide[m], spare2)
       IN  /\ Len(two.arrays) <= MaxArrays
           /\ arrays' = two.arrays
           /\ slice' = [slice EXCEPT ![a] = two.slice]
           /\ given' = [given EXCEPT ![a] = (@ \o Controllers[m]) \o Provide[m]]
           /\ appended' = appended \cup
                {b \in {a} : InRegistry(one.slice) \/ InRegistry(two.slice)}

RegistryNext ==
  \E a \in Apps : \/ NewApplication(a)
                  \/ \E xs \in PluginLists : SetPlugins(a, xs)
                  \/ \E m \in Modules : AddModule(a, m)

RegistrySpec == RegistryInit /\ [][RegistryNext]_registryVars

-----------------------------------------------------------------------------

RegistryTypeOK ==
  /\ arrays \in Seq(Seq(Constructors \cup {NoConstructor}))
  /\ Len(arrays) > 0
  /\ slice \in [Apps -> [array : 0..Len(arrays), len : Nat]]
  /\ \A a \in Apps : Exists(a) => slice[a].len <= Len(arrays[slice[a].array])
  /\ given \in [Apps -> Seq(Constructors)]
  /\ appended \subseteq Apps

\* An application keeps the constructors it was given, in order (app.go:33-38),
\* unless it and another have both appended where the registry's array had
\* room: then the later of the two has overwritten modules of the earlier.
KeepsUnlessRobbed ==
  \A a \in Apps :
    Exists(a) => \/ Contents(arrays, slice[a]) = given[a]
                 \/ a \in appended /\ \E b \in appended : b # a

\* Whatever applications do, the plugins that registered themselves are there
\* for the next one (app.go:18-21).
RegistryIntact ==
  Contents(arrays, Slice(1, Len(Registered))) = Registered
=============================================================================
