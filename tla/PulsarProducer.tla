--------------------------- MODULE PulsarProducer ---------------------------
(***************************************************************************)
(* The producer manager of plugins/pulsar/producer.go: producers that are  *)
(* created once per label and shared by everybody who asks for the label,  *)
(* under a mutex that is held while the broker creates one.                *)
(***************************************************************************)
EXTENDS Naturals, PulsarServer

CONSTANTS
  Callers,     \* goroutines of the application that ask for producers
  Labels,
  NoLabel,     \* what a caller that asks for nothing asks for
  NoProducer,  \* the nil a label that is not filed has in the map
  MaxCreated   \* a bound on the producers created for a label

ASSUME LabelAssumption == NoLabel \notin Labels
ASSUME ProducerAssumption == NoProducer \notin Nat
ASSUME CallerAssumption == "free" \notin Callers

VARIABLES
  producers,  \* the manager's map, by label
  mu,         \* the manager's mutex: free, or the caller that holds it
  asks,       \* the label each caller is asking for
  at,         \* where in AddProducer each caller is
  open,       \* the producers that are open, each a label and a number
  created,    \* the number of producers the broker has created, by label
  got,        \* the producer each caller was answered last, with its label
  pmDown      \* whether the manager's Shutdown has closed its producers

producerVars == <<client, producers, mu, asks, at, open, created, got, pmDown>>

Free == "free"
Nobody == <<NoLabel, NoProducer>>
Filed == {l \in Labels : producers[l] # NoProducer}

ProducerInit ==
  /\ NewPulsarServer
  /\ producers = [l \in Labels |-> NoProducer]
  /\ mu = Free
  /\ asks = [c \in Callers |-> NoLabel]
  /\ at = [c \in Callers |-> "idle"]
  /\ open = {}
  /\ created = [l \in Labels |-> 0]
  /\ got = [c \in Callers |-> Nobody]
  /\ pmDown = FALSE

ConnectClient ==
  /\ client = "nil"
  /\ Connect
  /\ UNCHANGED <<producers, mu, asks, at, open, created, got, pmDown>>

-----------------------------------------------------------------------------
\* AddProducer of one caller.  Without a client, a topic or a label it is an
\* error and nothing changes.

\* The client is looked at before the mutex is taken.
AddProducer(c, l) ==
  /\ at[c] = "idle" /\ client # "nil"
  /\ at' = [at EXCEPT ![c] = "lock"]
  /\ asks' = [asks EXCEPT ![c] = l]
  /\ UNCHANGED <<client, producers, mu, open, created, got, pmDown>>

\* The caller is done with the answer p to what it asked for.
Answered(c, p) ==
  /\ at' = [at EXCEPT ![c] = "idle"]
  /\ asks' = [asks EXCEPT ![c] = NoLabel]
  /\ got' = [got EXCEPT ![c] = p]

\* The label is filed: its producer is the answer, whatever became of it.
Reuse(c) ==
  /\ at[c] = "lock" /\ mu = Free /\ asks[c] \in Filed
  /\ Answered(c, <<asks[c], producers[asks[c]]>>)
  /\ UNCHANGED <<client, producers, mu, open, created, pmDown>>

\* Mutant: the map is looked into before the mutex is taken.
LookedBefore(c) ==
  /\ at[c] = "lock" /\ mu = Free
  /\ mu' = c
  /\ at' = [at EXCEPT ![c] = "create"]
  /\ UNCHANGED <<client, producers, asks, open, created, got, pmDown>>

\* It is not: the mutex is kept during the call of CreateProducer.
BeginCreate(c) ==
  /\ at[c] = "lock" /\ mu = Free /\ asks[c] \notin Filed
  /\ mu' = c
  /\ at' = [at EXCEPT ![c] = "create"]
  /\ UNCHANGED <<client, producers, asks, open, created, got, pmDown>>

Created(c) ==
  LET l == asks[c] IN
  /\ at[c] = "create" /\ client = "open" /\ created[l] < MaxCreated
  /\ created' = [created EXCEPT ![l] = @ + 1]
  /\ producers' = [producers EXCEPT ![l] = created'[l]]
  /\ open' = open \cup {<<l, created'[l]>>}
  /\ Answered(c, <<l, created'[l]>>)
  /\ mu' = Free
  /\ UNCHANGED <<client, pmDown>>

\* Mutants: the error is looked at after the producer has been filed ...
CreateFailsFiled(c) ==
  /\ at[c] = "create"
  /\ producers' = [producers EXCEPT ![asks[c]] = created[asks[c]]]
  /\ Answered(c, Nobody)
  /\ mu' = Free
  /\ UNCHANGED <<client, open, created, pmDown>>

\* ... and the mutex is not given back on an error.
CreateFailsLocked(c) ==
  /\ at[c] = "create"
  /\ Answered(c, Nobody)
  /\ UNCHANGED <<client, producers, mu, open, created, pmDown>>

\* The broker refuses, or the client has been closed meanwhile.
CreateFails(c) ==
  /\ at[c] = "create"
  /\ Answered(c, Nobody)
  /\ mu' = Free
  /\ UNCHANGED <<client, producers, open, created, pmDown>>

\* Producer(label)
Producer(c, l) ==
  /\ at[c] = "idle" /\ mu = Free /\ l \in Filed
  /\ got' = [got EXCEPT ![c] = <<l, producers[l]>>]
  /\ UNCHANGED <<client, producers, mu, asks, at, open, created, pmDown>>

CallerNext(c) ==
  \/ \E l \in Labels : AddProducer(c, l) \/ Producer(c, l)
  \/ Reuse(c) \/ BeginCreate(c) \/ Created(c) \/ CreateFails(c)

-----------------------------------------------------------------------------
\* The hooks OnStop of the manager and of the client's holder.

ShutdownUnconnected == client = "nil" /\ UNCHANGED producerVars

Shutdown ==
  /\ client # "nil" /\ mu = Free
  /\ open' = open \ {<<l, producers[l]>> : l \in Filed}
  /\ pmDown' = TRUE
  /\ UNCHANGED <<client, producers, mu, asks, at, created, got>>

\* The client closes every producer it has created.
ServerShutdown ==
  /\ CloseClient
  /\ open' = {}
  /\ UNCHANGED <<producers, mu, asks, at, created, got, pmDown>>

ProducerNext == \/ ConnectClient
                \/ \E c \in Callers : CallerNext(c)
                \/ Shutdown \/ ServerShutdown

ProducerSpec == ProducerInit /\ [][ProducerNext]_producerVars

-----------------------------------------------------------------------------

ProducerTypeOK ==
  /\ ServerTypeOK
  /\ producers \in [Labels -> Nat \cup {NoProducer}]
  /\ mu \in Callers \cup {Free}
  /\ asks \in [Callers -> Labels \cup {NoLabel}]
  /\ at \in [Callers -> {"idle", "lock", "create"}]
  /\ open \subseteq Labels \X Nat
  /\ created \in [Labels -> Nat]
  /\ got \in [Callers -> (Labels \X Nat) \cup {Nobody}]
  /\ pmDown \in BOOLEAN

\* However many ask for a label at once, one producer is created for it, that
\* one is filed, and it is what everybody gets: "reuse if the label is the
\* same" (producer.go:88-91) is decided and acted on under one mutex.  A second
\* producer would stay open beyond the reach of the manager's Shutdown.
OneProducerPerLabel ==
  /\ \A p \in open : producers[p[1]] = p[2]
  /\ \A b, c \in Callers :
       got[b] # Nobody /\ got[c] # Nobody /\ got[b][1] = got[c][1] => got[b] = got[c]

\* A caller is answered with a producer that is open, unless the manager or the
\* client has been shut down: then AddProducer goes on to answer with what is
\* filed (producer.go:89-91).
AnsweredOpen ==
  [][\A c \in Callers :
       got'[c] # got[c] /\ got'[c] # Nobody =>
         got'[c] \in open' \/ pmDown \/ client = "closed"]_producerVars
=============================================================================
