---------------------------- MODULE PulsarServer ----------------------------
(***************************************************************************)
(* The client holder of plugins/pulsar/pulsar.go: PulsarServer embeds the  *)
(* client interface, nil until Connect succeeds.  A call on the nil        *)
(* client panics; a call on a closed one returns an error.                 *)
(***************************************************************************)
VARIABLE client   \* "nil", "open" or "closed"

ServerTypeOK == client \in {"nil", "open", "closed"}

NewPulsarServer == client = "nil"

\* A failed Connect leaves the client alone.  A second one replaces it: the
\* two clients are not told apart here.
Connect == client' = "open"

\* p.Close() of the embedded client.
CloseClient == client # "nil" /\ client' = "closed"
=============================================================================
