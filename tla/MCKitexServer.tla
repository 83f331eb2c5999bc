---------------------------- MODULE MCKitexServer ----------------------------
(* An instance of KitexServer for TLC. *)
EXTENDS KitexServer
=============================================================================
