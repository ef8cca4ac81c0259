----------------------------- MODULE MCCapOutbox ----------------------------
(* One publisher with one database transaction and two messages, one node. *)
EXTENDS CapOutbox
=============================================================================
