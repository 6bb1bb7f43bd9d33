---------------------------- MODULE MCConnections ----------------------------
(* Small instances of Connections. *)
EXTENDS Connections
=============================================================================
