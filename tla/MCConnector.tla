---------------------------- MODULE MCConnector -----------------------------
(* Values for Connector. *)
EXTENDS Connector
=============================================================================
