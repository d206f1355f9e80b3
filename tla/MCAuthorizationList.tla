-------------------------- MODULE MCAuthorizationList --------------------------
(* AuthorizationList for TLC: a list of three entries, and a server that mixes removals. *)
EXTENDS AuthorizationList
===============================================================================
