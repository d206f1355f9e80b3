--------------------------- MODULE MCRequestQueue ---------------------------
(* Model values for RequestQueue. *)
EXTENDS RequestQueue, TLC

\* Requests of one kind, and emitters, are interchangeable.
Symmetry == Permutations(DefaultMsg) \cup Permutations(InMsg) \cup Permutations(Emitter)
=============================================================================
