------------------------------- MODULE MCStation -------------------------------
(* Bounds of Station.  The idTags are alike. *)
EXTENDS Station, TLC

CONSTANTS A, B

Symmetry == Permutations({A, B})
================================================================================
