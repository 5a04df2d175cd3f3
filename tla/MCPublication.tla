--------------------------- MODULE MCPublication ---------------------------
(* Publication for TLC: processes are interchangeable. *)
EXTENDS Publication, TLC

Symmetry == Permutations(Procs)
=============================================================================
