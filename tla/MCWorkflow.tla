----------------------------- MODULE MCWorkflow -----------------------------
(* Workflow for TLC: callers are interchangeable, and so are actors. *)
EXTENDS Workflow, TLC

Symmetry == Permutations(Callers) \cup Permutations(Actors)
=============================================================================
