----------------------------- MODULE MCRegistry -----------------------------
(* A small instance of Registry. *)
EXTENDS Registry, TLC

Symmetry == Permutations(Handles) \cup Permutations(Writes) \cup Permutations(Roots)
=============================================================================
