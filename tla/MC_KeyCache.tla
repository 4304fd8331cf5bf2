---------------------------- MODULE MC_KeyCache ----------------------------
(* Instances of KeyCache for TLC. *)
EXTENDS KeyCache, TLC

Symmetry == Permutations(Callers)
=============================================================================
