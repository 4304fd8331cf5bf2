-------------------------- MODULE MC_ApprovalWait --------------------------
(* Instances of ApprovalWait for TLC. *)
EXTENDS ApprovalWait, TLC

Symmetry == Permutations(Callers)
=============================================================================
