------------------------- MODULE MC_AlgoKitAccount -------------------------
(* Instances of AlgoKitAccount for TLC. *)
EXTENDS AlgoKitAccount, TLC

Symmetry == Permutations(Threads)
=============================================================================
