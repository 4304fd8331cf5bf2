--------------------------- MODULE MC_SignRequest ---------------------------
(* Instances of SignRequest for TLC. *)
EXTENDS SignRequest
=============================================================================
