----------------------------- MODULE SignEntries -----------------------------
(***************************************************************************)
(* The pure parts between a prepared group and a submitted one (Python):   *)
(* the entries of a /sign request, the checks on the answer, and the merge *)
(* of several parties' answers.                                            *)
(*                                                                         *)
(* A slot is how its owner gave it: "sign" (transaction and authority),    *)
(* "foreign" (transaction only) or "passthrough" (already signed).  A list *)
(* of signed transactions says for each slot whether it is filled.         *)
(***************************************************************************)
EXTENDS Naturals, Sequences, FiniteSetsExt

SlotModes == {"sign", "foreign", "passthrough"}

Slots(modes, m) == {i \in DOMAIN modes : modes[i] = m}

(* _validate_sign_entries: the mixes of modes /sign and /plan take. *)
EntriesValid(modes) ==
  /\ modes # <<>>
  /\ Slots(modes, "passthrough") = {} \/ Slots(modes, "foreign") = {}
  /\ Slots(modes, "foreign") # {} => Slots(modes, "sign") # {}

(* _build_sign_request_body with allow_foreign off, as _sign_request calls it. *)
BodyValid(modes) == Slots(modes, "foreign") = {}

(* Bug: the answer's length is not looked at. *)
AnswerShort(modes, signed) ==
  \A i \in DOMAIN signed : signed[i] \/ (i \in DOMAIN modes /\ modes[i] = "foreign")

(* _validate_group_sign_response: a signature for every slot that is not      *)
(* foreign, and no empty dummy behind them.                                  *)
AnswerValid(modes, signed) ==
  /\ Len(signed) >= Len(modes)
  /\ \A i \in DOMAIN signed : signed[i] \/ (i \in DOMAIN modes /\ modes[i] = "foreign")

(* _sign_request, _simulate_signed_group: a list with no empty slot. *)
Complete(signed) == signed # <<>> /\ \A i \in DOMAIN signed : signed[i]

(* assemble_group: lists of one length, exactly one signature for each slot. *)
Merges(mine, theirs) ==
  /\ Len(mine) = Len(theirs)
  /\ \A i \in DOMAIN mine : mine[i] # theirs[i]
=============================================================================
