------------------------------ MODULE SignCall ------------------------------
(***************************************************************************)
(* What one approval-bearing call promises its caller, whatever SDK makes  *)
(* it: it opens once and closes once; the SDK asks the signer to cancel at *)
(* most once, and only after the wait has lapsed (deadline, caller, broken *)
(* connection); and a call that gave up at its deadline has asked.         *)
(***************************************************************************)
EXTENDS Naturals

VARIABLES cancellable,  \* the request waits for an operator, so it can be cancelled
          phase,        \* "idle", "open", "closed"
          lapsed,       \* the wait has lapsed
          cancels,      \* automatic /sign/cancel requests sent
          outcome       \* "none", "answered", "timedout", "failed"

vars == <<cancellable, phase, lapsed, cancels, outcome>>

Init ==
  /\ cancellable \in BOOLEAN
  /\ phase = "idle"
  /\ lapsed = FALSE
  /\ cancels = 0
  /\ outcome = "none"

Open ==
  /\ phase = "idle"
  /\ phase' = "open"
  /\ UNCHANGED <<cancellable, lapsed, cancels, outcome>>

(* A request refused before anything is sent. *)
Refuse ==
  /\ phase = "idle"
  /\ phase' = "closed"
  /\ outcome' = "failed"
  /\ UNCHANGED <<cancellable, lapsed, cancels>>

Lapse ==
  /\ phase = "open"
  /\ ~lapsed
  /\ lapsed' = TRUE
  /\ UNCHANGED <<cancellable, phase, cancels, outcome>>

Cancel ==
  /\ phase # "idle"
  /\ cancellable
  /\ lapsed
  /\ cancels = 0
  /\ cancels' = 1
  /\ UNCHANGED <<cancellable, phase, lapsed, outcome>>

Close(o) ==
  /\ phase = "open"
  /\ o = "timedout" => lapsed /\ (cancellable => cancels = 1)
  /\ phase' = "closed"
  /\ outcome' = o
  /\ UNCHANGED <<cancellable, lapsed, cancels>>

Next ==
  \/ Open
  \/ Refuse
  \/ Lapse
  \/ Cancel
  \/ \E o \in {"answered", "timedout", "failed"} : Close(o)

Spec == Init /\ [][Next]_vars
=============================================================================
