--------------------------- MODULE PlanValidation ---------------------------
(***************************************************************************)
(* What the SDKs accept as the signer's /plan answer to a prepared group   *)
(* with cosigner positions, before anything is signed.                     *)
(*                                                                         *)
(* A transaction is its body (every field but fee and group), its fee and  *)
(* its group ID.  The group ID is a hash of the transactions without it,   *)
(* modelled as that sequence itself: equal only for equal groups.          *)
(* Positions count from 1 here, from 0 in the code.                        *)
(***************************************************************************)
EXTENDS Integers, Sequences, FiniteSetsExt

CONSTANT MaxGroup    \* the protocol's limit on a group, 16

ASSUME MaxGroupAssumption == MaxGroup \in Nat \ {0}

Bodies == [owner : {"caller", "dummy", "other"}, note : Nat]
Txns   == [body : Bodies, fee : Nat, grp : Seq([body : Bodies, fee : Nat])]

(* A transaction that is in no group has the zero digest. *)
NoGroup == << >>

(* ComputeGroupID over the transactions with the group field cleared. *)
GroupId(txns) == [i \in DOMAIN txns |-> [body |-> txns[i].body, fee |-> txns[i].fee]]

(* The mutation report of the answer; present = FALSE when there is none, *)
(* and then the other fields have their zero values.                      *)
Reports == [present : BOOLEAN, originalCount : Int, finalCount : Int, dummiesAdded : Int,
            feesModified : Seq(Int), groupIdChanged : BOOLEAN, totalFeesDelta : Int]

Unreported == [present |-> FALSE, originalCount |-> 0, finalCount |-> 0, dummiesAdded |-> 0,
               feesModified |-> << >>, groupIdChanged |-> FALSE, totalFeesDelta |-> 0]

(* decodable: every entry is hex with the TX prefix, decodes, and encodes to *)
(* the same bytes again.                                                     *)
Answers == [decodable : BOOLEAN, txns : Seq(Txns), report : Reports]

-----------------------------------------------------------------------------
(* decodeCanonicalGroup: size, and one right group ID on every transaction *)
(* of a group of two or more.                                              *)
DecodesCanonically(a) ==
  /\ a.decodable
  /\ Len(a.txns) \in 1..MaxGroup
  /\ IF Len(a.txns) = 1
     THEN a.txns[1].grp = NoGroup
     ELSE \A i \in DOMAIN a.txns : a.txns[i].grp = GroupId(a.txns)

(* The k-th appended transaction, k from 0, is the budget dummy with note k. *)
CanonicalDummy(t, k) == t.body = [owner |-> "dummy", note |-> k] /\ t.fee = 0

Appended(group, txns) == Len(txns) - Len(group)

(* validateGuardedDummies on what the planner appended. *)
DummiesCanonical(group, txns) ==
  \A i \in (Len(group) + 1)..Len(txns) : CanonicalDummy(txns[i], i - Len(group) - 1)

(* Without a report nothing may be appended; with one its counts must agree. *)
CountsMatch(group, txns, r) ==
  IF r.present
  THEN /\ r.originalCount = Len(group)
       /\ r.finalCount = Len(txns)
       /\ r.dummiesAdded = Appended(group, txns)
  ELSE Appended(group, txns) = 0

(* Bug: off by one at the last original position. *)
FeeIndicesBelowLast(group, r) ==
  /\ \A j \in DOMAIN r.feesModified : r.feesModified[j] \in 1..(Len(group) - 1)
  /\ \A j, k \in DOMAIN r.feesModified : r.feesModified[j] = r.feesModified[k] => j = k

(* fees_modified names original positions, each once. *)
FeeIndicesValid(group, r) ==
  /\ \A j \in DOMAIN r.feesModified : r.feesModified[j] \in DOMAIN group
  /\ \A j, k \in DOMAIN r.feesModified : r.feesModified[j] = r.feesModified[k] => j = k

FeeModified(r) == {r.feesModified[j] : j \in DOMAIN r.feesModified}

(* An existing group ID changes only along with a fee or the membership.  *)
(* "A fee" is an entry in fees_modified, whether the fee differs or not.  *)
RegroupingReasoned(group, txns, r) ==
  r.groupIdChanged => \/ Appended(group, txns) # 0
                      \/ FeeModified(r) # {}
                      \/ \E i \in DOMAIN group : group[i].grp = NoGroup

(* Bug: the planner may also lower a fee it reports. *)
OnlyReportedChangesEitherWay(group, txns, r) ==
  \A i \in DOMAIN group :
    txns[i] = [body |-> group[i].body,
               fee  |-> IF i \in FeeModified(r) THEN txns[i].fee ELSE group[i].fee,
               grp  |-> IF r.groupIdChanged THEN txns[i].grp ELSE group[i].grp]

(* An original position differs only in a fee that was reported, and went   *)
(* up, and in the group ID if that was reported.                            *)
OnlyReportedChanges(group, txns, r) ==
  \A i \in DOMAIN group :
    /\ i \in FeeModified(r) => txns[i].fee >= group[i].fee
    /\ txns[i] = [body |-> group[i].body,
                  fee  |-> IF i \in FeeModified(r) THEN txns[i].fee ELSE group[i].fee,
                  grp  |-> IF r.groupIdChanged THEN txns[i].grp ELSE group[i].grp]

(* By how much the fees at positions S went up in all. *)
FeesDelta(group, txns, S) == MapThenSumSet(LAMBDA i : txns[i].fee - group[i].fee, S)

(* validateBoundedComponentPlan, which both flows use. *)
PlanAcceptable(group, txns, r) ==
  /\ Len(txns) >= Len(group)
  /\ CountsMatch(group, txns, r)
  /\ FeeIndicesValid(group, r)
  /\ RegroupingReasoned(group, txns, r)
  /\ OnlyReportedChanges(group, txns, r)
  /\ r.present => r.totalFeesDelta = FeesDelta(group, txns, FeeModified(r))
  /\ DummiesCanonical(group, txns)

(* validateBoundedTargetFees: the ceiling of bounded-cosigner1 targets. *)
TargetFeesWithin(txns, targets, maxFee) == \A i \in targets : txns[i].fee <= maxFee

-----------------------------------------------------------------------------
(* The reference the checks are measured by, stated on the groups alone.     *)

(* What may become of a prepared group: the same bodies in the same places, *)
(* fees that only grow, budget dummies behind, and one group ID computed    *)
(* from the whole.                                                          *)
Permitted(group, txns) ==
  /\ Len(txns) \in Len(group)..MaxGroup
  /\ \A i \in DOMAIN group : /\ txns[i].body = group[i].body
                             /\ txns[i].fee >= group[i].fee
  /\ \A i \in DOMAIN txns \ DOMAIN group :
       txns[i].body = [owner |-> "dummy", note |-> i - Len(group) - 1] /\ txns[i].fee = 0
  /\ \A i \in DOMAIN txns : txns[i].grp = IF Len(txns) = 1 THEN NoGroup ELSE GroupId(txns)

(* The fee or the membership of the group differs, or an ID was missing. *)
ReallyChanged(group, txns) ==
  \/ Len(txns) # Len(group)
  \/ \E i \in DOMAIN group : txns[i].fee # group[i].fee
  \/ \E i \in DOMAIN group : group[i].grp = NoGroup

(* A truthful planner: permitted, no gratuitous regrouping, and a report of *)
(* exactly what it did, left out only if it did nothing.                    *)
Honest(group, a) ==
  LET t == a.txns
      r == a.report
      changed == {i \in DOMAIN group : t[i].fee # group[i].fee}
      regrouped == \E i \in DOMAIN group : t[i].grp # group[i].grp
  IN /\ a.decodable
     /\ Permitted(group, t)
     /\ regrouped => ReallyChanged(group, t)
     /\ IF r.present
        THEN /\ r.originalCount = Len(group)
             /\ r.finalCount = Len(t)
             /\ r.dummiesAdded = Len(t) - Len(group)
             /\ FeeModified(r) = changed
             /\ \A j, k \in DOMAIN r.feesModified : j # k => r.feesModified[j] # r.feesModified[k]
             /\ r.groupIdChanged = regrouped
             /\ r.totalFeesDelta = FeesDelta(group, t, changed)
        ELSE Len(t) = Len(group) /\ changed = {} /\ ~regrouped /\ r = Unreported
=============================================================================
