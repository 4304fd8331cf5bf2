----------------------- MODULE AlgoKitAccountProofs -----------------------
(***************************************************************************)
(* Theorems about AlgoKitAccount, for any number of threads and calls.     *)
(***************************************************************************)
EXTENDS AlgoKitAccount, TLAPS

(* The initial state. *)
LEMMA InitIInv == Init => IInv
<1> SUFFICES ASSUME Init PROVE IInv
  OBVIOUS
<1>1. TypeOK
  BY IdsAssumption DEF Init, TypeOK, Ids, OrNone, Groups
<1>2. FreshIds /\ CancelKnows /\ ClaimedByTheCallRunning /\ Delivered
  BY DEF Init, FreshIds, CancelKnows, ClaimedByTheCallRunning, Delivered
<1> QED BY <1>1, <1>2 DEF IInv

(* Each step keeps the types. *)
LEMMA TypeKept ==
  ASSUME IInv, [Next]_vars
  PROVE  TypeOK'
<1> USE DEF signVars, signerVars, cancelVars, OrNone
<1>1. ASSUME NEW t \in Threads, SignNothing(t) \/ BuildFails(t) \/ Receive(t) \/ RequestFails(t)
      PROVE  TypeOK'
  BY <1>1 DEF SignNothing, BuildFails, Receive, RequestFails, Finish, IInv, TypeOK
<1>2. ASSUME NEW t \in Threads, BeginSign(t)
      PROVE  TypeOK'
  <2>1. lastId + 1 \in Ids
    BY <1>2, IdsAssumption DEF BeginSign, IInv, TypeOK, Ids
  <2> QED BY <1>2, <2>1 DEF BeginSign, IInv, TypeOK
<1>3. ASSUME NEW t \in Threads, Submit(t) \/ EndSign(t)
      PROVE  TypeOK'
  BY <1>3 DEF Submit, EndSign, IInv, TypeOK
<1>4. ASSUME NEW i \in Ids, SignerDecides(i)
      PROVE  TypeOK'
  BY <1>4 DEF SignerDecides, IInv, TypeOK
<1>5. CASE CancelRead \/ CancelSend
  BY <1>5 DEF CancelRead, CancelSend, IInv, TypeOK
<1>6. CASE UNCHANGED vars
  BY <1>6 DEF vars, IInv, TypeOK
<1> QED BY <1>1, <1>2, <1>3, <1>4, <1>5, <1>6 DEF Next

(* Each step keeps the rest. *)
LEMMA ClaimKept ==
  ASSUME IInv, [Next]_vars
  PROVE  (FreshIds /\ CancelKnows /\ ClaimedByTheCallRunning)'
<1> USE DEF signVars, signerVars, cancelVars, OrNone
<1>0. /\ lastId \in Nat /\ current \in Nat /\ cancelId \in Nat
      /\ \A t \in Threads : id[t] \in Nat
      /\ id \in [Threads -> Nat]
      /\ pc \in [Threads -> {"idle", "build", "wait", "end"}]
  BY IdsAssumption DEF IInv, TypeOK, Ids
<1>1. ASSUME NEW t \in Threads, SignNothing(t) \/ BuildFails(t) \/ Receive(t) \/ RequestFails(t)
      PROVE  (FreshIds /\ CancelKnows /\ ClaimedByTheCallRunning)'
  BY <1>0, <1>1 DEF SignNothing, BuildFails, Receive, RequestFails, Finish,
                    IInv, FreshIds, CancelKnows, ClaimedByTheCallRunning
<1>2. ASSUME NEW t \in Threads, BeginSign(t)
      PROVE  (FreshIds /\ CancelKnows /\ ClaimedByTheCallRunning)'
  <2>1. CASE Sdk = "python" /\ current # 0
    BY <1>0, <1>2, <2>1 DEF BeginSign, IInv, FreshIds, CancelKnows, ClaimedByTheCallRunning
  <2>2. CASE ~(Sdk = "python" /\ current # 0)
    <3>1. /\ lastId' = lastId + 1
          /\ id' = [id EXCEPT ![t] = lastId + 1]
          /\ pc' = [pc EXCEPT ![t] = "build"]
          /\ current' = IF Sdk = "python" THEN lastId + 1 ELSE 0
          /\ UNCHANGED cancelVars
      BY <1>2, <2>2 DEF BeginSign
    <3>2. FreshIds'
      BY <1>0, <3>1 DEF IInv, FreshIds
    <3>3. CancelKnows'
      BY <3>1 DEF IInv, CancelKnows
    <3>4. ClaimedByTheCallRunning'
      <4> SUFFICES ASSUME Sdk = "python", NEW u \in Threads
                   PROVE  (pc[u] # "idle" <=> current # 0 /\ current = id[u])'
        BY DEF ClaimedByTheCallRunning
      <4>1. current = 0
        BY <2>2
      <4>2. CASE u = t
        BY <1>0, <3>1, <4>2
      <4>3. CASE u # t
        <5>1. pc[u] = "idle" /\ id[u] <= lastId
          BY <4>1 DEF IInv, ClaimedByTheCallRunning, FreshIds
        <5> QED BY <1>0, <3>1, <4>3, <5>1
      <4> QED BY <4>2, <4>3
    <3> QED BY <3>2, <3>3, <3>4
  <2> QED BY <2>1, <2>2
<1>3. ASSUME NEW t \in Threads, Submit(t)
      PROVE  (FreshIds /\ CancelKnows /\ ClaimedByTheCallRunning)'
  BY <1>0, <1>3 DEF Submit, IInv, FreshIds, CancelKnows, ClaimedByTheCallRunning
<1>4. ASSUME NEW t \in Threads, EndSign(t)
      PROVE  (FreshIds /\ CancelKnows /\ ClaimedByTheCallRunning)'
  <2>1. FreshIds' /\ CancelKnows'
    BY <1>0, <1>4 DEF EndSign, IInv, FreshIds, CancelKnows
  <2>2. ClaimedByTheCallRunning'
    <3> SUFFICES ASSUME Sdk = "python", NEW u \in Threads
                 PROVE  (pc[u] # "idle" <=> current # 0 /\ current = id[u])'
      BY DEF ClaimedByTheCallRunning
    <3>1. current = id[t] /\ current # 0 /\ current' = 0 /\ id' = id
      BY <1>4 DEF EndSign, IInv, ClaimedByTheCallRunning
    <3>2. u # t => pc[u] = "idle"
      BY <3>1 DEF IInv, ClaimedByTheCallRunning, FreshIds
    <3> QED BY <1>0, <1>4, <3>1, <3>2 DEF EndSign
  <2> QED BY <2>1, <2>2
<1>5. ASSUME NEW i \in Ids, SignerDecides(i)
      PROVE  (FreshIds /\ CancelKnows /\ ClaimedByTheCallRunning)'
  BY <1>5 DEF SignerDecides, IInv, FreshIds, CancelKnows, ClaimedByTheCallRunning
<1>6. CASE CancelRead \/ CancelSend
  BY <1>6 DEF CancelRead, CancelSend, IInv, TypeOK, FreshIds, CancelKnows, ClaimedByTheCallRunning
<1>7. CASE UNCHANGED vars
  BY <1>7 DEF vars, IInv, FreshIds, CancelKnows, ClaimedByTheCallRunning
<1> QED BY <1>1, <1>2, <1>3, <1>4, <1>5, <1>6, <1>7 DEF Next

(* What a call has returned is not touched by the others: their requests have  *)
(* other IDs, and a request that was signed is decided.                        *)
LEMMA DeliveredKept ==
  ASSUME IInv, [Next]_vars
  PROVE  Delivered'
<1> USE DEF signVars, signerVars, cancelVars, Delivered
<1>0. /\ id \in [Threads -> {0} \union Ids]
      /\ pc \in [Threads -> {"idle", "build", "wait", "end"}]
      /\ out \in [Threads -> {"none", "empty", "busy", "error", "signed"}]
      /\ state \in [Ids -> {"new", "pending", "signed", "refused", "canceled"}]
      /\ group \in [Ids -> Groups]
      /\ 0 \notin Ids
      /\ \A t \in Threads : pc[t] # "idle" => id[t] \in Ids
      /\ \A t, u \in Threads : id[t] = id[u] /\ id[t] # 0 => t = u
  BY IdsAssumption DEF IInv, TypeOK, OrNone, Ids, FreshIds
<1>1. ASSUME NEW t \in Threads, SignNothing(t) \/ BuildFails(t) \/ RequestFails(t)
      PROVE  Delivered'
  BY <1>0, <1>1 DEF SignNothing, BuildFails, RequestFails, Finish, IInv
<1>2. ASSUME NEW t \in Threads, BeginSign(t)
      PROVE  Delivered'
  BY <1>0, <1>2 DEF BeginSign, IInv
<1>3. ASSUME NEW t \in Threads, Submit(t)
      PROVE  Delivered'
  BY <1>0, <1>3 DEF Submit, IInv
<1>4. ASSUME NEW t \in Threads, Receive(t)
      PROVE  Delivered'
  BY <1>0, <1>4 DEF Receive, Finish, IInv
<1>5. ASSUME NEW t \in Threads, EndSign(t)
      PROVE  Delivered'
  BY <1>0, <1>5 DEF EndSign, IInv
<1>6. ASSUME NEW i \in Ids, SignerDecides(i)
      PROVE  Delivered'
  BY <1>0, <1>6 DEF SignerDecides, IInv
<1>7. CASE CancelRead
  BY <1>7 DEF CancelRead, IInv
<1>8. CASE CancelSend
  BY <1>0, <1>8 DEF CancelSend, IInv, CancelKnows
<1>9. CASE UNCHANGED vars
  BY <1>9 DEF vars, IInv
<1> QED BY <1>1, <1>2, <1>3, <1>4, <1>5, <1>6, <1>7, <1>8, <1>9 DEF Next

(* The invariant holds throughout. *)
LEMMA Invariance == Spec => []IInv
<1>1. IInv /\ [Next]_vars => IInv'
  BY TypeKept, ClaimKept, DeliveredKept DEF IInv
<1> QED BY InitIInv, <1>1, PTL DEF Spec

(* However many threads share an ApsignerAccount, it is claimed by exactly    *)
(* the call that runs: none overlaps it, and none leaves it claimed.          *)
THEOREM ClaimTheorem == Spec => []ClaimedByTheCallRunning
<1>1. IInv => ClaimedByTheCallRunning
  BY DEF IInv
<1> QED BY Invariance, <1>1, PTL

(* cancel() never cancels a later call than the one it was meant for. *)
THEOREM CancelTheorem == Spec => CancelHitsTheCallMeant
<1>1. ASSUME IInv, [Next]_vars
      PROVE  CancelsOnly
  <2> SUFFICES ASSUME NEW i \in Ids, state'[i] = "canceled", state[i] # "canceled"
               PROVE  i = meant
    BY DEF CancelsOnly
  <2>1. ASSUME NEW t \in Threads,
               SignNothing(t) \/ BeginSign(t) \/ BuildFails(t) \/ Receive(t)
                 \/ RequestFails(t) \/ EndSign(t)
        PROVE  FALSE
    BY <2>1 DEF SignNothing, BeginSign, BuildFails, Receive, RequestFails, EndSign, signerVars
  <2>2. ASSUME NEW t \in Threads, Submit(t)
        PROVE  FALSE
    BY <1>1, <2>2 DEF Submit, IInv, TypeOK
  <2>3. ASSUME NEW j \in Ids, SignerDecides(j)
        PROVE  FALSE
    BY <1>1, <2>3 DEF SignerDecides, IInv, TypeOK
  <2>4. ~CancelRead
    BY DEF CancelRead, signerVars
  <2>5. ~UNCHANGED vars
    BY DEF vars, signerVars
  <2>6. CASE CancelSend
    BY <1>1, <2>6 DEF CancelSend, IInv, TypeOK, CancelKnows
  <2> QED BY <1>1, <2>1, <2>2, <2>3, <2>4, <2>5, <2>6 DEF Next
<1>2. IInv /\ [Next]_vars => [CancelsOnly]_vars
  BY <1>1
<1> QED BY Invariance, <1>2, PTL DEF Spec, CancelHitsTheCallMeant

(* The adapter's state keeps its types (ApsignerAccount and the requests it makes). *)
THEOREM TypeTheorem == Spec => []TypeOK
<1>1. IInv => TypeOK
  BY DEF IInv
<1> QED BY Invariance, <1>1, PTL

(* The Python adapter returns no signatures over a group AlgoKit did not ask for, *)
(* however calls overlap: the two mutation fields it tests are those the wire has *)
(* for every re-grouped answer, and no later request touches a decided one.       *)
THEOREM UsableTheorem == ASSUME Sdk = "python" PROVE Spec => []UsableSignatures
<1>1. \A g \in Groups : Accepts(g) => g = "asked"
  BY DEF Groups, Accepts, Mutations, CheckedFields
<1>2. IInv => UsableSignatures
  BY <1>1 DEF IInv, Delivered, TypeOK, UsableSignatures
<1> QED BY Invariance, <1>2, PTL
=============================================================================
