--------------------------- MODULE AlgoKitAccount ---------------------------
(***************************************************************************)
(* The AlgoKit adapter: one ApsignerAccount, the AlgoKit composers that    *)
(* call its signer from several threads, and cancel() from another one.    *)
(*                                                                         *)
(* Python admits one sign call at a time and remembers its request ID so   *)
(* that cancel() can name it; TypeScript keeps nothing and cancels through *)
(* the AbortSignal of SignRequest.  Both must notice a signer that signed  *)
(* a group other than the one AlgoKit will submit.                         *)
(***************************************************************************)
EXTENDS Naturals

CONSTANTS Sdk,      \* "python" or "typescript"
          Threads,  \* threads that sign with the account
          MaxIds    \* bound: sign calls ever begun

ASSUME SdkAssumption == Sdk \in {"python", "typescript"}
ASSUME IdsAssumption == MaxIds \in Nat \ {0}

VARIABLES
  current,  \* _current_request_id; 0 for None
  lastId,   \* request IDs handed out so far
  pc,       \* where each thread is
  id,       \* its request ID
  out,      \* what its call returned last
  state,    \* state[i]: request i at the signer
  group,    \* group[i]: the group the signer signed for request i
  cancelPc, \* the thread that calls cancel()
  cancelId, \* the ID it read
  meant     \* the request in flight when it called cancel() (history)

signVars   == <<current, lastId, pc, id, out>>
signerVars == <<state, group>>
cancelVars == <<cancelPc, cancelId, meant>>
vars == <<signVars, signerVars, cancelVars>>

Ids   == 1..MaxIds
OrNone(S) == {0} \union S

(* The signer signs the group it was given, the same transactions under a   *)
(* new group ID, or a group padded with dummies.                            *)
Groups == {"asked", "regrouped", "padded"}

TypeOK ==
  /\ current \in OrNone(Ids)
  /\ lastId \in OrNone(Ids)
  /\ pc \in [Threads -> {"idle", "build", "wait", "end"}]
  /\ id \in [Threads -> OrNone(Ids)]
  /\ out \in [Threads -> {"none", "empty", "busy", "error", "signed"}]
  /\ state \in [Ids -> {"new", "pending", "signed", "refused", "canceled"}]
  /\ group \in [Ids -> Groups]
  /\ cancelPc \in {"idle", "send"}
  /\ cancelId \in OrNone(Ids)
  /\ meant \in OrNone(Ids)

Init ==
  /\ current = 0
  /\ lastId = 0
  /\ pc = [t \in Threads |-> "idle"]
  /\ id = [t \in Threads |-> 0]
  /\ out = [t \in Threads |-> "none"]
  /\ state = [i \in Ids |-> "new"]
  /\ group = [i \in Ids |-> "asked"]
  /\ cancelPc = "idle"
  /\ cancelId = 0
  /\ meant = 0

-----------------------------------------------------------------------------
(* The call is over as far as its result is known; the finally block is left. *)
Finish(t, r) ==
  /\ pc' = [pc EXCEPT ![t] = "end"]
  /\ out' = [out EXCEPT ![t] = r]

(* No index to sign: nothing is asked of the signer. *)
SignNothing(t) ==
  /\ pc[t] = "idle"
  /\ out' = [out EXCEPT ![t] = "empty"]
  /\ id' = [id EXCEPT ![t] = 0]
  /\ UNCHANGED <<current, lastId, pc, signerVars, cancelVars>>

(* Bug: the account is taken over by an overlapping call. *)
BeginSignOverlap(t) ==
  /\ pc[t] = "idle"
  /\ lastId < MaxIds
  /\ lastId' = lastId + 1
  /\ id' = [id EXCEPT ![t] = lastId + 1]
  /\ pc' = [pc EXCEPT ![t] = "build"]
  /\ out' = [out EXCEPT ![t] = "none"]
  /\ current' = IF Sdk = "python" THEN lastId + 1 ELSE 0
  /\ UNCHANGED <<signerVars, cancelVars>>

(* _begin_sign: a fresh ID, then the check and the claim under the lock.  A  *)
(* TypeScript call claims nothing.                                           *)
BeginSign(t) ==
  /\ pc[t] = "idle"
  /\ lastId < MaxIds
  /\ lastId' = lastId + 1
  /\ IF Sdk = "python" /\ current # 0
     THEN /\ out' = [out EXCEPT ![t] = "busy"]
          /\ id' = [id EXCEPT ![t] = 0]
          /\ UNCHANGED <<pc, current>>
     ELSE /\ id' = [id EXCEPT ![t] = lastId + 1]
          /\ pc' = [pc EXCEPT ![t] = "build"]
          /\ out' = [out EXCEPT ![t] = "none"]
          /\ current' = IF Sdk = "python" THEN lastId + 1 ELSE 0
  /\ UNCHANGED <<signerVars, cancelVars>>

(* Bug: the requests are built before the try block. *)
BuildFailsUnguarded(t) ==
  /\ pc[t] = "build"
  /\ pc' = [pc EXCEPT ![t] = "idle"]
  /\ out' = [out EXCEPT ![t] = "error"]
  /\ UNCHANGED <<current, lastId, id, signerVars, cancelVars>>

(* An index out of range, a missing transaction or sender, a failing encoder. *)
BuildFails(t) ==
  /\ pc[t] = "build"
  /\ Finish(t, "error")
  /\ UNCHANGED <<current, lastId, id, signerVars, cancelVars>>

(* sign_requests: the request reaches the signer ... *)
Submit(t) ==
  /\ pc[t] = "build"
  /\ pc' = [pc EXCEPT ![t] = "wait"]
  /\ state' = [state EXCEPT ![id[t]] = "pending"]
  /\ UNCHANGED <<current, lastId, id, out, group, cancelVars>>

(* Bug: a truncated answer gets past _validate_group_sign_response. *)
SignerDecidesShort(i) ==
  /\ state[i] = "pending"
  /\ \E s \in {"signed", "refused"} : state' = [state EXCEPT ![i] = s]
  /\ \E g \in Groups \union {"short"} : group' = [group EXCEPT ![i] = g]
  /\ UNCHANGED <<signVars, cancelVars>>

(* ... which signs or refuses it. *)
SignerDecides(i) ==
  /\ state[i] = "pending"
  /\ \E s \in {"signed", "refused"} : state' = [state EXCEPT ![i] = s]
  /\ \E g \in Groups : group' = [group EXCEPT ![i] = g]
  /\ UNCHANGED <<signVars, cancelVars>>

(* The fields of "mutations" in the answer, under their wire names, *)
Mutations(g) ==
  CASE g = "asked"     -> {}
    [] g = "regrouped" -> {"group_id_changed"}
    [] g = "padded"    -> {"group_id_changed", "dummies_added"}

(* Bug: the adapter counts signatures only. *)
CheckedFieldsNone == {}

(* and the fields the adapter looks at: TypeScript's signRequests returns    *)
(* the answer as parsed, and the adapter reads the names planRequests would  *)
(* have mapped them to.                                                      *)
CheckedFields == IF Sdk = "python" THEN {"group_id_changed", "dummies_added"}
                 ELSE {"groupIdChanged", "dummiesAdded"}

(* One signature per index, and no mutation seen. *)
Accepts(g) == Mutations(g) \intersect CheckedFields = {} /\ g # "padded"

Receive(t) ==
  /\ pc[t] = "wait"
  /\ state[id[t]] # "pending"
  /\ Finish(t, IF state[id[t]] = "signed" /\ Accepts(group[id[t]]) THEN "signed" ELSE "error")
  /\ UNCHANGED <<current, lastId, id, signerVars, cancelVars>>

(* The request fails on its way; SignRequest has the cancel it sends.        *)
RequestFails(t) ==
  /\ pc[t] = "wait"
  /\ Finish(t, "error")
  /\ UNCHANGED <<current, lastId, id, signerVars, cancelVars>>

(* _end_sign, in the finally block. *)
EndSign(t) ==
  /\ pc[t] = "end"
  /\ pc' = [pc EXCEPT ![t] = "idle"]
  /\ current' = IF current = id[t] THEN 0 ELSE current
  /\ UNCHANGED <<lastId, id, out, signerVars, cancelVars>>

-----------------------------------------------------------------------------
(* cancel(): read the ID under the lock ... *)
CancelRead ==
  /\ Sdk = "python"
  /\ cancelPc = "idle"
  /\ current # 0
  /\ cancelId' = current
  /\ meant' = current
  /\ cancelPc' = "send"
  /\ UNCHANGED <<signVars, signerVars>>

(* Bug: the ID is read again when the cancel is sent. *)
CancelSendCurrent ==
  /\ cancelPc = "send"
  /\ cancelPc' = "idle"
  /\ cancelId' = current
  /\ state' = IF current # 0 /\ state[current] = "pending"
              THEN [state EXCEPT ![current] = "canceled"] ELSE state
  /\ UNCHANGED <<signVars, group, meant>>

(* ... and cancel that request, if it is still pending at the signer. *)
CancelSend ==
  /\ cancelPc = "send"
  /\ cancelPc' = "idle"
  /\ state' = IF state[cancelId] = "pending"
              THEN [state EXCEPT ![cancelId] = "canceled"] ELSE state
  /\ UNCHANGED <<signVars, group, cancelId, meant>>

Next ==
  \/ \E t \in Threads :
       \/ SignNothing(t) \/ BeginSign(t) \/ BuildFails(t) \/ Submit(t)
       \/ Receive(t) \/ RequestFails(t) \/ EndSign(t)
  \/ \E i \in Ids : SignerDecides(i)
  \/ CancelRead
  \/ CancelSend

Spec == Init /\ [][Next]_vars

-----------------------------------------------------------------------------
(* The account is claimed by exactly the call that is running: overlapping   *)
(* calls are refused while one runs, and the account is never left claimed   *)
(* after the last one ended, whichever way it ended.                         *)
ClaimedByTheCallRunning ==
  Sdk = "python" => \A t \in Threads : pc[t] # "idle" <=> current # 0 /\ current = id[t]

(* The only request a step may cancel is the one cancel() was called for. *)
CancelsOnly ==
  \A i \in Ids : state'[i] = "canceled" /\ state[i] # "canceled" => i = meant

(* cancel() cancels the call it was meant for and never a later one, though  *)
(* the lock is released before the cancel is sent.                           *)
CancelHitsTheCallMeant == [][CancelsOnly]_vars

(* Signatures handed to AlgoKit are over the group AlgoKit submits: a        *)
(* re-grouped result fails fast, "rather than returning a result that fails  *)
(* opaquely on-chain".                                                       *)
UsableSignatures ==
  \A t \in Threads : out[t] = "signed" => group[id[t]] = "asked"

-----------------------------------------------------------------------------
(* The inductive invariant: request IDs are fresh, *)
FreshIds ==
  /\ \A t \in Threads : id[t] <= lastId /\ (pc[t] # "idle" => id[t] # 0)
  /\ \A t, u \in Threads : id[t] = id[u] /\ id[t] # 0 => t = u
  /\ current <= lastId

(* and cancel() keeps the ID it read. *)
CancelKnows == cancelPc = "send" => cancelId \in Ids /\ cancelId = meant

(* A call has no result yet while it runs; one that returned signatures has  *)
(* the signer's own, and nothing changes what was signed any more.           *)
Delivered ==
  \A t \in Threads :
    /\ pc[t] \in {"build", "wait"} => out[t] = "none"
    /\ out[t] = "signed" =>
         id[t] \in Ids /\ state[id[t]] = "signed" /\ Accepts(group[id[t]])

IInv == TypeOK /\ FreshIds /\ CancelKnows /\ ClaimedByTheCallRunning /\ Delivered
=============================================================================
