------------------------- MODULE PreparationProofs -------------------------
(***************************************************************************)
(* Theorems about Preparation, for every set of requests, ledgers and      *)
(* inventories and whatever the signer and the other party answer.         *)
(***************************************************************************)
EXTENDS Preparation, LedgerProofs, SequenceTheorems, FiniteSetTheorems, TLAPS

-----------------------------------------------------------------------------
(* Facts about slots and answers.                                           *)

(* A slot put behind the others leaves them as they were. *)
LEMMA AppendFacts ==
  ASSUME NEW T, NEW s \in Seq(T), NEW x
  PROVE  /\ Append(s, x) \in Seq(T \union {x})
         /\ Len(Append(s, x)) = Len(s) + 1
         /\ DOMAIN s = 1..Len(s) /\ Len(s) \in Nat
         /\ DOMAIN Append(s, x) = 1..(Len(s) + 1)
         /\ \A i \in 1..Len(s) : Append(s, x)[i] = s[i]
         /\ Append(s, x)[Len(s) + 1] = x
<1>1. s \in Seq(T \union {x})
  BY SeqMonotonic
<1>2. Append(s, x) \in Seq(T \union {x}) /\ Len(Append(s, x)) = Len(s) + 1
  BY <1>1, AppendProperties
<1>3. /\ \A i \in 1..Len(s) : Append(s, x)[i] = s[i]
      /\ Append(s, x)[Len(s) + 1] = x
  BY <1>1, AppendProperties
<1>4. DOMAIN s = 1..Len(s) /\ Len(s) \in Nat
  BY LenProperties
<1>5. DOMAIN Append(s, x) = 1..Len(Append(s, x))
  BY <1>2, LenProperties
<1> QED BY <1>2, <1>3, <1>4, <1>5

(* A function on 1..n is a sequence of length n. *)
LEMMA FunctionIsSeq ==
  ASSUME NEW n \in Nat, NEW S, NEW f \in [1..n -> S]
  PROVE  f \in Seq(S) /\ Len(f) = n
<1>1. f \in Seq(S)
  BY SeqDef
<1>2. DOMAIN f = 1..Len(f) /\ Len(f) \in Nat
  BY <1>1, LenProperties
<1>3. DOMAIN f = 1..n
  OBVIOUS
<1> QED BY <1>1, <1>2, <1>3

(* The modes of the slots are as many as the slots. *)
LEMMA ModesFacts ==
  ASSUME SlotsInv
  PROVE  /\ Len(slots) \in Nat /\ DOMAIN slots = 1..Len(slots)
         /\ Len(Modes) = Len(slots) /\ DOMAIN Modes = 1..Len(slots)
<1>1. PICK T : slots \in Seq(T)
  BY DEF SlotsInv
<1>2. Len(slots) \in Nat /\ DOMAIN slots = 1..Len(slots)
  BY <1>1, LenProperties
<1>3. Modes \in [1..Len(slots) -> {slots[i].mode : i \in DOMAIN slots}]
  BY <1>2 DEF Modes
<1> QED BY <1>2, <1>3, FunctionIsSeq

(* An answer is a sequence of flags. *)
LEMMA AnswerFacts ==
  ASSUME SlotsInv, slots # <<>>, NEW signed \in Answers
  PROVE  /\ signed \in [DOMAIN signed -> BOOLEAN]
         /\ Len(signed) \in Nat /\ DOMAIN signed = 1..Len(signed)
<1>1. PICK n \in (Len(slots) - 1)..(Len(slots) + 1) : signed \in [1..n -> BOOLEAN]
  BY DEF Answers
<1>2. Len(slots) \in Nat /\ Len(slots) # 0
  BY ModesFacts, EmptySeq DEF SlotsInv
<1>3. n \in Nat
  BY <1>2
<1> QED BY <1>1, <1>3, FunctionIsSeq

(* What is assumed of a request. *)
LEMMA RequestFacts ==
  ASSUME NEW r \in Requests
  PROVE  /\ Len(r.items) \in Nat \ {0} /\ DOMAIN r.items = 1..Len(r.items)
         /\ r.shape = "single" => Len(r.items) = 1
         /\ \A i \in DOMAIN r.items : /\ r.items[i] \in Items
                                      /\ r.shape # "party" => r.items[i].mode = "sign"
                                      /\ r.shape = "payments" => r.items[i].op = "pay"
                                      /\ r.shape = "transfers" => r.items[i].op = "asa"
                                      /\ r.shape = "sweep" => r.items[i].op \in {"pay", "asa"}
                                      /\ r.shape = "pay_app" => r.items[i].op \in {"pay", "app"}
         /\ r.shape \in {"single", "payments", "transfers", "sweep", "pay_app", "party"}
<1>1. /\ r.shape \in DOMAIN ShapeOps
      /\ Len(r.items) \in Nat \ {0} /\ DOMAIN r.items = 1..Len(r.items)
      /\ r.shape = "single" => Len(r.items) = 1
      /\ \A i \in DOMAIN r.items : /\ r.items[i] \in Items
                                   /\ r.items[i].op \in ShapeOps[r.shape]
                                   /\ r.shape # "party" => r.items[i].mode = "sign"
  BY PreparationAssumption
<1>2. r.shape \in {"single", "payments", "transfers", "sweep", "pay_app", "party"}
  BY <1>1 DEF ShapeOps
<1>3. /\ ShapeOps["payments"] = {"pay"} /\ ShapeOps["transfers"] = {"asa"}
      /\ ShapeOps["sweep"] = {"asa", "pay"} /\ ShapeOps["pay_app"] = {"pay", "app"}
  BY DEF ShapeOps
<1>4. ASSUME NEW i \in DOMAIN r.items
      PROVE  /\ r.shape = "payments" => r.items[i].op = "pay"
             /\ r.shape = "transfers" => r.items[i].op = "asa"
             /\ r.shape = "sweep" => r.items[i].op \in {"pay", "asa"}
             /\ r.shape = "pay_app" => r.items[i].op \in {"pay", "app"}
  <2>1. r.items[i].op \in ShapeOps[r.shape]
    BY <1>1
  <2> QED BY <1>3, <2>1
<1> QED BY <1>1, <1>2, <1>4

(* The transaction an item is built into. *)
LEMMA BuildFacts ==
  ASSUME NEW item \in Items
  PROVE  /\ Build(item) \in Transactions
         /\ Build(item).op = item.op /\ Build(item).from = item.from
         /\ item.op \in {"pay", "asa", "optout", "close", "rekey"} => Build(item).to = item.to
         /\ item.op \in {"pay", "asa"} => Build(item).amt = item.amt
         /\ Build(item).fee = TxFee(item)
<1>1. /\ item.from \in Accounts /\ item.to \in Accounts /\ item.amt \in Nat /\ item.op \in Ops
      /\ item.nonpart \in BOOLEAN
  BY DEF Items
<1>2. TxFee(item) \in Nat
  BY PreparationAssumption DEF Items, TxFee
<1> DEFINE fee == TxFee(item)
<1>3. fee \in Nat
  BY <1>2
<1> HIDE DEF fee
<1>4. ASSUME NEW to \in Accounts, NEW amt \in Nat
      PROVE  /\ Tx(item, to, amt) \in Transactions
             /\ Tx(item, to, amt).op = item.op /\ Tx(item, to, amt).from = item.from
             /\ Tx(item, to, amt).to = to /\ Tx(item, to, amt).amt = amt
             /\ Tx(item, to, amt).fee = fee
  BY <1>1, <1>3 DEF Tx, Transactions, fee
<1>5. item.op = "pay" => Build(item) = Tx(item, item.to, item.amt)
  BY DEF Build, PaymentTx
<1>6. item.op = "asa" => Build(item) = Tx(item, item.to, item.amt)
  BY DEF Build, AsaTransferTx
<1>7. item.op \in {"optout", "close", "rekey"} => Build(item) = Tx(item, item.to, 0)
  BY DEF Build, OptOutTx, CloseTx, RekeyTx
<1>8. item.op \in {"optin", "app", "deploy"} => Build(item) = Tx(item, item.from, 0)
  BY DEF Build, OptInTx, AppCallTx, AppDeployTx
<1>9. item.op = "keyreg" =>
        Build(item) = [Tx(item, item.from, 0) EXCEPT !.nonpart = item.nonpart]
  BY DEF Build, KeyregTx
<1>10. CASE item.op \in {"pay", "asa"}
  BY <1>1, <1>4, <1>5, <1>6, <1>10 DEF fee
<1>11. CASE item.op \in {"optout", "close", "rekey"}
  BY <1>1, <1>4, <1>7, <1>11 DEF fee
<1>12. CASE item.op \in {"optin", "app", "deploy"}
  BY <1>1, <1>4, <1>8, <1>12 DEF fee
<1>13. CASE item.op = "keyreg"
  <2> DEFINE t == Tx(item, item.from, 0)
  <2>1. /\ t \in Transactions /\ t.op = item.op /\ t.from = item.from /\ t.fee = fee
        /\ Build(item) = [t EXCEPT !.nonpart = item.nonpart]
    BY <1>1, <1>4, <1>9, <1>13
  <2> HIDE DEF t
  <2>2. [t EXCEPT !.nonpart = item.nonpart] \in Transactions
    BY <1>1, <2>1 DEF Transactions
  <2>3. Build(item).op = item.op /\ Build(item).from = item.from /\ Build(item).fee = fee
    BY <2>1 DEF Transactions
  <2> QED BY <1>13, <2>1, <2>2, <2>3 DEF fee
<1> QED BY <1>1, <1>10, <1>11, <1>12, <1>13 DEF Ops

(* The item in hand, and the slot it becomes. *)
LEMMA ItemFacts ==
  ASSUME SlotsInv, pc \in {"read", "check", "resolve", "target"}
  PROVE  /\ Item \in Items /\ Len(slots) + 1 \in DOMAIN req.items
         /\ Prepared.tx.op = Item.op /\ Prepared.tx.from = Item.from
         /\ Item.op = "rekey" => Prepared.tx.to = Item.to
<1>1. Len(slots) + 1 \in DOMAIN req.items
  BY ModesFacts, RequestFacts DEF SlotsInv
<1>2. Item \in Items
  BY <1>1, RequestFacts DEF SlotsInv, Item
<1> DEFINE item == Item
           tx == Build(item)
<1>3. /\ tx \in Transactions /\ tx.op = item.op /\ tx.from = item.from
      /\ item.op = "rekey" => tx.to = item.to
  BY <1>2, BuildFacts
<1>4. Prepared.tx = [tx EXCEPT !.auth = Auth(item, info)]
  BY DEF Prepared
<1> HIDE DEF item, tx
<1>5. /\ Prepared.tx.op = tx.op /\ Prepared.tx.from = tx.from
      /\ Prepared.tx.to = tx.to
  BY <1>3, <1>4 DEF Transactions
<1> QED BY <1>1, <1>2, <1>3, <1>5 DEF item

-----------------------------------------------------------------------------
(* The three ways a step ends.                                              *)

(* The inventory and the cache stay. *)
LEMMA TargetKept ==
  ASSUME TargetInv, UNCHANGED <<keys, cacheVars, raced>>, pc' # "target"
  PROVE  TargetInv'
BY DEF TargetInv, CacheAnswers, cacheVars

(* However the cache came to answer, undisturbed it is the inventory. *)
LEMMA ListKeysFacts ==
  ASSUME TargetInv, ListKeysIfKeysetChanged, UNCHANGED keys
  PROVE  /\ TargetInv'
         /\ raced' = FALSE => raced = FALSE \/ slots = <<>>
<1>1. CASE CacheAnswers
  BY <1>1 DEF TargetInv, ListKeysIfKeysetChanged, cacheVars
<1>2. CASE ~CacheAnswers
  BY <1>2 DEF TargetInv, ListKeysIfKeysetChanged
<1> QED BY <1>1, <1>2

(* The call fails: nothing the invariant speaks of changes but pc. *)
LEMMA FailsKept ==
  ASSUME IInv, Fails, pc # "done", UNCHANGED keys,
         TargetInv', raced' = FALSE => raced = FALSE \/ slots = <<>>
  PROVE  IInv'
<1>1. pc' = "done" /\ UNCHANGED <<req, slots, sent, verdict>>
  BY DEF Fails
<1>2. SlotsInv' /\ TargetInv'
  BY <1>1 DEF IInv, SlotsInv
<1>3. verdict' = NoVerdict
  BY <1>1 DEF IInv, SentInv
<1>4. SentInv'
  BY <1>1, <1>3 DEF SentInv
<1>5. RekeyTargetUsable'
  <2>1. CASE slots = <<>>
    BY <1>1, <2>1 DEF RekeyTargetUsable
  <2>2. CASE raced' = TRUE
    BY <2>2 DEF RekeyTargetUsable
  <2>3. CASE raced' = raced
    BY <1>1, <2>3 DEF IInv, RekeyTargetUsable
  <2> QED BY <2>1, <2>2, <2>3 DEF IInv, TargetInv
<1> QED BY <1>2, <1>4, <1>5 DEF IInv

(* A slot is taken that is no rekey to an unusable key. *)
LEMMA TakesKept ==
  ASSUME IInv, NEW slot, Takes(slot), pc \in {"read", "resolve", "target"}, UNCHANGED keys,
         TargetInv', raced' = FALSE => raced = FALSE \/ slots = <<>>,
         (/\ raced' = FALSE
          /\ slot.mode = "sign" /\ slot.tx.op = "rekey" /\ slot.tx.to # slot.tx.from
          /\ slot.tx.to \in DOMAIN keys) => keys[slot.tx.to] \in {"plain", "witness"}
  PROVE  IInv'
<1>1. /\ slots' = Append(slots, slot) /\ UNCHANGED <<req, sent, verdict>>
      /\ pc' = IF Len(slots) + 1 < Len(req.items) THEN "read" ELSE "group"
  BY DEF Takes
<1>2. PICK T : slots \in Seq(T)
  BY DEF IInv, SlotsInv
<1>3. /\ slots' \in Seq(T \union {slot})
      /\ Len(slots') = Len(slots) + 1
      /\ DOMAIN slots = 1..Len(slots) /\ Len(slots) \in Nat
      /\ DOMAIN slots' = 1..(Len(slots) + 1)
      /\ \A i \in 1..Len(slots) : slots'[i] = slots[i]
      /\ slots'[Len(slots) + 1] = slot
  BY <1>1, <1>2, AppendFacts
<1>4. SlotsInv'
  BY <1>1, <1>3 DEF IInv, SlotsInv
<1>6. verdict = NoVerdict
  BY DEF IInv, SentInv
<1>7. SentInv'
  BY <1>1, <1>6 DEF SentInv
<1>8. RekeyTargetUsable'
  <2> SUFFICES ASSUME raced' = FALSE, NEW i \in DOMAIN slots',
                      slots'[i].mode = "sign", slots'[i].tx.op = "rekey",
                      slots'[i].tx.to # slots'[i].tx.from,
                      slots'[i].tx.to \in DOMAIN keys
               PROVE  keys[slots'[i].tx.to] \in {"plain", "witness"}
    BY DEF RekeyTargetUsable, CanAuthorize, TargetInv
  <2>1. CASE i \in 1..Len(slots)
    <3>1. raced = FALSE
      BY <2>1, <1>3, EmptySeq
    <3> QED BY <1>3, <2>1, <3>1 DEF IInv, RekeyTargetUsable, CanAuthorize
  <2>2. CASE i = Len(slots) + 1
    BY <1>3, <2>2
  <2> QED BY <1>3, <2>1, <2>2
<1> QED BY <1>4, <1>7, <1>8 DEF IInv

(* The slots and the inventory stay: what matters is where the signatures are. *)
LEMMA SlotsStay ==
  ASSUME IInv, UNCHANGED <<req, slots, keys, cacheVars, raced>>, SentInv',
         pc' \notin {"check", "resolve", "target", "read"}
  PROVE  IInv'
<1>1. SlotsInv' /\ TargetInv'
  BY TargetKept DEF IInv, SlotsInv
<1>2. RekeyTargetUsable'
  BY DEF IInv, RekeyTargetUsable
<1> QED BY <1>1, <1>2 DEF IInv

-----------------------------------------------------------------------------
(* Two states of one slot: signed by us, or by the other party. *)
LEMMA OneParty ==
  \A S \in {{"mine"}, {"theirs"}} : Cardinality(S) = 1
BY FS_Singleton

(* The initial states. *)
LEMMA InitIInv == Init => IInv
<1> SUFFICES ASSUME Init PROVE IInv
  OBVIOUS
<1>1. slots \in Seq({}) /\ Len(slots) = 0
  BY EmptySeq DEF Init
<1>2. SlotsInv
  BY <1>1, PreparationAssumption DEF Init, SlotsInv
<1>3. TargetInv
  BY DEF Init, TargetInv, CacheAnswers
<1>4. SentInv
  BY DEF Init, SentInv
<1>5. DOMAIN slots = {}
  BY <1>1, LenProperties
<1>6. RekeyTargetUsable
  BY <1>5 DEF RekeyTargetUsable
<1> QED BY <1>2, <1>3, <1>4, <1>6 DEF IInv

(* Every step. *)
LEMMA StepIInv ==
  ASSUME IInv, [Next]_vars
  PROVE  IInv'
<1> USE DEF jobVars, cacheVars
<1>0. raced \in BOOLEAN /\ (pc # "done" => verdict = NoVerdict)
  BY DEF IInv, TargetInv, SentInv
<1>00. UNCHANGED <<keys, cacheVars, raced>> /\ pc' # "target" => TargetInv'
  BY TargetKept DEF IInv
<1>1. CASE ReadSender
  <2>1. CASE Fails
    BY <1>0, <1>1, <2>1, <1>00, FailsKept DEF Fails, ReadSender
  <2>2. CASE pc' = "check" /\ UNCHANGED <<req, slots, sent, verdict>>
    <3>1. SlotsInv' /\ TargetInv' /\ SentInv'
      BY <1>0, <1>00, <1>1, <2>2 DEF ReadSender, IInv, SlotsInv, SentInv
    <3>2. RekeyTargetUsable'
      BY <1>1, <2>2 DEF ReadSender, IInv, RekeyTargetUsable
    <3> QED BY <3>1, <3>2 DEF IInv
  <2> QED BY <1>1, <2>1, <2>2 DEF ReadSender
<1>2. CASE TakeOther
  BY <1>0, <1>00, <1>2, TakesKept DEF TakeOther, Takes
<1>3. CASE CheckItem
  <2>1. CASE Fails
    BY <1>0, <1>3, <2>1, <1>00, FailsKept DEF Fails, CheckItem
  <2>2. CASE pc' = "resolve" /\ UNCHANGED <<req, slots, sent, verdict>>
    <3>1. SlotsInv' /\ TargetInv' /\ SentInv'
      BY <1>0, <1>00, <1>3, <2>2 DEF CheckItem, IInv, SlotsInv, SentInv
    <3>2. RekeyTargetUsable'
      BY <1>3, <2>2 DEF CheckItem, IInv, RekeyTargetUsable
    <3> QED BY <3>1, <3>2 DEF IInv
  <2> QED BY <1>3, <2>1, <2>2 DEF CheckItem
<1>4. CASE Resolve
  <2>0. pc = "resolve" /\ UNCHANGED keys
    BY <1>4 DEF Resolve
  <2>1. CASE Fails /\ UNCHANGED <<cacheVars, raced>>
    BY <1>0, <1>00, <2>0, <2>1, FailsKept DEF Fails
  <2>2. CASE ListKeysIfKeysetChanged
    <3>0. TargetInv' /\ (raced' = FALSE => raced = FALSE \/ slots = <<>>)
      BY <2>0, <2>2, ListKeysFacts DEF IInv
    <3>1. CASE Fails
      BY <1>0, <2>0, <3>0, <3>1, FailsKept
    <3>2. CASE pc' = "target" /\ UNCHANGED <<req, slots, sent, verdict>>
      <4>1. SlotsInv' /\ TargetInv' /\ SentInv'
        BY <1>0, <2>0, <3>0, <3>2 DEF IInv, SlotsInv, SentInv
      <4>2. RekeyTargetUsable'
        <5>1. CASE slots = <<>>
          BY <3>2, <5>1 DEF RekeyTargetUsable
        <5>2. CASE slots # <<>>
          BY <1>0, <2>0, <3>0, <3>2, <5>2 DEF IInv, TargetInv, RekeyTargetUsable
        <5> QED BY <5>1, <5>2
      <4> QED BY <4>1, <4>2 DEF IInv
    <3>3. CASE Takes(Prepared) /\ ~(Item.op = "rekey" /\ Item.to # Item.from)
      <4>1. Prepared.tx.op = "rekey" => Prepared.tx.to = Prepared.tx.from
        BY <2>0, <3>3, ItemFacts DEF IInv
      <4> QED BY <2>0, <3>0, <3>3, <4>1, TakesKept
    <3> QED BY <1>4, <2>2, <3>1, <3>2, <3>3, <2>1 DEF Resolve
  <2> QED BY <1>4, <2>1, <2>2 DEF Resolve
<1>5. CASE RekeyTarget
  <2>0. pc = "target" /\ UNCHANGED <<keys, cacheVars, raced>>
    BY <1>5 DEF RekeyTarget
  <2>1. CASE Fails
    BY <1>0, <1>00, <2>0, <2>1, FailsKept DEF Fails
  <2>2. CASE Takes(Prepared) /\ (Item.to \in DOMAIN cache => FlowAuthorizes(SigningFlow(cache[Item.to])))
    <3>1. Prepared.tx.op = "rekey" => Prepared.tx.to = Item.to
      BY <2>0, ItemFacts DEF IInv
    <3>2. raced = FALSE => cache = keys
      BY <2>0 DEF IInv, TargetInv
    <3>3. TargetInv'
      BY <1>00, <2>0, <2>2 DEF Takes
    <3>4. \A key : FlowAuthorizes(SigningFlow(key)) => key \in {"plain", "witness"}
      BY DEF FlowAuthorizes, SigningFlow
    <3> QED BY <1>0, <2>0, <2>2, <3>1, <3>2, <3>3, <3>4, TakesKept
  <2> QED BY <1>5, <2>1, <2>2 DEF RekeyTarget
<1>6. CASE GroupCheck
  <2>1. CASE Fails
    BY <1>0, <1>6, <2>1, <1>00, FailsKept DEF Fails, GroupCheck
  <2>2. CASE pc' = "finish" /\ UNCHANGED <<req, slots, sent, verdict>>
    BY <1>0, <1>6, <2>2, SlotsStay DEF GroupCheck, SentInv
  <2> QED BY <1>6, <2>1, <2>2 DEF GroupCheck
<1>7. CASE Sign
  <2>1. CASE Fails
    BY <1>0, <1>7, <2>1, <1>00, FailsKept DEF Fails, Sign
  <2>2. CASE pc' = "answer" /\ EntriesValid(Modes) /\ UNCHANGED <<req, slots, sent, verdict>>
    <3>1. slots # <<>>
      BY <2>2 DEF EntriesValid, Modes
    <3> QED BY <1>0, <1>7, <2>2, <3>1, SlotsStay DEF Sign, SentInv
  <2> QED BY <1>7, <2>1, <2>2 DEF Sign
<1>8. CASE Signed
  <2>1. CASE Fails
    BY <1>0, <1>8, <2>1, <1>00, FailsKept DEF Fails, Signed
  <2>2. CASE ~Fails
    <3>1. PICK signed \in Answers :
            /\ AnswerValid(Modes, signed) /\ (path # "prepared" => Complete(signed))
            /\ sent' = [i \in DOMAIN signed |-> IF signed[i] THEN {"mine"} ELSE {}]
            /\ pc' = IF path = "simulate" THEN "simulate"
                     ELSE IF Slots(Modes, "foreign") # {} THEN "merge" ELSE "send"
      BY <1>8, <2>2 DEF Signed
    <3>2. pc = "answer" /\ UNCHANGED <<req, slots, verdict, keys, cacheVars, raced>>
      BY <1>8, <2>2 DEF Signed
    <3>3. /\ signed \in [DOMAIN signed -> BOOLEAN]
          /\ DOMAIN slots \subseteq DOMAIN signed
          /\ DOMAIN slots = DOMAIN Modes
      BY <3>1, <3>2, AnswerFacts, ModesFacts DEF IInv, SentInv, AnswerValid
    <3>4. pc' # "merge" => \A i \in DOMAIN slots : signed[i]
      <4>1. CASE Complete(signed)
        BY <3>3, <4>1 DEF Complete
      <4>2. CASE path = "prepared" /\ Slots(Modes, "foreign") = {}
        BY <3>1, <3>3, <4>2 DEF AnswerValid, Slots
      <4> QED BY <3>1, <4>1, <4>2
    <3>5. slots # <<>> /\ \E n \in Nat : DOMAIN signed = 1..n
      BY <3>1, <3>2, AnswerFacts DEF IInv, SentInv
    <3>6. SentInv'
      BY <1>0, <3>1, <3>2, <3>3, <3>4, <3>5, OneParty DEF SentInv
    <3> QED BY <3>1, <3>2, <3>6, SlotsStay
  <2> QED BY <2>1, <2>2
<1>9. CASE SignFails
  BY <1>0, <1>9, <1>00, FailsKept DEF Fails, SignFails
<1>10. CASE AssembleGroup
  <2>1. CASE Fails
    BY <1>0, <1>10, <2>1, <1>00, FailsKept DEF Fails, AssembleGroup
  <2>2. CASE ~Fails
    <3> DEFINE mine == [i \in DOMAIN sent |-> sent[i] # {}]
    <3>1. PICK theirs \in Answers :
            /\ Merges(mine, theirs)
            /\ sent' = [i \in DOMAIN sent |-> sent[i] \union (IF theirs[i] THEN {"theirs"} ELSE {})]
      BY <1>10, <2>2 DEF AssembleGroup
    <3>2. pc = "merge" /\ pc' = "send" /\ UNCHANGED <<req, slots, verdict, keys, cacheVars, raced>>
      BY <1>10, <2>2 DEF AssembleGroup
    <3>3. \A i \in DOMAIN sent : sent'[i] \in {{"mine"}, {"theirs"}}
      <4> SUFFICES ASSUME NEW i \in DOMAIN sent PROVE sent'[i] \in {{"mine"}, {"theirs"}}
        OBVIOUS
      <4>1. (sent[i] # {}) # theirs[i]
        BY <3>1 DEF Merges
      <4>2. sent[i] \in {{}, {"mine"}}
        BY <3>2 DEF IInv, SentInv
      <4>3. theirs[i] \in BOOLEAN
        <5>1. PICK n \in Nat : DOMAIN sent = 1..n
          BY <3>2 DEF IInv, SentInv
        <5>2. mine \in [1..n -> BOOLEAN]
          BY <5>1
        <5>3. Len(mine) = n
          BY <5>2, FunctionIsSeq
        <5>4. theirs \in [DOMAIN theirs -> BOOLEAN] /\ DOMAIN theirs = 1..Len(theirs)
          BY <3>1, <3>2, AnswerFacts DEF IInv, SentInv
        <5> QED BY <3>1, <5>1, <5>3, <5>4 DEF Merges
      <4> QED BY <3>1, <4>1, <4>2, <4>3
    <3>4. DOMAIN slots \subseteq DOMAIN sent /\ DOMAIN sent' = DOMAIN sent
      BY <3>1, <3>2 DEF IInv, SentInv
    <3>5. SentInv'
      BY <1>0, <3>2, <3>3, <3>4, OneParty DEF SentInv
    <3> QED BY <3>2, <3>5, SlotsStay
  <2> QED BY <2>1, <2>2
<1>11. CASE Send
  <2>1. pc = "send" /\ pc' = "done" /\ UNCHANGED <<req, slots, sent, keys, cacheVars, raced>>
    BY <1>11 DEF Send
  <2>2. SentInv'
    BY <2>1 DEF IInv, SentInv
  <2> QED BY <2>1, <2>2, SlotsStay
<1>12. CASE Simulate
  <2>1. CASE Fails
    BY <1>0, <1>12, <2>1, <1>00, FailsKept DEF Fails, Simulate
  <2>2. CASE pc' = "done" /\ UNCHANGED <<req, slots, sent>>
    <3>1. SentInv'
      BY <1>12, <2>2 DEF Simulate, IInv, SentInv
    <3> QED BY <1>12, <2>2, <3>1, SlotsStay DEF Simulate
  <2> QED BY <1>12, <2>1, <2>2 DEF Simulate
<1>13. CASE LedgerMoves \/ UNCHANGED vars
  <2>1. UNCHANGED <<keys, cacheVars, pc, req, slots, sent, verdict, raced>>
    BY <1>13 DEF LedgerMoves, vars
  <2> QED BY <2>1 DEF IInv, SlotsInv, TargetInv, CacheAnswers, SentInv, RekeyTargetUsable
<1>14. CASE KeysMove \/ CacheCleared \/ CacheMislabelled
  <2>1. UNCHANGED <<pc, req, slots, sent, verdict>> /\ raced' = TRUE
    BY <1>14 DEF KeysMove, CacheCleared, CacheMislabelled
  <2>2. SlotsInv' /\ TargetInv' /\ SentInv'
    BY <2>1 DEF IInv, SlotsInv, TargetInv, SentInv
  <2>3. RekeyTargetUsable'
    BY <2>1 DEF RekeyTargetUsable
  <2> QED BY <2>2, <2>3 DEF IInv
<1> QED BY <1>1, <1>2, <1>3, <1>4, <1>5, <1>6, <1>7, <1>8, <1>9, <1>10, <1>11, <1>12,
           <1>13, <1>14 DEF Next

(* IInv is an invariant of the specification. *)
THEOREM InvariantTheorem == Spec => []IInv
BY InitIInv, StepIInv, PTL DEF Spec

(* Whatever the signer and the other party answer, a group reaches the ledger only *)
(* with every slot signed, each by one party (_validate_group_sign_response,       *)
(* _sign_request, assemble_group).                                                 *)
THEOREM SentTheorem == Spec => []SentComplete
<1>1. IInv => SentComplete
  BY DEF IInv, SentInv, SentComplete
<1> QED BY <1>1, InvariantTheorem, PTL

(* A group with a rekey to a key of this signer that cannot authorize is never     *)
(* prepared, a witness key apart, unless the inventory or the cache of it was      *)
(* disturbed meanwhile (prepare_rekey).          *)
THEOREM RekeyTheorem == Spec => []RekeyTargetUsable
<1>1. IInv => RekeyTargetUsable
  BY DEF IInv
<1> QED BY <1>1, InvariantTheorem, PTL

-----------------------------------------------------------------------------
(* What the ledger is given, and what was checked of it.                    *)

(* The group the ledger gets is the slots, fee and foreign authority apart. *)
LEMMA GroupFacts ==
  ASSUME SlotsInv, TypeInv
  PROVE  /\ Len(Group) = Len(slots) /\ Len(slots) \in Nat /\ DOMAIN slots = 1..Len(slots)
         /\ \A i \in 1..Len(slots) :
              LET t == slots[i].tx
                  u == Group[i]
              IN  /\ Legible(u)
                  /\ u.op = t.op /\ u.from = t.from /\ u.to = t.to /\ u.amt = t.amt
                  /\ raised = 0 => u.fee = t.fee
                  /\ u.auth = IF slots[i].mode = "sign" THEN t.auth ELSE ledger[t.from].auth
<1>1. Len(slots) \in Nat /\ DOMAIN slots = 1..Len(slots)
  BY ModesFacts
<1>2. raised \in {0, 1}
  BY DEF TypeInv, TypeOK
<1>3. Len(Group) = Len(slots)
  <2>1. Group \in [1..Len(slots) -> {Group[i] : i \in DOMAIN slots}]
    BY <1>1 DEF Group
  <2> QED BY <1>1, <2>1, FunctionIsSeq
<1>4. ASSUME NEW i \in 1..Len(slots)
      PROVE  LET t == slots[i].tx
                 u == Group[i]
             IN  /\ Legible(u)
                 /\ u.op = t.op /\ u.from = t.from /\ u.to = t.to /\ u.amt = t.amt
                 /\ raised = 0 => u.fee = t.fee
                 /\ u.auth = IF slots[i].mode = "sign" THEN t.auth ELSE ledger[t.from].auth
  <2> DEFINE t == slots[i].tx
             more == IF i = 1 THEN raised ELSE 0
             v == [t EXCEPT !.fee = @ + more]
             u == Group[i]
  <2>1. t \in Transactions /\ more \in Nat /\ (raised = 0 => more = 0)
    BY <1>1, <1>2 DEF TypeInv
  <2>2. u = IF slots[i].mode = "sign" THEN v ELSE [v EXCEPT !.auth = ledger[v.from].auth]
    BY <1>1 DEF Group
  <2> HIDE DEF t, u, more
  <2>3. /\ v.op = t.op /\ v.from = t.from /\ v.to = t.to /\ v.amt = t.amt /\ v.auth = t.auth
        /\ v.fee = t.fee + more /\ v.nonpart = t.nonpart
        /\ DOMAIN v = {"op", "from", "to", "amt", "fee", "nonpart", "auth"}
    BY <2>1 DEF Transactions
  <2>4. /\ t.from \in Accounts /\ t.to \in Accounts /\ t.amt \in Nat /\ t.fee \in Nat
        /\ t.nonpart \in BOOLEAN
    BY <2>1 DEF Transactions
  <2> HIDE DEF v
  <2>5. /\ u.op = t.op /\ u.from = t.from /\ u.to = t.to /\ u.amt = t.amt
        /\ u.fee = t.fee + more /\ u.nonpart = t.nonpart
        /\ u.auth = IF slots[i].mode = "sign" THEN t.auth ELSE ledger[t.from].auth
    <3>1. CASE slots[i].mode = "sign"
      BY <2>2, <2>3, <3>1
    <3>2. CASE slots[i].mode # "sign"
      BY <2>2, <2>3, <3>2
    <3> QED BY <3>1, <3>2
  <2>6. t.fee + more \in Nat /\ (raised = 0 => t.fee + more = t.fee)
    BY <2>1, <2>4
  <2>7. Legible(u)
    BY <2>4, <2>5, <2>6 DEF Legible
  <2> QED BY <2>5, <2>6, <2>7 DEF t, u
<1> QED BY <1>1, <1>3, <1>4

(* While the ledger stands still, each slot of this client holds what was checked. *)
LEMMA SlotFacts ==
  ASSUME SlotsInv, TypeInv, FreshInv, moves = 0, pc # "done",
         NEW i \in DOMAIN slots, slots[i].mode = "sign"
  PROVE  LET t == slots[i].tx
             from == ledger[t.from]
             to == ledger[t.to]
         IN  /\ t.auth = from.auth
             /\ t.op = "pay" => Available(from) >= t.amt + t.fee /\ slots[i].seen = Available(from)
             /\ t.op = "asa" => /\ OptedIn(from) /\ OptedIn(to) /\ from.asset >= t.amt
                                /\ slots[i].seen = from.asset
             /\ t.op = "optin" => ~OptedIn(from)
             /\ t.op = "optout" => OptedIn(from) /\ OptedIn(to)
             /\ t.op = "close" => ~OptedIn(from) /\ ~from.online /\ ~from.extras
<1> DEFINE item == req.items[i]
           t == slots[i].tx
           b == Build(item)
           from == ledger[item.from]
<1>1. item \in Items /\ slots[i].mode = item.mode
  <2>1. i \in DOMAIN req.items
    BY GroupFacts, RequestFacts DEF TypeInv, TypeOK
  <2> QED BY <2>1, RequestFacts DEF TypeInv, TypeOK
<1>2. /\ slots[i] = SlotOn(ledger, item)
      /\ item.mode = "sign" => Check(item, ledger[item.from], ledger[item.to])
  BY DEF FreshInv
<1>3. /\ b \in Transactions /\ b.op = item.op /\ b.from = item.from /\ b.fee = TxFee(item)
      /\ item.op \in {"pay", "asa", "optout", "close", "rekey"} => b.to = item.to
      /\ item.op \in {"pay", "asa"} => b.amt = item.amt
  BY <1>1, BuildFacts
<1>4. /\ t = [b EXCEPT !.auth = from.auth]
      /\ slots[i].seen = Seen(item, from)
      /\ Check(item, from, ledger[item.to])
  BY <1>1, <1>2 DEF SlotOn, Auth
<1> HIDE DEF t, b, item, from
<1>5. /\ t.op = item.op /\ t.from = item.from /\ t.fee = TxFee(item) /\ t.auth = from.auth
      /\ item.op \in {"pay", "asa", "optout", "close", "rekey"} => t.to = item.to
      /\ item.op \in {"pay", "asa"} => t.amt = item.amt
  BY <1>3, <1>4 DEF Transactions
<1>6. from = ledger[t.from]
  BY <1>5 DEF from
<1>7. /\ t.op = "pay" => Available(from) >= t.amt + t.fee /\ slots[i].seen = Available(from)
      /\ t.op = "asa" => /\ OptedIn(from) /\ OptedIn(ledger[t.to]) /\ from.asset >= t.amt
                         /\ slots[i].seen = from.asset
      /\ t.op = "optin" => ~OptedIn(from)
      /\ t.op = "optout" => OptedIn(from) /\ OptedIn(ledger[t.to])
      /\ t.op = "close" => ~OptedIn(from) /\ ~from.online /\ ~from.extras
  <2>1. CASE t.op = "pay"
    BY <1>4, <1>5, <2>1 DEF Check, PaymentCheck, Seen
  <2>2. CASE t.op = "asa"
    BY <1>4, <1>5, <2>2 DEF Check, AsaTransferCheck, Seen
  <2>3. CASE t.op = "optin"
    BY <1>4, <1>5, <2>3 DEF Check, OptInCheck
  <2>4. CASE t.op = "optout"
    BY <1>4, <1>5, <2>4 DEF Check, OptOutCheck
  <2>5. CASE t.op = "close"
    BY <1>4, <1>5, <2>5 DEF Check, CloseCheck
  <2> QED BY <2>1, <2>2, <2>3, <2>4, <2>5
<1> QED BY <1>5, <1>6, <1>7 DEF t

(* An authority refused was rekeyed by an earlier slot. *)
LEMMA AuthorityVerdict ==
  ASSUME SlotsInv, TypeInv, FreshInv, moves = 0, pc # "done",
         NEW v, v = Verdict(ledger, Group), v.why = "authority"
  PROVE  \E i \in 1..(v.at - 1) : /\ slots[i].tx.op = "rekey"
                                  /\ slots[i].tx.from = slots[v.at].tx.from
<1> DEFINE n == Len(slots)
           k == v.at
           st == States(ledger, Group)
           x == slots[k].tx.from
<1>1. /\ Len(Group) = n /\ n \in Nat /\ DOMAIN slots = 1..n
      /\ \A i \in 1..n : /\ Legible(Group[i])
                         /\ Group[i].op = slots[i].tx.op /\ Group[i].from = slots[i].tx.from
                         /\ Group[i].auth = IF slots[i].mode = "sign" THEN slots[i].tx.auth
                                            ELSE ledger[slots[i].tx.from].auth
  BY GroupFacts
<1>2. k \in 1..n /\ Refusal(st[k - 1], Group[k]) = "authority"
  BY <1>1, VerdictFacts
<1>3. Group[k].auth # st[k - 1][Group[k].from].auth
  BY <1>2, RefusalFacts
<1>4. x \in Accounts /\ Group[k].from = x /\ ledger \in Books
  BY <1>1, <1>2 DEF Legible, TypeInv
<1>5. Group[k].auth = ledger[x].auth
  <2>1. CASE slots[k].mode = "sign"
    BY <1>1, <1>2, <2>1, SlotFacts
  <2>2. CASE slots[k].mode # "sign"
    BY <1>1, <1>2, <2>2
  <2> QED BY <2>1, <2>2
<1>6. SUFFICES ASSUME ~ \E i \in 1..(k - 1) : slots[i].tx.op = "rekey" /\ slots[i].tx.from = x
               PROVE  FALSE
  OBVIOUS
<1>7. k - 1 \in 0..n /\ \A i \in 1..(k - 1) : i \in 1..n
  BY <1>1, <1>2
<1>8. \A i \in 1..(k - 1) : Group[i].op = "rekey" => Group[i].from # x
  BY <1>1, <1>6, <1>7
<1> HIDE DEF n, k, x
<1>9. st[k - 1][x].auth = ledger[x].auth
  BY <1>1, <1>4, <1>7, <1>8, AuthAlong
<1> QED BY <1>3, <1>4, <1>5, <1>9

(* In a group made by one prepare_ call every slot is this client's. *)
LEMMA OwnSlots ==
  ASSUME SlotsInv, TypeInv, req.shape # "party", NEW i \in DOMAIN slots
  PROVE  /\ slots[i].mode = "sign" /\ Len(slots) <= Len(req.items)
         /\ req.shape = "single" => Len(slots) = 1
         /\ req.shape = "payments" => slots[i].tx.op = "pay"
         /\ req.shape = "transfers" => slots[i].tx.op = "asa"
         /\ req.shape = "sweep" => slots[i].tx.op \in {"pay", "asa"}
         /\ req.shape = "pay_app" => slots[i].tx.op \in {"pay", "app"}
<1>1. Len(slots) \in Nat /\ DOMAIN slots = 1..Len(slots) /\ req \in Requests
  BY GroupFacts DEF TypeInv, TypeOK
<1>2. /\ Len(slots) <= Len(req.items)
      /\ slots[i].mode = req.items[i].mode /\ slots[i].tx.op = req.items[i].op
  BY DEF TypeInv, TypeOK
<1>3. i \in DOMAIN req.items /\ (req.shape = "single" => Len(slots) = 1)
  <2>1. /\ Len(req.items) \in Nat /\ DOMAIN req.items = 1..Len(req.items)
        /\ req.shape = "single" => Len(req.items) = 1
    BY <1>1, RequestFacts
  <2>2. i \in Nat /\ 1 <= i /\ i <= Len(slots)
    BY <1>1
  <2> DEFINE m == Len(req.items)
             n == Len(slots)
  <2>3. m \in Nat /\ n \in Nat /\ n <= m /\ i <= n
    BY <1>1, <1>2, <2>1, <2>2
  <2> HIDE DEF m, n
  <2>4. i \in 1..m /\ (m = 1 => n = 1)
    BY <2>2, <2>3
  <2> QED BY <2>1, <2>4 DEF m, n
<1>4. /\ req.items[i].mode = "sign"
      /\ req.shape = "payments" => req.items[i].op = "pay"
      /\ req.shape = "transfers" => req.items[i].op = "asa"
      /\ req.shape = "sweep" => req.items[i].op \in {"pay", "asa"}
      /\ req.shape = "pay_app" => req.items[i].op \in {"pay", "app"}
  BY <1>1, <1>3, RequestFacts
<1> QED BY <1>2, <1>3, <1>4

(* The costs of the slots are numbers. *)
LEMMA CostFacts ==
  ASSUME SlotsInv, TypeInv
  PROVE  \A i \in 1..Len(slots) : /\ Costs[i] = slots[i].tx.amt + slots[i].tx.fee /\ Costs[i] \in Nat
                                  /\ Amounts[i] = slots[i].tx.amt /\ Amounts[i] \in Nat
<1> SUFFICES ASSUME NEW i \in 1..Len(slots)
             PROVE  /\ Costs[i] = slots[i].tx.amt + slots[i].tx.fee /\ Costs[i] \in Nat
                    /\ Amounts[i] = slots[i].tx.amt /\ Amounts[i] \in Nat
  OBVIOUS
<1>1. i \in DOMAIN slots /\ slots[i].tx \in Transactions
  BY GroupFacts DEF TypeInv
<1>2. slots[i].tx.amt \in Nat /\ slots[i].tx.fee \in Nat
  BY <1>1 DEF Transactions
<1> QED BY <1>1, <1>2 DEF Costs, Amounts

(* What an account that only pays has paid up to each slot of an accepted group is *)
(* never more than it has available.                                              *)
LEMMA PaymentsBounded ==
  ASSUME SlotsInv, TypeInv, FreshInv, GroupAccepted, moves = 0, pc # "done", raised = 0,
         req.shape \in {"single", "payments", "sweep"},
         NEW k \in DOMAIN slots,
         \A i \in DOMAIN slots : slots[i].tx.from = slots[k].tx.from => slots[i].tx.op = "pay"
  PROVE  \E T : /\ Paid(T, Group, Len(slots), slots[k].tx.from)
                /\ \A i \in 0..Len(slots) : T[i] <= Available(ledger[slots[k].tx.from])
<1> DEFINE n == Len(slots)
           x == slots[k].tx.from
           S == SameSender(WithOp("pay"), k)
<1>1. /\ n \in Nat /\ DOMAIN slots = 1..n
      /\ \A i \in 1..n : /\ Group[i].from = slots[i].tx.from
                         /\ Group[i].amt = slots[i].tx.amt /\ Group[i].fee = slots[i].tx.fee
  BY GroupFacts
<1>2. /\ \A i \in 1..n : Costs[i] \in Nat
      /\ \A i \in 1..n : Costs[i] = Group[i].amt + Group[i].fee
  BY <1>1, CostFacts
<1>3. S = {i \in 1..n : slots[i].tx.from = x} /\ k \in S /\ k \in WithOp("pay")
  BY <1>1 DEF SameSender, WithOp
<1>4. \A i \in S : /\ slots[i].seen = Available(ledger[x])
                   /\ Available(ledger[x]) >= slots[i].tx.amt + slots[i].tx.fee
  BY <1>1, <1>3, OwnSlots, SlotFacts
<1>5. Available(ledger[x]) >= Total(Costs, S)
  <2>1. CASE req.shape \in {"payments", "sweep"}
    <3>1. LastSeen(WithOp("pay"), k) >= Total(Costs, S)
      BY <1>3, <2>1 DEF GroupAccepted, PaymentGroupCheck
    <3>2. S \in SUBSET (1..n) /\ S # {}
      BY <1>3
    <3>3. Max(S) \in S
      BY <1>1, <3>2, MaxFacts
    <3>4. LastSeen(WithOp("pay"), k) = Available(ledger[x])
      BY <1>4, <3>3 DEF LastSeen
    <3> QED BY <3>1, <3>4
  <2>2. CASE req.shape = "single"
    <3>1. n = 1 /\ k = 1
      BY <1>1, <2>2, OwnSlots
    <3>2. S = {1}
      BY <1>3, <3>1
    <3>3. Costs[1] \in Nat
      BY <1>2, <3>1
    <3>4. Total(Costs, {1}) = Costs[1]
      BY <3>3, TotalSingle
    <3>5. Total(Costs, S) = Costs[1]
      BY <3>2, <3>4
    <3>6. Costs[1] = slots[1].tx.amt + slots[1].tx.fee
      BY <1>1, <1>2, <3>1
    <3> QED BY <1>4, <3>2, <3>5, <3>6
  <2> QED BY <2>1, <2>2
<1>6. S \in SUBSET (1..n)
  BY <1>3
<1> HIDE DEF S, n
<1>7. PICK T \in [0..n -> Nat] :
        /\ T[0] = 0
        /\ \A i \in 1..n : T[i] = T[i - 1] + (IF i \in S THEN Costs[i] ELSE 0)
        /\ \A i \in 0..n : T[i] <= Total(Costs, S)
  <2>1. \A j \in 1..n : Costs[j] \in Nat
    BY <1>2
  <2> QED BY <1>1, <1>6, <2>1, RunningTotal
<1>8. Paid(T, Group, n, x)
  <2>1. ASSUME NEW i \in 1..n
        PROVE  T[i] = T[i - 1] + (IF Group[i].from = x THEN Group[i].amt + Group[i].fee ELSE 0)
    BY <1>1, <1>2, <1>3, <1>7
  <2> QED BY <1>7, <2>1 DEF Paid
<1>9. \A i \in 0..n : T[i] <= Available(ledger[x])
  <2>1. Total(Costs, S) \in Nat
    <3>0. n \in Int /\ 1 \in Int
      BY <1>1
    <3>1. IsFiniteSet(1..n)
      BY <3>0, FS_Interval, Zenon
    <3>2. \A y \in 1..n : Costs[y] \in Nat
      BY <1>2
    <3> QED BY <1>6, <3>1, <3>2, TotalType
  <2>2. Available(ledger[x]) \in Int
    <3>1. x \in Accounts /\ ledger \in Books
      BY <1>1 DEF TypeInv, Transactions
    <3> QED BY <3>1 DEF Available, MinBalance, Books
  <2> DEFINE c == Total(Costs, S)
             d == Available(ledger[x])
  <2>3. c \in Nat /\ d \in Int /\ d >= c /\ \A i \in 0..n : T[i] \in Nat /\ T[i] <= c
    BY <1>5, <1>7, <2>1, <2>2
  <2> HIDE DEF c, d
  <2>4. \A i \in 0..n : T[i] <= d
    BY <2>3
  <2> QED BY <2>4 DEF d
<1> QED BY <1>8, <1>9 DEF n

(* A payment accepted is not refused for its sender's funds. *)
LEMMA FundsVerdict ==
  ASSUME SlotsInv, TypeInv, FreshInv, GroupAccepted, moves = 0, pc # "done", raised = 0,
         NEW v, v = Verdict(ledger, Group), v.why \in {"overspend", "belowmin"},
         req.shape \in {"single", "payments", "sweep"},
         \A i \in DOMAIN slots : slots[i].tx.from = slots[v.at].tx.from => slots[i].tx.op = "pay"
  PROVE  FALSE
<1> DEFINE n == Len(slots)
           k == v.at
           st == States(ledger, Group)
           x == slots[k].tx.from
           t == Group[k]
<1>1. /\ Len(Group) = n /\ n \in Nat /\ DOMAIN slots = 1..n
      /\ \A i \in 1..n : /\ Legible(Group[i])
                         /\ Group[i].op = slots[i].tx.op /\ Group[i].from = slots[i].tx.from
                         /\ Group[i].to = slots[i].tx.to
  BY GroupFacts
<1>2. k \in 1..n /\ Refusal(st[k - 1], t) = v.why
  BY <1>1, VerdictFacts
<1>3. /\ x \in Accounts /\ t.from = x /\ t.op = "pay" /\ t.amt \in Nat /\ t.fee \in Nat
      /\ ledger \in Books /\ ledger[x].asset >= NoHolding
  <2>1. ledger \in Ledgers
    BY DEF FreshInv
  <2>2. ledger \in Books /\ \A a \in Accounts : ledger[a].asset >= NoHolding
    BY <2>1, PreparationAssumption
  <2> QED BY <1>1, <1>2, <2>2 DEF Legible
<1>4. Transfers(Group, n)
  <2>1. \A i \in 1..n : slots[i].tx.op \in {"pay", "asa"}
    <3>1. CASE req.shape = "single"
      <4>1. n = 1 /\ k = 1
        BY <1>1, <1>2, <3>1, OwnSlots
      <4> QED BY <1>1, <4>1
    <3>2. CASE req.shape # "single"
      BY <1>1, <3>2, OwnSlots
    <3> QED BY <3>1, <3>2
  <2> QED BY <1>1, <2>1 DEF Transfers
<1>5. PaysOnly(ledger, Group, n, x)
  <2> SUFFICES ASSUME NEW i \in 1..n
               PROVE  /\ Group[i].from = x => Group[i].op = "pay"
                      /\ Group[i].to = x /\ Group[i].op = "asa" => OptedIn(ledger[x])
    BY DEF PaysOnly
  <2>1. slots[i].mode = "sign"
    BY <1>1, OwnSlots
  <2>2. slots[i].tx.op = "asa" => OptedIn(ledger[slots[i].tx.to])
    BY <1>1, <2>1, SlotFacts
  <2> QED BY <1>1, <2>2
<1>6. PICK T : /\ Paid(T, Group, n, x)
               /\ \A i \in 0..n : T[i] <= Available(ledger[x])
  BY <1>1, <1>2, PaymentsBounded
<1>7. k - 1 \in 0..n /\ k \in 0..n
  BY <1>1, <1>2
<1> HIDE DEF st, t, k, x, n
<1>8. \A i \in 0..n : st[i][x].algo >= ledger[x].algo - T[i] /\ MinBalance(st[i][x]) = MinBalance(ledger[x])
  BY <1>3, <1>4, <1>5, <1>6, FundsAlong DEF st
<1>9. T[k] = T[k - 1] + (t.amt + t.fee) /\ T[k] \in Nat /\ T[k - 1] \in Nat
  BY <1>2, <1>3, <1>6, <1>7 DEF Paid, t
<1>10. /\ st[k] = Apply(st[k - 1], t)
       /\ st[k - 1] \in Books /\ st[k] \in Books
  <2>1. st[k] = Apply(st[k - 1], t)
    BY <1>1, <1>2, StatesFacts DEF st, t
  <2>2. \A i \in 0..n : st[i] \in Books
    BY <1>1, <1>3, StatesType DEF st
  <2> QED BY <1>7, <2>1, <2>2
<1>11. st[k - 1][x].algo \in Int /\ st[k][x].algo \in Int /\ ledger[x].algo \in Int
  BY <1>3, <1>10 DEF Books
<1>12. MinBalance(ledger[x]) \in Nat /\ MinBalance(ledger[x]) >= 1
  BY DEF MinBalance
<1>13. T[k] <= ledger[x].algo - MinBalance(ledger[x])
  BY <1>6, <1>7 DEF Available
<1>14. CASE v.why = "overspend"
  <2>1. st[k - 1][x].algo < t.fee + t.amt
    BY <1>2, <1>3, <1>14, RefusalFacts
  <2>2. st[k - 1][x].algo >= ledger[x].algo - T[k - 1]
    BY <1>7, <1>8
  <2> QED BY <1>3, <1>9, <1>11, <1>12, <1>13, <2>1, <2>2
<1>15. CASE v.why = "belowmin"
  <2>1. st[k][x].algo < MinBalance(st[k][x])
    BY <1>2, <1>3, <1>10, <1>15, RefusalFacts
  <2>2. st[k][x].algo >= ledger[x].algo - T[k] /\ MinBalance(st[k][x]) = MinBalance(ledger[x])
    BY <1>7, <1>8
  <2> QED BY <1>9, <1>11, <1>12, <1>13, <2>1, <2>2
<1> QED BY <1>14, <1>15

(* What an account has transferred up to each slot of an accepted group is never   *)
(* more than it holds, if it holds any.                                           *)
LEMMA TransfersBounded ==
  ASSUME SlotsInv, TypeInv, FreshInv, GroupAccepted, moves = 0, pc # "done",
         req.shape \in {"transfers", "sweep"},
         NEW x \in Accounts, ledger[x].asset >= 0
  PROVE  \E T : /\ Transferred(T, Group, Len(slots), x)
                /\ \A i \in 0..Len(slots) : T[i] <= ledger[x].asset
<1> DEFINE n == Len(slots)
           S == {i \in 1..n : slots[i].tx.op = "asa" /\ slots[i].tx.from = x}
<1>1. /\ n \in Nat /\ DOMAIN slots = 1..n
      /\ \A i \in 1..n : /\ Group[i].op = slots[i].tx.op /\ Group[i].from = slots[i].tx.from
                         /\ Group[i].amt = slots[i].tx.amt
  BY GroupFacts
<1>2. /\ \A i \in 1..n : Amounts[i] \in Nat
      /\ \A i \in 1..n : Amounts[i] = Group[i].amt
  BY <1>1, CostFacts
<1>3. ASSUME NEW k \in S
      PROVE  S = SameSender(WithOp("asa"), k) /\ k \in WithOp("asa")
  BY <1>1 DEF SameSender, WithOp
<1>4. \A i \in S : slots[i].seen = ledger[x].asset
  BY <1>1, OwnSlots, SlotFacts
<1>5. ledger[x].asset >= Total(Amounts, S)
  <2>1. CASE S = {}
    <3>1. Total(Amounts, {}) = 0
      <4> DEFINE U == {}
      <4>1. IsFiniteSet(U) /\ \A y \in U : Amounts[y] \in Nat
        BY FS_EmptySet
      <4> HIDE DEF U
      <4> QED BY <4>1, TotalFacts
    <3> QED BY <2>1, <3>1
  <2>2. CASE S # {}
    <3>1. PICK k \in S : TRUE
      BY <2>2
    <3>2. LastSeen(WithOp("asa"), k) >= Total(Amounts, S)
      BY <1>3, <3>1 DEF GroupAccepted, AsaGroupCheck
    <3>3. Max(S) \in S
      BY <1>1, <2>2, MaxFacts
    <3>4. LastSeen(WithOp("asa"), k) = ledger[x].asset
      BY <1>3, <1>4, <3>1, <3>3 DEF LastSeen
    <3> QED BY <3>2, <3>4
  <2> QED BY <2>1, <2>2
<1>6. S \in SUBSET (1..n)
  OBVIOUS
<1>10. \A i \in 1..n : i \in S <=> Group[i].op = "asa" /\ Group[i].from = x
  BY <1>1
<1> HIDE DEF S, n
<1>7. PICK T \in [0..n -> Nat] :
        /\ T[0] = 0
        /\ \A i \in 1..n : T[i] = T[i - 1] + (IF i \in S THEN Amounts[i] ELSE 0)
        /\ \A i \in 0..n : T[i] <= Total(Amounts, S)
  <2>1. \A j \in 1..n : Amounts[j] \in Nat
    BY <1>2
  <2> QED BY <1>1, <1>6, <2>1, RunningTotal
<1>8. Transferred(T, Group, n, x)
  <2>1. ASSUME NEW i \in 1..n
        PROVE  T[i] = T[i - 1] + (IF Group[i].op = "asa" /\ Group[i].from = x
                                  THEN Group[i].amt ELSE 0)
    BY <1>2, <1>7, <1>10
  <2> QED BY <1>7, <2>1 DEF Transferred
<1>9. \A i \in 0..n : T[i] <= ledger[x].asset
  <2>1. Total(Amounts, S) \in Nat
    <3>0. n \in Int /\ 1 \in Int
      BY <1>1
    <3>1. IsFiniteSet(1..n)
      BY <3>0, FS_Interval, Zenon
    <3>2. \A y \in 1..n : Amounts[y] \in Nat
      BY <1>2
    <3> QED BY <1>6, <3>1, <3>2, TotalType
  <2>2. ledger[x].asset \in Int
    BY DEF TypeInv, Books
  <2> DEFINE c == Total(Amounts, S)
             d == ledger[x].asset
  <2>3. c \in Nat /\ d \in Int /\ d >= c /\ \A i \in 0..n : T[i] \in Nat /\ T[i] <= c
    BY <1>5, <1>7, <2>1, <2>2
  <2> HIDE DEF c, d
  <2>4. \A i \in 0..n : T[i] <= d
    BY <2>3
  <2> QED BY <2>4 DEF d
<1> QED BY <1>8, <1>9 DEF n

(* Nothing that was accepted is refused for holdings or other uses. *)
LEMMA HoldingsVerdict ==
  ASSUME SlotsInv, TypeInv, FreshInv, GroupAccepted, moves = 0, pc # "done",
         NEW v, v = Verdict(ledger, Group), v.why \in {"holding", "inuse"},
         req.shape # "party"
  PROVE  FALSE
<1> DEFINE n == Len(slots)
           k == v.at
           st == States(ledger, Group)
           s == slots[k].tx
           t == Group[k]
<1>1. /\ Len(Group) = n /\ n \in Nat /\ DOMAIN slots = 1..n
      /\ \A i \in 1..n : /\ Legible(Group[i])
                         /\ Group[i].op = slots[i].tx.op /\ Group[i].from = slots[i].tx.from
                         /\ Group[i].to = slots[i].tx.to /\ Group[i].amt = slots[i].tx.amt
  BY GroupFacts
<1>2. k \in 1..n /\ Refusal(st[k - 1], t) = v.why
  BY <1>1, VerdictFacts
<1>3. /\ t.op = s.op /\ t.from = s.from /\ t.to = s.to /\ t.amt = s.amt
      /\ s.from \in Accounts /\ s.to \in Accounts /\ s.amt \in Nat
  BY <1>1, <1>2 DEF Legible
<1>4. slots[k].mode = "sign"
  BY <1>1, <1>2, OwnSlots
<1>5. /\ s.op = "asa" => /\ OptedIn(ledger[s.from]) /\ OptedIn(ledger[s.to])
                         /\ ledger[s.from].asset >= s.amt
      /\ s.op = "optin" => ~OptedIn(ledger[s.from])
      /\ s.op = "optout" => OptedIn(ledger[s.from]) /\ OptedIn(ledger[s.to])
      /\ s.op = "close" => ~OptedIn(ledger[s.from]) /\ ~ledger[s.from].online /\ ~ledger[s.from].extras
  BY <1>1, <1>2, <1>4, SlotFacts
<1>6. st[0] = ledger
  BY <1>1, StatesFacts
<1>7. req.shape \in {"single", "payments", "transfers", "sweep", "pay_app"}
  BY RequestFacts DEF SlotsInv
<1>8. \/ s.op = "asa" /\ (~OptedIn(st[k - 1][s.from]) \/ ~OptedIn(st[k - 1][s.to])
                            \/ st[k - 1][s.from].asset < s.amt)
      \/ s.op = "optin" /\ OptedIn(st[k - 1][s.from])
      \/ s.op = "optout" /\ (~OptedIn(st[k - 1][s.from]) \/ ~OptedIn(st[k - 1][s.to]))
      \/ s.op = "close" /\ (\/ OptedIn(st[k - 1][s.from]) \/ st[k - 1][s.from].extras
                            \/ st[k - 1][s.from].online)
  <2>1. CASE v.why = "holding"
    BY <1>2, <1>3, <2>1, RefusalFacts
  <2>2. CASE v.why = "inuse"
    BY <1>2, <1>3, <2>2, RefusalFacts
  <2> QED BY <2>1, <2>2
<1>9. CASE req.shape = "single"
  <2>1. k - 1 = 0
    BY <1>1, <1>2, <1>9, OwnSlots
  <2> HIDE DEF k, s, st
  <2>2. st[k - 1] = ledger
    BY <1>6, <2>1
  <2>3. s.op = "asa" => ~(ledger[s.from].asset < s.amt)
    <3>1. ledger[s.from].asset \in Int
      BY <1>3 DEF TypeInv, Books
    <3> QED BY <1>3, <1>5, <3>1
  <2> QED BY <1>5, <1>8, <2>2, <2>3
<1>10. CASE req.shape \in {"payments", "pay_app"}
  <2>1. s.op \in {"pay", "app"}
    BY <1>1, <1>2, <1>10, OwnSlots
  <2> HIDE DEF s, st
  <2> QED BY <1>8, <2>1
<1>11. CASE req.shape \in {"transfers", "sweep"}
  <2>1. \A i \in 1..n : slots[i].tx.op \in {"pay", "asa"}
    BY <1>1, <1>11, OwnSlots
  <2>2. Transfers(Group, n)
    BY <1>1, <2>1 DEF Transfers
  <2>3. s.op = "asa"
    BY <1>2, <1>8, <2>1
  <2>4. ledger \in Books /\ \A a \in Accounts : ledger[a].asset >= NoHolding
    <3>1. ledger \in Ledgers
      BY DEF FreshInv
    <3> QED BY <3>1, PreparationAssumption
  <2>5. k - 1 \in 0..n /\ k \in 0..n
    BY <1>1, <1>2
  <2> HIDE DEF s, st, k, n, t
  <2>6. ASSUME NEW x \in Accounts, OptedIn(ledger[x])
        PROVE  \E T : /\ Transferred(T, Group, n, x)
                      /\ \A i \in 0..n : T[i] <= ledger[x].asset
                      /\ \A i \in 0..n : st[i][x].asset >= ledger[x].asset - T[i]
                      /\ ledger[x].asset \in Int /\ st[k - 1][x].asset \in Int
    <3>1. ledger[x].asset \in Int /\ ledger[x].asset >= 0
      BY <2>4, <2>6 DEF Books, OptedIn, NoHolding
    <3>2. PICK T : Transferred(T, Group, n, x) /\ \A i \in 0..n : T[i] <= ledger[x].asset
      BY <1>11, <3>1, TransfersBounded DEF n
    <3>3. \A i \in 0..n : st[i][x].asset >= ledger[x].asset - T[i]
      BY <2>2, <2>4, <3>2, HoldingsAlong DEF st
    <3>4. st[k - 1] \in Books
      BY <1>1, <2>4, <2>5, StatesType DEF st
    <3>5. st[k - 1][x].asset \in Int
      BY <3>4 DEF Books
    <3> QED BY <3>1, <3>2, <3>3, <3>5
  <2>7. ASSUME NEW x \in Accounts, OptedIn(ledger[x]) PROVE OptedIn(st[k - 1][x])
    <3>1. PICK T : /\ Transferred(T, Group, n, x)
                   /\ \A i \in 0..n : T[i] <= ledger[x].asset
                   /\ \A i \in 0..n : st[i][x].asset >= ledger[x].asset - T[i]
                   /\ ledger[x].asset \in Int /\ st[k - 1][x].asset \in Int
      BY <2>6, <2>7
    <3>2. T[k - 1] \in Nat
      BY <2>5, <3>1 DEF Transferred
    <3>3. st[k - 1][x].asset >= 0
      BY <2>5, <3>1, <3>2
    <3> QED BY <3>1, <3>3 DEF OptedIn, NoHolding
  <2>8. ~(st[k - 1][s.from].asset < s.amt)
    <3> DEFINE x == s.from
    <3>1. x \in Accounts /\ OptedIn(ledger[x])
      BY <1>3, <1>5, <2>3
    <3>2. PICK T : /\ Transferred(T, Group, n, x)
                   /\ \A i \in 0..n : T[i] <= ledger[x].asset
                   /\ \A i \in 0..n : st[i][x].asset >= ledger[x].asset - T[i]
                   /\ ledger[x].asset \in Int /\ st[k - 1][x].asset \in Int
      BY <2>6, <3>1
    <3>3. T[k] = T[k - 1] + s.amt /\ T[k] \in Nat /\ T[k - 1] \in Nat
      BY <1>2, <1>3, <2>3, <2>5, <3>2 DEF Transferred, t
    <3>4. T[k] <= ledger[x].asset /\ st[k - 1][x].asset >= ledger[x].asset - T[k - 1]
      BY <2>5, <3>2
    <3> HIDE DEF x
    <3>5. ~(st[k - 1][x].asset < s.amt)
      BY <1>3, <3>2, <3>3, <3>4
    <3> QED BY <3>5 DEF x
  <2> QED BY <1>3, <1>5, <1>8, <2>3, <2>7, <2>8
<1> QED BY <1>7, <1>9, <1>10, <1>11

-----------------------------------------------------------------------------
(* LedgerInv is inductive, given IInv.                                      *)

(* Before there is a verdict the properties about it hold. *)
LEMMA NoVerdictYet ==
  ASSUME verdict = NoVerdict
  PROVE  FundsCovered /\ HoldingsCovered /\ AuthorityCurrent
BY DEF NoVerdict, FundsCovered, HoldingsCovered, AuthorityCurrent

(* The initial states. *)
LEMMA InitLedger == Init => LedgerInv
<1> SUFFICES ASSUME Init PROVE LedgerInv
  OBVIOUS
<1>1. Len(slots) = 0 /\ DOMAIN slots = {} /\ DOMAIN sent = {}
  BY EmptySeq DEF Init
<1>2. ledger \in Books
  BY PreparationAssumption DEF Init
<1>3. TypeOK
  <2>1. Len(slots) <= Len(req.items)
    BY <1>1, RequestFacts DEF Init
  <2>2. DOMAIN ledger = Accounts
    BY <1>2 DEF Books
  <2>3. moves \in 0..MaxMoves /\ raised \in 0..1
    BY PreparationAssumption DEF Init
  <2> QED BY <1>1, <2>1, <2>2, <2>3 DEF Init, TypeOK
<1>4. TypeInv
  BY <1>1, <1>2, <1>3 DEF Init, TypeInv
<1>5. FreshInv /\ AcceptedInv
  BY <1>1 DEF Init, FreshInv, AcceptedInv
<1> QED BY <1>4, <1>5, NoVerdictYet DEF Init, LedgerInv

(* The call fails: the slots stay, and nothing is said of a call that is over. *)
LEMMA FailsLedger ==
  ASSUME IInv, LedgerInv, Fails, pc # "done", UNCHANGED <<ledger, keys, moves>>,
         cache' \in KeySets \union {<<>>}, labelled' \in BOOLEAN, raced' \in BOOLEAN
  PROVE  LedgerInv'
<1>1. pc' = "done" /\ UNCHANGED <<req, slots, info, path, sent, raised, verdict>>
  BY DEF Fails
<1>2. verdict' = NoVerdict
  BY <1>1 DEF IInv, SentInv
<1>3. TypeOK'
  BY <1>1 DEF LedgerInv, TypeInv, TypeOK
<1>4. TypeInv' /\ FreshInv' /\ AcceptedInv'
  BY <1>1, <1>3 DEF LedgerInv, TypeInv, FreshInv, AcceptedInv
<1>5. FundsCovered' /\ HoldingsCovered' /\ AuthorityCurrent'
  BY <1>2 DEF NoVerdict, FundsCovered, HoldingsCovered, AuthorityCurrent
<1> QED BY <1>4, <1>5 DEF LedgerInv

(* A slot is taken: the item's, prepared on the ledger as it is unless that moved. *)
LEMMA TakesLedger ==
  ASSUME IInv, LedgerInv, NEW slot, Takes(slot), pc \in {"read", "resolve", "target"},
         UNCHANGED <<ledger, keys, moves>>,
         cache' \in KeySets \union {<<>>}, labelled' \in BOOLEAN, raced' \in BOOLEAN,
         slot.tx \in Transactions, slot.mode = Item.mode,
         slot.tx.op = Item.op, slot.tx.from = Item.from,
         moves = 0 => /\ slot = SlotOn(ledger, Item)
                      /\ Item.mode = "sign" => Check(Item, ledger[Item.from], ledger[Item.to])
  PROVE  LedgerInv'
<1> DEFINE n == Len(slots)
<1>1. /\ slots' = Append(slots, slot) /\ UNCHANGED <<req, info, path, sent, raised, verdict>>
      /\ pc' = IF n + 1 < Len(req.items) THEN "read" ELSE "group"
  BY DEF Takes
<1>2. PICK S : slots \in Seq(S)
  BY DEF IInv, SlotsInv
<1>3. /\ Len(slots') = n + 1
      /\ DOMAIN slots = 1..n /\ n \in Nat
      /\ DOMAIN slots' = 1..(n + 1)
      /\ \A i \in 1..n : slots'[i] = slots[i]
      /\ slots'[n + 1] = slot
  BY <1>1, <1>2, AppendFacts
<1>4. n + 1 <= Len(req.items) /\ Item = req.items[n + 1]
  <2>1. n + 1 \in DOMAIN req.items
    BY ItemFacts DEF IInv
  <2> QED BY <2>1, RequestFacts DEF IInv, SlotsInv, Item
<1>5. verdict' = NoVerdict
  BY <1>1 DEF IInv, SentInv
<1>6. pc' \in {"read", "group"}
  BY <1>1
<1> HIDE DEF n
<1>7. \A i \in DOMAIN slots' : i \in 1..n \/ i = n + 1
  BY <1>3
<1>8. ASSUME NEW i \in DOMAIN slots'
      PROVE  /\ slots'[i].mode = req'.items[i].mode
             /\ slots'[i].tx.op = req'.items[i].op
             /\ slots'[i].tx.from = req'.items[i].from
             /\ slots'[i].tx \in Transactions
  <2>1. CASE i \in 1..n
    BY <1>1, <1>3, <2>1 DEF LedgerInv, TypeInv, TypeOK
  <2>2. CASE i = n + 1
    BY <1>1, <1>3, <1>4, <2>2
  <2> QED BY <1>7, <2>1, <2>2
<1>9. TypeOK'
  BY <1>1, <1>3, <1>4, <1>6, <1>8 DEF LedgerInv, TypeInv, TypeOK
<1>10. TypeInv'
  BY <1>6, <1>8, <1>9 DEF LedgerInv, TypeInv
<1>11. FreshInv'
  <2> SUFFICES ASSUME moves' = 0
               PROVE  /\ ledger' \in Ledgers
                      /\ \A i \in DOMAIN slots' :
                           LET item == req'.items[i]
                           IN  /\ slots'[i] = SlotOn(ledger', item)
                               /\ item.mode = "sign" =>
                                    Check(item, ledger'[item.from], ledger'[item.to])
    BY <1>6 DEF FreshInv
  <2>1. moves = 0 /\ pc # "done"
    OBVIOUS
  <2>2. ledger' \in Ledgers
    BY <2>1 DEF LedgerInv, FreshInv
  <2>3. ASSUME NEW i \in DOMAIN slots'
        PROVE  LET item == req.items[i]
               IN  /\ slots'[i] = SlotOn(ledger, item)
                   /\ item.mode = "sign" => Check(item, ledger[item.from], ledger[item.to])
    <3>1. CASE i \in 1..n
      BY <1>3, <2>1, <3>1 DEF LedgerInv, FreshInv
    <3>2. CASE i = n + 1
      BY <1>3, <1>4, <2>1, <3>2
    <3> QED BY <1>7, <3>1, <3>2
  <2>4. ledger' = ledger /\ req' = req
    BY <1>1
  <2> QED BY <2>2, <2>3, <2>4
<1>12. AcceptedInv'
  BY <1>6 DEF AcceptedInv
<1>13. FundsCovered' /\ HoldingsCovered' /\ AuthorityCurrent'
  BY <1>5 DEF NoVerdict, FundsCovered, HoldingsCovered, AuthorityCurrent
<1> QED BY <1>10, <1>11, <1>12, <1>13 DEF LedgerInv

(* The slot that the item in hand becomes. *)
LEMMA PreparedFacts ==
  ASSUME IInv, LedgerInv, pc \in {"resolve", "target"}
  PROVE  /\ Prepared.tx \in Transactions /\ Prepared.mode = Item.mode
         /\ Prepared.tx.op = Item.op /\ Prepared.tx.from = Item.from
         /\ moves = 0 => /\ Prepared = SlotOn(ledger, Item)
                         /\ Check(Item, ledger[Item.from], ledger[Item.to])
<1>1. /\ Item \in Items /\ Prepared.tx.op = Item.op /\ Prepared.tx.from = Item.from
  BY ItemFacts DEF IInv
<1>2. info.auth \in Accounts /\ Item.mode = "sign"
  BY DEF LedgerInv, TypeInv
<1> DEFINE b == Build(Item)
<1>3. b \in Transactions
  BY <1>1, BuildFacts
<1>4. Prepared.tx = [b EXCEPT !.auth = info.auth] /\ Prepared.mode = "sign"
  BY DEF Prepared, Auth
<1> HIDE DEF b
<1>5. Prepared.tx \in Transactions
  BY <1>2, <1>3, <1>4 DEF Transactions
<1>6. moves = 0 => /\ info = ledger[Item.from]
                   /\ Check(Item, ledger[Item.from], ledger[Item.to])
  BY DEF LedgerInv, FreshInv
<1>7. moves = 0 => Prepared = SlotOn(ledger, Item)
  BY <1>2, <1>6 DEF Prepared, SlotOn
<1> QED BY <1>1, <1>2, <1>4, <1>5, <1>6, <1>7

(* The slots and the ledger stay. *)
LEMMA LedgerStays ==
  ASSUME IInv, LedgerInv, pc # "done", verdict' = verdict,
         UNCHANGED <<ledger, moves, req, slots>>,
         TypeOK', AcceptedInv', pc' \notin {"check", "resolve", "target", "done"}
  PROVE  LedgerInv'
<1>1. TypeInv'
  BY DEF LedgerInv, TypeInv
<1>2. FreshInv'
  BY DEF LedgerInv, FreshInv
<1>3. verdict' = NoVerdict
  BY DEF IInv, SentInv
<1>4. FundsCovered' /\ HoldingsCovered' /\ AuthorityCurrent'
  BY <1>3 DEF NoVerdict, FundsCovered, HoldingsCovered, AuthorityCurrent
<1> QED BY <1>1, <1>2, <1>4 DEF LedgerInv

(* The ledger's verdict on the group. *)
LEMMA VerdictGiven ==
  ASSUME IInv, LedgerInv, pc \in {"send", "simulate"}, pc' = "done",
         verdict' = Verdict(ledger, Group), UNCHANGED <<req, slots, raised, moves>>,
         TypeOK', ledger' \in Books
  PROVE  LedgerInv'
<1>0. /\ SlotsInv /\ TypeInv /\ FreshInv /\ GroupAccepted
      /\ moves \in Nat /\ raised \in Nat
  <2>1. moves \in 0..MaxMoves /\ raised \in 0..1
    BY DEF LedgerInv, TypeInv, TypeOK
  <2> QED BY <2>1 DEF IInv, LedgerInv, AcceptedInv
<1>1. TypeInv'
  BY DEF LedgerInv, TypeInv
<1>2. FreshInv' /\ AcceptedInv'
  BY DEF FreshInv, AcceptedInv
<1> DEFINE v == Verdict(ledger, Group)
<1>3. AuthorityCurrent'
  <2>1. SUFFICES ASSUME v.why = "authority", ~(moves > 0)
                 PROVE  \E i \in 1..(v.at - 1) : /\ slots[i].tx.op = "rekey"
                                                 /\ slots[i].tx.from = slots[v.at].tx.from
    BY DEF AuthorityCurrent, Refused
  <2>2. moves = 0
    BY <1>0, <2>1
  <2> QED BY <1>0, <2>1, <2>2, AuthorityVerdict
<1>4. FundsCovered'
  <2>1. SUFFICES ASSUME v.why \in {"overspend", "belowmin"},
                        req.shape \in {"single", "payments", "sweep"},
                        \A i \in DOMAIN slots :
                          slots[i].tx.from = slots[v.at].tx.from => slots[i].tx.op = "pay",
                        ~(moves > 0), ~(raised > 0)
                 PROVE  FALSE
    BY DEF FundsCovered, Refused
  <2>2. moves = 0 /\ raised = 0
    BY <1>0, <2>1
  <2> QED BY <1>0, <2>1, <2>2, FundsVerdict
<1>5. HoldingsCovered'
  <2>1. SUFFICES ASSUME v.why \in {"holding", "inuse"}, req.shape # "party", ~(moves > 0)
                 PROVE  FALSE
    BY DEF HoldingsCovered
  <2>2. moves = 0
    BY <1>0, <2>1
  <2> QED BY <1>0, <2>1, <2>2, HoldingsVerdict
<1> QED BY <1>1, <1>2, <1>3, <1>4, <1>5 DEF LedgerInv

(* A group is executed as a whole or not at all. *)
LEMMA ExecuteType ==
  ASSUME IInv, LedgerInv
  PROVE  Execute(ledger, Group) \in Books
<1>1. ledger \in Books /\ Len(Group) \in Nat /\ \A i \in 1..Len(Group) : Legible(Group[i])
  BY GroupFacts DEF IInv, LedgerInv, TypeInv
<1>2. States(ledger, Group)[Len(Group)] \in Books
  BY <1>1, StatesType
<1> QED BY <1>1, <1>2 DEF Execute

(* Every step. *)
LEMMA StepLedger ==
  ASSUME IInv, LedgerInv, [Next]_vars
  PROVE  LedgerInv'
<1> USE DEF jobVars, cacheVars
<1>0. /\ pc # "done" => verdict = NoVerdict
      /\ keys \in KeySets /\ cache \in KeySets \union {<<>>}
      /\ labelled \in BOOLEAN /\ raced \in BOOLEAN
      /\ raised \in 0..1 /\ TypeOK /\ ledger \in Books /\ SlotsInv
  BY DEF IInv, SentInv, LedgerInv, TypeInv, TypeOK
<1>1. CASE ReadSender
  <2>0. pc = "read" /\ UNCHANGED <<ledger, keys, cacheVars, moves, raced>> /\ Item.mode = "sign"
    BY <1>1 DEF ReadSender
  <2>1. CASE Fails
    BY <1>0, <2>0, <2>1, FailsLedger
  <2>2. CASE /\ info' = ledger[Item.from] /\ pc' = "check"
             /\ UNCHANGED <<req, slots, path, sent, raised, verdict>>
    <3>1. TypeOK'
      BY <1>0, <2>0, <2>2 DEF TypeOK
    <3>2. info'.auth \in Accounts /\ Item' = Item
      <4>1. Item.from \in Accounts
        BY <1>0, <2>0, ItemFacts DEF Items
      <4> QED BY <1>0, <2>2, <4>1 DEF Books, Item
    <3>3. TypeInv'
      BY <1>0, <2>0, <2>2, <3>1, <3>2 DEF LedgerInv, TypeInv
    <3>4. FreshInv'
      BY <2>0, <2>2, <3>2 DEF LedgerInv, FreshInv
    <3>5. FundsCovered' /\ HoldingsCovered' /\ AuthorityCurrent'
      BY <1>0, <2>0, <2>2 DEF NoVerdict, FundsCovered, HoldingsCovered, AuthorityCurrent
    <3> QED BY <2>2, <3>3, <3>4, <3>5 DEF LedgerInv, AcceptedInv
  <2> QED BY <1>1, <2>1, <2>2 DEF ReadSender
<1>2. CASE TakeOther
  <2> DEFINE slot == [tx |-> Build(Item), seen |-> 0, mode |-> Item.mode]
  <2>1. /\ pc = "read" /\ Item.mode # "sign" /\ Takes(slot)
        /\ UNCHANGED <<ledger, keys, cacheVars, moves, raced>>
    BY <1>2 DEF TakeOther
  <2>2. Item \in Items
    BY <1>0, <2>1, ItemFacts
  <2>3. /\ slot.tx \in Transactions /\ slot.mode = Item.mode
        /\ slot.tx.op = Item.op /\ slot.tx.from = Item.from
    BY <2>2, BuildFacts
  <2>4. slot = SlotOn(ledger, Item)
    BY <2>1 DEF SlotOn
  <2> HIDE DEF slot
  <2> QED BY <1>0, <2>1, <2>3, <2>4, TakesLedger
<1>3. CASE CheckItem
  <2>0. pc = "check" /\ UNCHANGED <<ledger, keys, cacheVars, moves, raced>>
    BY <1>3 DEF CheckItem
  <2>1. CASE Fails
    BY <1>0, <2>0, <2>1, FailsLedger
  <2>2. CASE /\ Check(Item, info, ledger[Item.to]) /\ pc' = "resolve"
             /\ UNCHANGED <<req, slots, info, path, sent, raised, verdict>>
    <3>1. TypeOK' /\ Item' = Item
      BY <1>0, <2>0, <2>2 DEF TypeOK, Item
    <3>2. TypeInv'
      BY <1>0, <2>0, <2>2, <3>1 DEF LedgerInv, TypeInv
    <3>3. FreshInv'
      BY <2>0, <2>2, <3>1 DEF LedgerInv, FreshInv
    <3>4. FundsCovered' /\ HoldingsCovered' /\ AuthorityCurrent'
      BY <1>0, <2>0, <2>2 DEF NoVerdict, FundsCovered, HoldingsCovered, AuthorityCurrent
    <3> QED BY <2>2, <3>2, <3>3, <3>4 DEF LedgerInv, AcceptedInv
  <2> QED BY <1>3, <2>1, <2>2 DEF CheckItem
<1>4. CASE Resolve
  <2>0. pc = "resolve" /\ UNCHANGED <<ledger, keys, moves>>
    BY <1>4 DEF Resolve
  <2>1. CASE Fails /\ UNCHANGED <<cacheVars, raced>>
    BY <1>0, <2>0, <2>1, FailsLedger
  <2>2. CASE ListKeysIfKeysetChanged
    <3>0. raced' \in BOOLEAN /\ labelled' \in BOOLEAN /\ cache' \in KeySets \union {<<>>}
      BY <1>0, <2>0, <2>2 DEF ListKeysIfKeysetChanged
    <3>1. CASE Fails
      BY <1>0, <2>0, <3>0, <3>1, FailsLedger
    <3>2. CASE pc' = "target" /\ UNCHANGED <<req, slots, info, path, sent, raised, verdict>>
      <4>1. TypeOK' /\ Item' = Item
        BY <1>0, <2>0, <3>0, <3>2 DEF TypeOK, Item
      <4>2. TypeInv'
        BY <1>0, <2>0, <3>2, <4>1 DEF LedgerInv, TypeInv
      <4>3. FreshInv'
        BY <2>0, <3>2, <4>1 DEF LedgerInv, FreshInv
      <4>4. FundsCovered' /\ HoldingsCovered' /\ AuthorityCurrent'
        BY <1>0, <2>0, <3>2 DEF NoVerdict, FundsCovered, HoldingsCovered, AuthorityCurrent
      <4> QED BY <3>2, <4>2, <4>3, <4>4 DEF LedgerInv, AcceptedInv
    <3>3. CASE Takes(Prepared)
      BY <2>0, <3>0, <3>3, TakesLedger, PreparedFacts
    <3> QED BY <1>4, <2>1, <3>1, <3>2, <3>3 DEF Resolve
  <2> QED BY <1>4, <2>1, <2>2 DEF Resolve
<1>5. CASE RekeyTarget
  <2>0. pc = "target" /\ UNCHANGED <<ledger, keys, cacheVars, moves, raced>>
    BY <1>5 DEF RekeyTarget
  <2>1. CASE Fails
    BY <1>0, <2>0, <2>1, FailsLedger
  <2>2. CASE Takes(Prepared)
    BY <1>0, <2>0, <2>2, TakesLedger, PreparedFacts
  <2> QED BY <1>5, <2>1, <2>2 DEF RekeyTarget
<1>6. CASE GroupCheck
  <2>0. pc = "group" /\ UNCHANGED <<ledger, keys, cacheVars, moves, raced>>
    BY <1>6 DEF GroupCheck
  <2>1. CASE Fails
    BY <1>0, <2>0, <2>1, FailsLedger
  <2>2. CASE /\ GroupAccepted /\ pc' = "finish"
             /\ UNCHANGED <<req, slots, info, path, sent, raised, verdict>>
    <3>1. TypeOK'
      BY <1>0, <2>0, <2>2 DEF TypeOK
    <3>2. AcceptedInv'
      BY <2>2 DEF AcceptedInv, GroupAccepted, PaymentGroupCheck, AsaGroupCheck, WithOp,
                  SameSender, LastSeen, Costs, Amounts
    <3> QED BY <2>0, <2>2, <3>1, <3>2, LedgerStays
  <2> QED BY <1>6, <2>1, <2>2 DEF GroupCheck
<1>7. CASE Sign
  <2>0. pc = "finish" /\ UNCHANGED <<ledger, keys, cacheVars, moves, raced>>
    BY <1>7 DEF Sign
  <2>1. CASE Fails
    BY <1>0, <2>0, <2>1, FailsLedger
  <2>2. CASE /\ path' \in {"list", "prepared", "simulate"} /\ pc' = "answer"
             /\ UNCHANGED <<req, slots, info, sent, raised, verdict>>
    <3>1. TypeOK'
      BY <1>0, <2>0, <2>2 DEF TypeOK
    <3>2. AcceptedInv'
      BY <2>0, <2>2 DEF LedgerInv, AcceptedInv, GroupAccepted, PaymentGroupCheck, AsaGroupCheck,
                  WithOp, SameSender, LastSeen, Costs, Amounts
    <3> QED BY <2>0, <2>2, <3>1, <3>2, LedgerStays
  <2> QED BY <1>7, <2>1, <2>2 DEF Sign
<1>8. CASE Signed
  <2>0. pc = "answer" /\ UNCHANGED <<ledger, keys, cacheVars, moves, raced>>
    BY <1>8 DEF Signed
  <2>1. CASE Fails
    BY <1>0, <2>0, <2>1, FailsLedger
  <2>2. CASE ~Fails
    <3>1. /\ \E signed \in Answers :
               sent' = [i \in DOMAIN signed |-> IF signed[i] THEN {"mine"} ELSE {}]
          /\ raised' \in 0..1 /\ pc' \in {"simulate", "merge", "send"}
          /\ UNCHANGED <<req, slots, info, path, verdict>>
      BY <1>8, <2>2 DEF Signed
    <3>2. \A i \in DOMAIN sent' : sent'[i] \subseteq {"mine", "theirs"}
      BY <3>1
    <3>3. TypeOK'
      BY <1>0, <2>0, <3>1, <3>2 DEF TypeOK
    <3>4. AcceptedInv'
      BY <2>0, <3>1 DEF LedgerInv, AcceptedInv, GroupAccepted, PaymentGroupCheck, AsaGroupCheck,
                  WithOp, SameSender, LastSeen, Costs, Amounts
    <3> QED BY <2>0, <3>1, <3>3, <3>4, LedgerStays
  <2> QED BY <2>1, <2>2
<1>9. CASE SignFails
  BY <1>0, <1>9, FailsLedger DEF SignFails
<1>10. CASE AssembleGroup
  <2>0. pc = "merge" /\ UNCHANGED <<ledger, keys, cacheVars, moves, raced>>
    BY <1>10 DEF AssembleGroup
  <2>1. CASE Fails
    BY <1>0, <2>0, <2>1, FailsLedger
  <2>2. CASE ~Fails
    <3>1. /\ \E theirs \in Answers :
               sent' = [i \in DOMAIN sent |-> sent[i] \union (IF theirs[i] THEN {"theirs"} ELSE {})]
          /\ pc' = "send"
          /\ UNCHANGED <<req, slots, info, path, raised, verdict>>
      BY <1>10, <2>2 DEF AssembleGroup
    <3>2. \A i \in DOMAIN sent' : sent'[i] \subseteq {"mine", "theirs"}
      BY <1>0, <3>1 DEF TypeOK
    <3>3. TypeOK'
      BY <1>0, <2>0, <3>1, <3>2 DEF TypeOK
    <3>4. AcceptedInv'
      BY <2>0, <3>1 DEF LedgerInv, AcceptedInv, GroupAccepted, PaymentGroupCheck, AsaGroupCheck,
                  WithOp, SameSender, LastSeen, Costs, Amounts
    <3> QED BY <2>0, <3>1, <3>3, <3>4, LedgerStays
  <2> QED BY <2>1, <2>2
<1>11. CASE Send
  <2>1. /\ pc = "send" /\ pc' = "done" /\ verdict' = Verdict(ledger, Group)
        /\ ledger' = Execute(ledger, Group)
        /\ UNCHANGED <<keys, cacheVars, req, slots, info, path, sent, raised, moves, raced>>
    BY <1>11 DEF Send
  <2>2. ledger' \in Books
    BY <2>1, ExecuteType
  <2>3. DOMAIN ledger' = Accounts
    BY <2>2 DEF Books
  <2>4. TypeOK'
    BY <1>0, <2>1, <2>3 DEF TypeOK
  <2> QED BY <2>1, <2>2, <2>4, VerdictGiven
<1>12. CASE Simulate
  <2>0. pc = "simulate" /\ UNCHANGED <<ledger, keys, cacheVars, moves, raced>>
    BY <1>12 DEF Simulate
  <2>1. CASE Fails
    BY <1>0, <2>0, <2>1, FailsLedger
  <2>2. CASE /\ pc' = "done" /\ verdict' = Verdict(ledger, Group)
             /\ UNCHANGED <<req, slots, info, path, sent, raised>>
    <3>1. TypeOK'
      BY <1>0, <2>0, <2>2 DEF TypeOK
    <3> QED BY <1>0, <2>0, <2>2, <3>1, VerdictGiven
  <2> QED BY <1>12, <2>1, <2>2 DEF Simulate
<1>13. CASE LedgerMoves
  <2>1. /\ pc # "done" /\ moves < MaxMoves /\ moves' = moves + 1
        /\ UNCHANGED <<keys, cacheVars, pc, req, slots, info, path, sent, raised, verdict, raced>>
    BY <1>13 DEF LedgerMoves
  <2>2. PICK t \in Moves : ledger' = Apply(ledger, [t EXCEPT !.auth = ledger[t.from].auth])
    BY <1>13 DEF LedgerMoves
  <2>3. Legible([t EXCEPT !.auth = ledger[t.from].auth])
    BY PreparationAssumption DEF Legible, Transactions
  <2>4. ledger' \in Books
    BY <1>0, <2>2, <2>3, ApplyType
  <2>5. DOMAIN ledger' = Accounts /\ moves \in Nat /\ moves' \in 0..MaxMoves /\ moves' # 0
    <3>1. DOMAIN ledger' = Accounts
      BY <2>4 DEF Books
    <3>2. moves \in 0..MaxMoves /\ MaxMoves \in Nat
      BY <1>0, PreparationAssumption DEF TypeOK
    <3> QED BY <2>1, <3>1, <3>2
  <2>6. TypeOK' /\ Item' = Item
    BY <1>0, <2>1, <2>5 DEF TypeOK, Item
  <2>7. TypeInv' /\ FreshInv'
    BY <2>1, <2>4, <2>5, <2>6 DEF LedgerInv, TypeInv, FreshInv
  <2>8. AcceptedInv'
    BY <2>1 DEF LedgerInv, AcceptedInv, GroupAccepted, PaymentGroupCheck, AsaGroupCheck,
                WithOp, SameSender, LastSeen, Costs, Amounts
  <2>9. FundsCovered' /\ HoldingsCovered' /\ AuthorityCurrent'
    BY <1>0, <2>1 DEF NoVerdict, FundsCovered, HoldingsCovered, AuthorityCurrent
  <2> QED BY <2>7, <2>8, <2>9 DEF LedgerInv
<1>14. CASE KeysMove \/ CacheCleared \/ CacheMislabelled
  <2>1. /\ UNCHANGED <<ledger, pc, req, slots, info, path, sent, raised, verdict, moves>>
        /\ raced' = TRUE /\ keys' \in KeySets /\ cache' \in KeySets \union {<<>>} /\ labelled' \in BOOLEAN
        /\ pc \in {"read", "check", "resolve", "target"}
    BY <1>0, <1>14 DEF KeysMove, CacheCleared, CacheMislabelled, Preparing
  <2>2. TypeOK' /\ Item' = Item
    BY <1>0, <2>1 DEF TypeOK, Item
  <2>3. TypeInv' /\ FreshInv' /\ AcceptedInv'
    BY <2>1, <2>2 DEF LedgerInv, TypeInv, FreshInv, AcceptedInv
  <2>4. FundsCovered' /\ HoldingsCovered' /\ AuthorityCurrent'
    BY <1>0, <2>1 DEF NoVerdict, FundsCovered, HoldingsCovered, AuthorityCurrent
  <2> QED BY <2>3, <2>4 DEF LedgerInv
<1>15. CASE UNCHANGED vars
  <2>1. /\ UNCHANGED <<ledger, keys, cacheVars, pc, req, slots, info, path, sent, raised,
                       verdict, moves, raced>>
    BY <1>15 DEF vars
  <2>2. TypeOK' /\ Item' = Item
    BY <1>0, <2>1 DEF TypeOK, Item
  <2>3. TypeInv' /\ FreshInv'
    BY <2>1, <2>2 DEF LedgerInv, TypeInv, FreshInv
  <2>4. AcceptedInv'
    BY <2>1 DEF LedgerInv, AcceptedInv, GroupAccepted, PaymentGroupCheck, AsaGroupCheck,
                WithOp, SameSender, LastSeen, Costs, Amounts
  <2>5. FundsCovered' /\ HoldingsCovered' /\ AuthorityCurrent'
    BY <2>1 DEF LedgerInv, FundsCovered, HoldingsCovered, AuthorityCurrent, Refused
  <2> QED BY <2>3, <2>4, <2>5 DEF LedgerInv
<1> QED BY <1>1, <1>2, <1>3, <1>4, <1>5, <1>6, <1>7, <1>8, <1>9, <1>10, <1>11, <1>12,
           <1>13, <1>14, <1>15 DEF Next

(* LedgerInv is an invariant of the specification. *)
THEOREM LedgerTheorem == Spec => []LedgerInv
BY InitLedger, StepLedger, InvariantTheorem, PTL DEF Spec

(* The variables keep their types, and slots are prepared one for one in the order   *)
(* asked for, whatever requests, ledgers and inventories there are.                  *)
THEOREM TypeTheorem == Spec => []TypeOK
<1>1. LedgerInv => TypeOK
  BY DEF LedgerInv, TypeInv
<1> QED BY <1>1, LedgerTheorem, PTL

(* However many payments a sender makes in a group, and whatever else the group       *)
(* holds, one that passed the preflight checks is not refused for its sender's        *)
(* funds, unless the ledger moved or the signer added to the fees                     *)
(* (prepare_payment, _validate_payment_group, prepare_sweep_group).                   *)
THEOREM FundsTheorem == Spec => []FundsCovered
<1>1. LedgerInv => FundsCovered
  BY DEF LedgerInv
<1> QED BY <1>1, LedgerTheorem, PTL

(* Nor is a transfer, opt-in, opt-out or close refused for the holdings or uses of    *)
(* its accounts (_validate_asa_transfer_group, _asa_opt_in_checks,                    *)
(* _asa_opt_out_checks, _account_close_checks).                                       *)
THEOREM HoldingsTheorem == Spec => []HoldingsCovered
<1>1. LedgerInv => HoldingsCovered
  BY DEF LedgerInv
<1> QED BY <1>1, LedgerTheorem, PTL

(* A slot is refused for its authority only if the ledger moved, or the group rekeys  *)
(* the slot's sender before it (resolve_auth_address).                                *)
THEOREM AuthorityTheorem == Spec => []AuthorityCurrent
<1>1. LedgerInv => AuthorityCurrent
  BY DEF LedgerInv
<1> QED BY <1>1, LedgerTheorem, PTL
=============================================================================
