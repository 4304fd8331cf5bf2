---------------------------- MODULE Preparation ----------------------------
(***************************************************************************)
(* From an intent to the ledger (Python): a thread prepares the slots of a *)
(* group one after the other, each from what algod and the signer answer   *)
(* at that moment, checks the group, has it signed, merges it with another *)
(* party's slots and submits or simulates it.  Meanwhile other programs    *)
(* use the accounts, the signer's keys change, and other threads of this   *)
(* client invalidate the key cache they share.                             *)
(*                                                                         *)
(* The chain, the signer and the other party are external.  How threads    *)
(* fill and label the key cache is KeyCache's subject: here the cache is   *)
(* used as it is found, mislabelled or not.                                *)
(***************************************************************************)
EXTENDS Ledger, SignEntries

CONSTANTS Requests, \* the groups a caller may ask for
          Ledgers,  \* the ledgers it may find
          KeySets,  \* the signer's inventories: functions address -> flow
          Moves,    \* transactions of other programs
          NoFee,    \* no fee given
          MinFee,   \* the fee of a transaction then
          MaxMoves  \* bound: how often the ledger moves on by itself

(* What a key of the signer is: one that spends by itself or with a cosigner      *)
(* ("plain"), a rotating account, one of a flow this SDK does not know, or a key  *)
(* that is no spending account, such as a cosigner's witness key.                 *)
Flows == {"plain", "rotating", "unknown", "witness"}

Ops == {"pay", "asa", "optin", "optout", "close", "rekey", "keyreg", "app", "deploy"}

(* An item of a group: what is asked for, and how the slot is given. *)
Items ==
  [op : Ops, from : Accounts, to : Accounts, amt : Nat, fee : Nat \union {NoFee},
   mode : SlotModes, nonpart : BOOLEAN, first : Nat, last : Nat]

Transactions ==
  [op : Ops, from : Accounts, to : Accounts, amt : Nat, fee : Nat, nonpart : BOOLEAN,
   auth : Accounts]

(* The operations each prepare_ call makes a group of.  A single slot may be any, *)
(* and so may the slots of a group that a caller puts together ("party").        *)
ShapeOps ==
  [single |-> Ops, payments |-> {"pay"}, transfers |-> {"asa"}, sweep |-> {"asa", "pay"},
   pay_app |-> {"pay", "app"}, party |-> Ops]

ASSUME PreparationAssumption ==
  /\ NoFee \notin Nat
  /\ MinFee \in Nat
  /\ MaxMoves \in Nat
  /\ \A r \in Requests :
       /\ r.shape \in DOMAIN ShapeOps
       /\ Len(r.items) \in Nat \ {0} /\ DOMAIN r.items = 1..Len(r.items)
       /\ r.shape = "single" => Len(r.items) = 1
       /\ \A i \in DOMAIN r.items : /\ r.items[i] \in Items
                                    /\ r.items[i].op \in ShapeOps[r.shape]
                                    /\ r.shape # "party" => r.items[i].mode = "sign"
  /\ \A K \in KeySets : DOMAIN K \subseteq Accounts /\ \A a \in DOMAIN K : K[a] \in Flows
  /\ \A L \in Ledgers : L \in Books /\ \A a \in Accounts : L[a].asset >= NoHolding
  /\ Moves \subseteq Transactions

VARIABLES
  ledger,  \* the accounts
  keys,    \* the signer's inventory
  cache,   \* _key_cache
  labelled, \* whether _key_cache_revision is the signer's revision
  pc,      \* where the thread is
  req,     \* the group asked for: its shape, and its items
  slots,   \* the slots prepared so far
  info,    \* account_info of the current sender
  path,    \* how the group is finished
  sent,    \* for each slot, the parties that signed it
  raised,  \* what the signer added to the fee of the first slot
  verdict, \* what the ledger said, and where
  moves,   \* how often the ledger has moved on
  raced    \* the inventory was disturbed since the first slot's resolution (history)

jobVars == <<req, slots, info, path>>
cacheVars == <<cache, labelled>>
vars == <<ledger, keys, cacheVars, pc, jobVars, sent, raised, verdict, moves, raced>>

NoVerdict == [why |-> "none", at |-> 0]

Init ==
  /\ ledger \in Ledgers
  /\ keys \in KeySets
  /\ cache = <<>>
  /\ labelled = FALSE
  /\ pc = "read"
  /\ req \in Requests
  /\ slots = <<>>
  /\ info = [a \in {} |-> 0]
  /\ path = "none"
  /\ sent = <<>>
  /\ raised = 0
  /\ verdict = NoVerdict
  /\ moves = 0
  /\ raced = FALSE

-----------------------------------------------------------------------------
(* The pieces of one prepare_ call.                                         *)

(* The item to be prepared next. *)
Item == req.items[Len(slots) + 1]

(* _apply_prep_fee: a fee given is flat.  Else the transaction gets the        *)
(* minimum, but params.fee, which some checks look at, is 0.                   *)
TxFee(item) == IF item.fee = NoFee THEN MinFee ELSE item.fee
ParamFee(item) == IF item.fee = NoFee THEN 0 ELSE item.fee

(* The checks on the arguments, _validate_keyreg_params included. *)
ArgsValid(item) ==
  /\ item.op \in {"optout", "close"} => item.from # item.to
  /\ item.op = "keyreg" => item.nonpart \/ (item.first > 0 /\ item.first <= item.last)

Available(acct) == acct.algo - MinBalance(acct)

(* prepare_payment *)
PaymentCheck(item, from) == Available(from) >= item.amt + TxFee(item)

(* prepare_asa_transfer *)
AsaTransferCheck(item, from, to) ==
  OptedIn(from) /\ from.asset >= item.amt /\ OptedIn(to)

(* _asa_opt_in_checks *)
OptInCheck(item, from) == ~OptedIn(from) /\ from.algo >= ParamFee(item)

(* _asa_opt_out_checks *)
OptOutCheck(from, to) == OptedIn(from) /\ OptedIn(to)

(* _account_close_checks *)
CloseCheck(item, from) ==
  ~from.online /\ ~OptedIn(from) /\ ~from.extras /\ from.algo >= ParamFee(item)

(* _rekey_checks: the target is not itself rekeyed; an account rekeyed to is    *)
(* looked up unless it is the sender.                                          *)
RekeyCheck(item, to) == item.to = item.from \/ to.auth = item.to

(* What each operation checks, on the sender as read before and the second       *)
(* account as it is now.  Key registration and app calls check nothing more.    *)
Check(item, from, to) ==
  CASE item.op = "pay"    -> PaymentCheck(item, from)
    [] item.op = "asa"    -> AsaTransferCheck(item, from, to)
    [] item.op = "optin"  -> OptInCheck(item, from)
    [] item.op = "optout" -> OptOutCheck(from, to)
    [] item.op = "close"  -> CloseCheck(item, from)
    [] item.op = "rekey"  -> RekeyCheck(item, to)
    [] item.op \in {"keyreg", "app", "deploy"} -> TRUE

(* What the group checks go by later: PreparedCheck's available and balance. *)
Seen(item, from) == IF item.op = "asa" THEN from.asset ELSE Available(from)

(* Bug: the account's own key, rekeyed or not. *)
AuthOwn(item, from) == item.from

(* _extract_auth_address, resolve_auth_address *)
Auth(item, from) == from.auth

(* The transaction each operation builds.  to is the account it pays, closes or  *)
(* rekeys to, and the sender itself where there is none.                         *)
Tx(item, to, amt) ==
  [op |-> item.op, from |-> item.from, to |-> to, amt |-> amt,
   fee |-> TxFee(item), nonpart |-> FALSE, auth |-> item.from]

PaymentTx(item)     == Tx(item, item.to, item.amt)
AsaTransferTx(item) == Tx(item, item.to, item.amt)
OptInTx(item)       == Tx(item, item.from, 0)
OptOutTx(item)      == Tx(item, item.to, 0)
CloseTx(item)       == Tx(item, item.to, 0)
RekeyTx(item)       == Tx(item, item.to, 0)
KeyregTx(item)      == [Tx(item, item.from, 0) EXCEPT !.nonpart = item.nonpart]
AppCallTx(item)     == Tx(item, item.from, 0)
AppDeployTx(item)   == Tx(item, item.from, 0)

Build(item) ==
  CASE item.op = "pay"    -> PaymentTx(item)
    [] item.op = "asa"    -> AsaTransferTx(item)
    [] item.op = "optin"  -> OptInTx(item)
    [] item.op = "optout" -> OptOutTx(item)
    [] item.op = "close"  -> CloseTx(item)
    [] item.op = "rekey"  -> RekeyTx(item)
    [] item.op = "keyreg" -> KeyregTx(item)
    [] item.op = "app"    -> AppCallTx(item)
    [] item.op = "deploy" -> AppDeployTx(item)

(* _find_spendable_key *)
Spendable(K, a) == a \in DOMAIN K /\ K[a] # "witness"

(* A key's signing_flow; a witness key has none, like a plain one. *)
SigningFlow(key) == IF key = "witness" THEN "plain" ELSE key

(* _rekey_target_flow_check: flows that can authorize another account.  Whether    *)
(* the key is a spending account is not looked at.                                *)
FlowAuthorizes(flow) == flow = "plain"

-----------------------------------------------------------------------------
(* An exception ends the call. *)
Fails ==
  /\ pc' = "done"
  /\ UNCHANGED <<req, slots, info, path, sent, raised, verdict>>

(* Bug: a slot goes in front of those before it. *)
TakesFirst(slot) ==
  /\ slots' = <<slot>> \o slots
  /\ pc' = IF Len(slots) + 1 < Len(req.items) THEN "read" ELSE "group"
  /\ UNCHANGED <<req, info, path, sent, raised, verdict>>

(* A slot is ready: the next one, or the group. *)
Takes(slot) ==
  /\ slots' = Append(slots, slot)
  /\ pc' = IF Len(slots) + 1 < Len(req.items) THEN "read" ELSE "group"
  /\ UNCHANGED <<req, info, path, sent, raised, verdict>>

(* suggested_params and account_info of the sender; algod may fail. *)
ReadSender ==
  /\ pc = "read"
  /\ Item.mode = "sign"
  /\ \/ /\ ArgsValid(Item)
        /\ info' = ledger[Item.from]
        /\ pc' = "check"
        /\ UNCHANGED <<req, slots, path, sent, raised, verdict>>
     \/ Fails
  /\ UNCHANGED <<ledger, keys, cacheVars, moves, raced>>

(* A slot of another party: the caller puts it in as it is. *)
TakeOther ==
  /\ pc = "read"
  /\ Item.mode # "sign"
  /\ Takes([tx |-> Build(Item), seen |-> 0, mode |-> Item.mode])
  /\ UNCHANGED <<ledger, keys, cacheVars, moves, raced>>

(* account_info of the second account, where there is one, and the checks. *)
CheckItem ==
  /\ pc = "check"
  /\ \/ /\ Check(Item, info, ledger[Item.to])
        /\ pc' = "resolve"
        /\ UNCHANGED <<jobVars, sent, raised, verdict>>
     \/ Fails
  /\ UNCHANGED <<ledger, keys, cacheVars, moves, raced>>

(* The cache answers for a resolution. *)
CacheAnswers == cache # <<>> /\ labelled

Prepared == [tx |-> [Build(Item) EXCEPT !.auth = Auth(Item, info)], seen |-> Seen(Item, info), mode |-> "sign"]

(* list_keys_if_keyset_changed: the cache if it is labelled with the revision that  *)
(* /status tells, whoever put the label on, or else what the signer has now.       *)
ListKeysIfKeysetChanged ==
  IF CacheAnswers
  THEN UNCHANGED <<cacheVars, raced>>
  ELSE /\ cache' = keys
       /\ labelled' = TRUE
       /\ raced' = (raced /\ slots # <<>>)

(* Bug: the target of a rekey is not looked at. *)
ResolveNoTarget ==
  /\ pc = "resolve"
  /\ ListKeysIfKeysetChanged
  /\ IF Spendable(cache', Auth(Item, info)) THEN Takes(Prepared) ELSE Fails
  /\ UNCHANGED <<ledger, keys, moves>>

(* resolve_auth_address: the inventory must hold a spendable key.  A rekey then   *)
(* looks at its target.                                                          *)
Resolve ==
  /\ pc = "resolve"
  /\ \/ /\ ListKeysIfKeysetChanged
        /\ IF ~Spendable(cache', Auth(Item, info)) THEN Fails
           ELSE IF Item.op = "rekey" /\ Item.to # Item.from
                THEN pc' = "target" /\ UNCHANGED <<jobVars, sent, raised, verdict>>
                ELSE Takes(Prepared)
     \/ Fails /\ UNCHANGED <<cacheVars, raced>>
  /\ UNCHANGED <<ledger, keys, moves>>

(* The end of prepare_rekey: the target's flow, if the cache has the target. *)
RekeyTarget ==
  /\ pc = "target"
  /\ IF Item.to \in DOMAIN cache /\ ~FlowAuthorizes(SigningFlow(cache[Item.to]))
     THEN Fails
     ELSE Takes(Prepared)
  /\ UNCHANGED <<ledger, keys, cacheVars, moves, raced>>

-----------------------------------------------------------------------------
(* The group checks.                                                        *)

WithOp(op) == {i \in DOMAIN slots : slots[i].tx.op = op}

(* The slots of one sender among S, and the last figure read for it. *)
SameSender(S, i) == {j \in S : slots[j].tx.from = slots[i].tx.from}
LastSeen(S, i) == slots[Max(SameSender(S, i))].seen

(* What each slot costs its sender, in all and of the asset. *)
Costs   == [i \in DOMAIN slots |-> slots[i].tx.amt + slots[i].tx.fee]
Amounts == [i \in DOMAIN slots |-> slots[i].tx.amt]

(* Bug: every payment is looked at by itself. *)
PaymentGroupEach(S) ==
  \A i \in S : LastSeen(S, i) >= slots[i].tx.amt + slots[i].tx.fee

(* _validate_payment_group: what a sender pays in all. *)
PaymentGroupCheck(S) == \A i \in S : LastSeen(S, i) >= Total(Costs, SameSender(S, i))

(* Bug: every transfer is looked at by itself. *)
AsaGroupEach(S) == \A i \in S : LastSeen(S, i) >= slots[i].tx.amt

(* _validate_asa_transfer_group: what a sender transfers in all; fees are not    *)
(* looked at.                                                                   *)
AsaGroupCheck(S) == \A i \in S : LastSeen(S, i) >= Total(Amounts, SameSender(S, i))

(* prepare_payment_group, prepare_asa_transfer_group, prepare_sweep_group; a      *)
(* payment with an app call, a single slot and a group the caller put together   *)
(* have no check of their own.                                                   *)
GroupAccepted ==
  /\ req.shape \in {"payments", "sweep"} => PaymentGroupCheck(WithOp("pay"))
  /\ req.shape \in {"transfers", "sweep"} => AsaGroupCheck(WithOp("asa"))

GroupCheck ==
  /\ pc = "group"
  /\ IF GroupAccepted
     THEN pc' = "finish" /\ UNCHANGED <<jobVars, sent, raised, verdict>>
     ELSE Fails
  /\ UNCHANGED <<ledger, keys, cacheVars, moves, raced>>

-----------------------------------------------------------------------------
(* Signing.                                                                 *)

Modes == [i \in DOMAIN slots |-> slots[i].mode]

(* sign_transactions_list ("list"), sign_requests of the group's                *)
(* to_sign_requests ("prepared"), simulate_prepared_group ("simulate").         *)
Sign ==
  /\ pc = "finish"
  /\ \E way \in {"list", "prepared", "simulate"} :
       IF EntriesValid(Modes) /\ (way = "list" => BodyValid(Modes))
       THEN /\ path' = way
            /\ pc' = "answer"
            /\ UNCHANGED <<req, slots, info, sent, raised, verdict>>
       ELSE Fails
  /\ UNCHANGED <<ledger, keys, cacheVars, moves, raced>>

(* The answers /sign may give, truthful or not: a list as long as the group, or   *)
(* one shorter or longer (a dummy).                                              *)
Answers == UNION {[1..n -> BOOLEAN] : n \in (Len(slots) - 1)..(Len(slots) + 1)}

(* An answer is taken.  What went out with a foreign slot needs the other          *)
(* party's signatures; a simulation wants the group complete.                     *)
Signed ==
  /\ pc = "answer"
  /\ \E signed \in Answers, more \in 0..1 :
       /\ more > 0 => Slots(Modes, "passthrough") = {}
       /\ IF AnswerValid(Modes, signed) /\ (path # "prepared" => Complete(signed))
          THEN /\ sent' = [i \in DOMAIN signed |-> IF signed[i] THEN {"mine"} ELSE {}]
               /\ raised' = more
               /\ pc' = IF path = "simulate" THEN "simulate"
                        ELSE IF Slots(Modes, "foreign") # {} THEN "merge" ELSE "send"
               /\ UNCHANGED <<jobVars, verdict>>
          ELSE Fails
  /\ UNCHANGED <<ledger, keys, cacheVars, moves, raced>>

(* The signer refuses, the operator does, or there is no answer. *)
SignFails ==
  /\ pc = "answer"
  /\ Fails
  /\ UNCHANGED <<ledger, keys, cacheVars, moves, raced>>

(* assemble_group with whatever list the other party has handed over. *)
AssembleGroup ==
  /\ pc = "merge"
  /\ \E theirs \in Answers :
       IF Merges([i \in DOMAIN sent |-> sent[i] # {}], theirs)
       THEN /\ sent' = [i \in DOMAIN sent |-> sent[i] \union (IF theirs[i] THEN {"theirs"} ELSE {})]
            /\ pc' = "send"
            /\ UNCHANGED <<jobVars, raised, verdict>>
       ELSE Fails
  /\ UNCHANGED <<ledger, keys, cacheVars, moves, raced>>

-----------------------------------------------------------------------------
(* The transactions as the ledger gets them: the first slot pays what the         *)
(* signer added; the other party has signed with its own authority.              *)
Group ==
  [i \in DOMAIN slots |->
     LET t == [slots[i].tx EXCEPT !.fee = @ + (IF i = 1 THEN raised ELSE 0)]
     IN  IF slots[i].mode = "sign" THEN t ELSE [t EXCEPT !.auth = ledger[t.from].auth]]

(* send_raw_transaction *)
Send ==
  /\ pc = "send"
  /\ verdict' = Verdict(ledger, Group)
  /\ ledger' = Execute(ledger, Group)
  /\ pc' = "done"
  /\ UNCHANGED <<keys, cacheVars, jobVars, sent, raised, moves, raced>>

(* _simulate_signed_group, with a trace or, if algod does not take that, without. *)
Simulate ==
  /\ pc = "simulate"
  /\ \/ /\ verdict' = Verdict(ledger, Group)
        /\ pc' = "done"
        /\ UNCHANGED <<jobVars, sent, raised>>
     \/ Fails
  /\ UNCHANGED <<ledger, keys, cacheVars, moves, raced>>

-----------------------------------------------------------------------------
(* Another program's transaction is executed. *)
LedgerMoves ==
  /\ pc # "done"
  /\ moves < MaxMoves
  /\ \E t \in Moves :
       LET u == [t EXCEPT !.auth = ledger[t.from].auth]
       IN  Refusal(ledger, u) = "ok" /\ ledger' = Apply(ledger, u)
  /\ moves' = moves + 1
  /\ UNCHANGED <<keys, cacheVars, pc, jobVars, sent, raised, verdict, raced>>

(* The inventory is read while slots are prepared and not afterwards. *)
Preparing == pc \in {"read", "check", "resolve", "target"}

(* Keys are generated, deleted or rotated at the signer, which then has another   *)
(* revision.  One change stands for several.                                     *)
KeysMove ==
  /\ Preparing
  /\ raced = FALSE
  /\ keys' \in KeySets \ {keys}
  /\ labelled' = FALSE
  /\ raced' = TRUE
  /\ UNCHANGED <<ledger, cache, pc, jobVars, sent, raised, verdict, moves>>

(* Another thread of this client generates or deletes a key, or refreshes the    *)
(* inventory, which clears the cache first.                                     *)
CacheCleared ==
  /\ Preparing
  /\ cache # <<>>
  /\ cache' = <<>>
  /\ labelled' = FALSE
  /\ raced' = TRUE
  /\ UNCHANGED <<ledger, keys, pc, jobVars, sent, raised, verdict, moves>>

(* Another thread's refresh was overtaken between its answer and its label: an    *)
(* older inventory is in the cache under the signer's revision, and stays there   *)
(* until that changes (KeyCache, FreshUnlessRaced).  Once stands for often.       *)
CacheMislabelled ==
  /\ Preparing
  /\ raced = FALSE
  /\ cache' \in KeySets \ {keys}
  /\ labelled' = TRUE
  /\ raced' = TRUE
  /\ UNCHANGED <<ledger, keys, pc, jobVars, sent, raised, verdict, moves>>

Next ==
  \/ ReadSender \/ TakeOther \/ CheckItem \/ Resolve \/ RekeyTarget \/ GroupCheck
  \/ Sign \/ Signed \/ SignFails \/ AssembleGroup \/ Send \/ Simulate
  \/ LedgerMoves \/ KeysMove \/ CacheCleared \/ CacheMislabelled

Spec == Init /\ [][Next]_vars

-----------------------------------------------------------------------------
(* The types, and slots are prepared one for one, in the order asked for. *)
TypeOK ==
  /\ DOMAIN ledger = Accounts
  /\ keys \in KeySets
  /\ cache \in KeySets \union {<<>>}
  /\ labelled \in BOOLEAN
  /\ pc \in {"read", "check", "resolve", "target", "group", "finish", "answer",
             "merge", "send", "simulate", "done"}
  /\ req \in Requests
  /\ Len(slots) <= Len(req.items)
  /\ \A i \in DOMAIN slots : /\ slots[i].mode = req.items[i].mode
                             /\ slots[i].tx.op = req.items[i].op
                             /\ slots[i].tx.from = req.items[i].from
  /\ path \in {"none", "list", "prepared", "simulate"}
  /\ \A i \in DOMAIN sent : sent[i] \subseteq {"mine", "theirs"}
  /\ raised \in 0..1
  /\ moves \in 0..MaxMoves
  /\ raced \in BOOLEAN

(* The slot the ledger refused. *)
Refused == slots[verdict.at].tx

(* A payment that passed the preflight checks, alone or in a group of            *)
(* payments, is not refused for its sender's funds, unless another program used  *)
(* the ledger or the signer added to the fees.  In a sweep that holds for        *)
(* senders that transfer no asset: the payments' check ignores those fees        *)
(* (prepare_payment, _validate_payment_group, prepare_sweep_group).              *)
FundsCovered ==
  (/\ verdict.why \in {"overspend", "belowmin"}
   /\ req.shape \in {"single", "payments", "sweep"}
   /\ \A i \in DOMAIN slots : slots[i].tx.from = Refused.from => slots[i].tx.op = "pay")
     => moves > 0 \/ raised > 0

(* A transfer, opt-in, opt-out or close that passed is not refused for the        *)
(* holdings or other uses of its accounts, in a group of transfers as a whole     *)
(* neither, unless another program used the ledger (_validate_asa_transfer_group, *)
(* _asa_opt_in_checks, _asa_opt_out_checks, _account_close_checks).               *)
HoldingsCovered ==
  verdict.why \in {"holding", "inuse"} /\ req.shape # "party" => moves > 0

(* A slot is signed with the address the ledger wants, unless another program used  *)
(* the ledger meanwhile, or the group itself rekeys that sender before: each slot   *)
(* is resolved by itself (resolve_auth_address).                                   *)
AuthorityCurrent ==
  verdict.why = "authority" =>
    \/ moves > 0
    \/ \E i \in 1..(verdict.at - 1) : slots[i].tx.op = "rekey" /\ slots[i].tx.from = Refused.from

(* What a key must be to authorize another account: a spending account of a flow  *)
(* the SDK can sign with.                                                         *)
CanAuthorize(key) == key = "plain"

(* No rekey is prepared to a key of this signer that could not authorize the      *)
(* account, with two exceptions: the inventory moved, or another thread cleared   *)
(* or mislabelled the cache, while the group was prepared; or the target is a     *)
(* witness key, which the documentation rules out as a target and prepare_rekey   *)
(* does not look for (prepare_rekey, _rekey_target_flow_check).                   *)
RekeyTargetUsable ==
  \A i \in DOMAIN slots :
    LET t == slots[i].tx
    IN  (/\ slots[i].mode = "sign"
         /\ t.op = "rekey" /\ t.to # t.from
         /\ t.to \in DOMAIN keys /\ ~CanAuthorize(keys[t.to]))
           => raced \/ keys[t.to] = "witness"

(* Whatever the signer and the other party answer, what reaches the ledger has     *)
(* every slot of the group signed, each by exactly one party                      *)
(* (_validate_group_sign_response, _sign_request, assemble_group).                *)
SentComplete ==
  verdict # NoVerdict =>
    \A i \in DOMAIN slots : i \in DOMAIN sent /\ Cardinality(sent[i]) = 1

-----------------------------------------------------------------------------
(* The inductive invariants: first the one behind the last two properties.  *)

(* Slots are a sequence, one for each item so far; while a slot is being         *)
(* prepared an item is left.                                                    *)
SlotsInv ==
  /\ req \in Requests
  /\ \E T : slots \in Seq(T)
  /\ pc \in {"read", "check", "resolve", "target"} => Len(slots) < Len(req.items)

(* Undisturbed, a cache with the right label is the inventory, and so is the one   *)
(* a target is judged by.                                                         *)
TargetInv ==
  /\ raced \in BOOLEAN
  /\ raced = FALSE /\ (CacheAnswers \/ pc = "target") => cache = keys

(* Where the parties' signatures are from the answer on. *)
SentInv ==
  /\ verdict # NoVerdict => pc = "done"
  /\ pc \in {"answer", "merge"} => slots # <<>>
  /\ pc = "merge" => /\ \E n \in Nat : DOMAIN sent = 1..n
                     /\ DOMAIN slots \subseteq DOMAIN sent
                     /\ \A i \in DOMAIN sent : sent[i] \in {{}, {"mine"}}
  /\ pc \in {"send", "simulate"} \/ verdict # NoVerdict =>
       \A i \in DOMAIN slots : i \in DOMAIN sent /\ Cardinality(sent[i]) = 1

IInv == SlotsInv /\ TargetInv /\ SentInv /\ RekeyTargetUsable

(* The types in full.  A slot being prepared is one this client signs. *)
TypeInv ==
  /\ TypeOK
  /\ ledger \in Books
  /\ \A i \in DOMAIN slots : slots[i].tx \in Transactions
  /\ pc \in {"check", "resolve", "target"} => info.auth \in Accounts /\ Item.mode = "sign"

(* The slot an item becomes when it is prepared on ledger L. *)
SlotOn(L, item) ==
  IF item.mode = "sign"
  THEN [tx |-> [Build(item) EXCEPT !.auth = Auth(item, L[item.from])],
        seen |-> Seen(item, L[item.from]), mode |-> "sign"]
  ELSE [tx |-> Build(item), seen |-> 0, mode |-> item.mode]

(* As long as the ledger has not moved, all slots were prepared, and passed their  *)
(* checks, on the ledger as it is.                                                *)
FreshInv ==
  moves = 0 /\ pc # "done" =>
    /\ ledger \in Ledgers
    /\ pc \in {"check", "resolve", "target"} => info = ledger[Item.from]
    /\ pc \in {"resolve", "target"} => Check(Item, info, ledger[Item.to])
    /\ \A i \in DOMAIN slots :
         LET item == req.items[i]
         IN  /\ slots[i] = SlotOn(ledger, item)
             /\ item.mode = "sign" => Check(item, ledger[item.from], ledger[item.to])

(* From the group's checks on, they held. *)
AcceptedInv ==
  pc \in {"finish", "answer", "merge", "send", "simulate"} => GroupAccepted

LedgerInv ==
  /\ TypeInv /\ FreshInv /\ AcceptedInv
  /\ FundsCovered /\ HoldingsCovered /\ AuthorityCurrent
=============================================================================
