------------------------------- MODULE Ledger -------------------------------
(***************************************************************************)
(* The Algorand ledger as algod shows it: accounts, and what executing a   *)
(* group of transactions does to them.  External: only what the SDK's      *)
(* preflight checks speak about is kept.  Balances are in units of the     *)
(* minimum fee; there is one asset.                                        *)
(***************************************************************************)
EXTENDS Integers, Sequences, FiniteSetsExt

CONSTANT Accounts

NoHolding == -1

(* algo 0 is an account the ledger has no record of; auth is the address that *)
(* authorizes for it, its own unless rekeyed; extras stands for created       *)
(* assets and apps and for app opt-ins.                                       *)
Account(algo, asset, auth) ==
  [algo |-> algo, asset |-> asset, auth |-> auth, online |-> FALSE, extras |-> FALSE]

(* The accounts, as they may be between the transactions of a group, where a   *)
(* balance may fall below what the ledger allows.                             *)
Books == [Accounts -> [algo : Int, asset : Int, auth : Accounts, online : BOOLEAN,
                       extras : BOOLEAN]]

OptedIn(acct) == acct.asset # NoHolding

(* A transaction the ledger can read. *)
Legible(t) ==
  /\ t.from \in Accounts /\ t.to \in Accounts
  /\ t.amt \in Nat /\ t.fee \in Nat /\ t.nonpart \in BOOLEAN

(* The sum of F over a set of positions in a group. *)
Total(F, S) == MapThenSumSet(LAMBDA j : F[j], S)

(* One unit, one more for a holding, one more for extras. *)
MinBalance(acct) ==
  1 + (IF OptedIn(acct) THEN 1 ELSE 0) + (IF acct.extras THEN 1 ELSE 0)

(* What executing transaction t does. *)
Apply(L, t) ==
  LET paid == [L EXCEPT ![t.from].algo = @ - t.fee]
  IN  CASE t.op = "pay"    -> [paid EXCEPT ![t.from].algo = @ - t.amt, ![t.to].algo = @ + t.amt]
        [] t.op = "asa"    -> [paid EXCEPT ![t.from].asset = @ - t.amt, ![t.to].asset = @ + t.amt]
        [] t.op = "optin"  -> [paid EXCEPT ![t.from].asset = 0]
        [] t.op = "optout" -> [paid EXCEPT ![t.from].asset = NoHolding,
                                           ![t.to].asset = @ + paid[t.from].asset]
        [] t.op = "close"  -> [paid EXCEPT ![t.from].algo = 0, ![t.to].algo = @ + paid[t.from].algo]
        [] t.op = "rekey"  -> [paid EXCEPT ![t.from].auth = t.to]
        [] t.op = "keyreg" -> [paid EXCEPT ![t.from].online = ~t.nonpart]
        [] t.op = "deploy" -> [paid EXCEPT ![t.from].extras = TRUE]
        [] OTHER           -> paid

(* Why the ledger may refuse t, in the order in which it looks.  Minimum       *)
(* balances are checked after every transaction.                              *)
Objections(L, t) ==
  LET after == Apply(L, t)
      from == L[t.from]
      to == L[t.to]
      cost == t.fee + (IF t.op = "pay" THEN t.amt ELSE 0)
  IN  << <<t.auth # from.auth, "authority">>,
         <<from.algo < cost, "overspend">>,
         <<t.op = "asa" /\ (~OptedIn(from) \/ ~OptedIn(to) \/ from.asset < t.amt), "holding">>,
         <<t.op = "optin" /\ OptedIn(from), "holding">>,
         <<t.op = "optout" /\ (~OptedIn(from) \/ ~OptedIn(to)), "holding">>,
         <<t.op = "close" /\ (OptedIn(from) \/ from.extras \/ from.online), "inuse">>,
         <<t.op # "close" /\ after[t.from].algo < MinBalance(after[t.from]), "belowmin">>,
         <<t.to # t.from /\ after[t.to].algo < MinBalance(after[t.to]), "receiver">> >>

(* The first objection that holds, or "ok". *)
Refusal(L, t) ==
  LET holding == {k \in DOMAIN Objections(L, t) : Objections(L, t)[k][1]}
  IN  IF holding = {} THEN "ok" ELSE Objections(L, t)[Min(holding)][2]

(* The ledger before each transaction of a group, and after the last. *)
States(L, txs) ==
  LET st[i \in 0..Len(txs)] == IF i = 0 THEN L ELSE Apply(st[i - 1], txs[i])
  IN  st

(* A group executes as a whole or not at all: the verdict is the first        *)
(* refusal and its position.                                                 *)
Verdict(L, txs) ==
  LET refused == {i \in 1..Len(txs) : Refusal(States(L, txs)[i - 1], txs[i]) # "ok"}
  IN  IF refused = {} THEN [why |-> "ok", at |-> 0]
      ELSE [why |-> Refusal(States(L, txs)[Min(refused) - 1], txs[Min(refused)]),
            at |-> Min(refused)]

Execute(L, txs) ==
  IF Verdict(L, txs).why = "ok" THEN States(L, txs)[Len(txs)] ELSE L
=============================================================================
