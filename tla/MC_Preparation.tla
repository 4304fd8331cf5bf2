--------------------------- MODULE MC_Preparation ---------------------------
EXTENDS Preparation, TLC

CONSTANTS a, b, c

Item_(op, from, to, amt, fee, mode) ==
  [op |-> op, from |-> from, to |-> to, amt |-> amt, fee |-> fee, mode |-> mode,
   nonpart |-> FALSE, first |-> 1, last |-> 2]

Mine(op, from, to, amt) == Item_(op, from, to, amt, NoFee, "sign")
Flat(op, from, to, amt, fee) == Item_(op, from, to, amt, fee, "sign")
Group_(shape, items) == [shape |-> shape, items |-> items]

MCRequests ==
  LET single(i) == Group_("single", <<i>>)
  IN  { single(Mine("pay", a, b, n)) : n \in 1..3 }
      \union { single(Mine(op, a, b, 1)) : op \in {"asa", "optout", "close", "rekey", "app", "deploy"} }
      \union { single(Mine("optin", a, a, 0)), single(Flat("optin", a, a, 0, 2)),
               single(Mine("rekey", a, a, 0)), single(Mine("close", a, a, 0)),
               single(Mine("keyreg", a, a, 0)),
               single([Mine("keyreg", a, a, 0) EXCEPT !.first = 3]) }
      \union { Group_("payments", <<Mine("pay", a, b, 1), Flat("pay", f, c, n, fee)>>) :
                 f \in {a, b}, n \in 1..2, fee \in {0, 2} }
      \union { Group_("transfers", <<Mine("asa", a, b, 1), Mine("asa", f, c, n)>>) :
                 f \in {a, b}, n \in 1..2 }
      \union { Group_("sweep", <<Mine("asa", f, c, 1), Mine("pay", a, c, n)>>) :
                 f \in {a, b}, n \in {1, 3} }
      \union { Group_("pay_app", <<Mine("pay", a, b, 1), Mine("app", f, f, 0)>>) : f \in {a, b} }
      \union { Group_("party", <<Mine("pay", a, b, 1), Item_("pay", c, a, 1, 1, mode)>>) :
                 mode \in {"foreign", "passthrough"} }
      \union { Group_("party", <<Mine("pay", a, b, 1), Item_("pay", c, a, 1, 1, "foreign"),
                                 Item_("pay", c, a, 1, 1, mode)>>) : mode \in {"foreign", "passthrough"} }
      \union { Group_("party", <<Item_("pay", c, a, 1, 1, "foreign")>>),
               Group_("party", <<Mine("rekey", a, b, 0), Mine("app", b, b, 0)>>),
               Group_("party", <<Mine("rekey", a, b, 0), Mine("app", a, a, 0)>>) }

(* Funds for one or two of the payments, holdings or none, a rekeyed account, one *)
(* that is in use.                                                               *)
MCLedgers ==
  { (a :> Account(n, h[1], a) @@ b :> Account(4, h[2], b) @@ c :> Account(5, h[2], c)) :
      n \in {4, 6}, h \in {<<NoHolding, NoHolding>>, <<2, NoHolding>>, <<2, 2>>} }
  \union { (a :> Account(6, 2, b) @@ b :> Account(4, 2, b) @@ c :> Account(5, 2, c)) }
  \union { (a :> [Account(5, NoHolding, a) EXCEPT !.extras = x, !.online = ~x]
             @@ b :> Account(4, NoHolding, b) @@ c :> Account(5, NoHolding, c)) : x \in BOOLEAN }

MCKeySets ==
  { (a :> "plain" @@ b :> key) : key \in {"plain", "rotating", "witness"} }

(* The account's owner spends, opts in or rekeys from elsewhere. *)
MCMoves ==
  { [op |-> op, from |-> a, to |-> b, amt |-> 1, fee |-> 1, nonpart |-> FALSE, auth |-> a] :
      op \in {"pay", "asa", "optin", "rekey"} }
=============================================================================
