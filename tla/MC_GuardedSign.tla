--------------------------- MODULE MC_GuardedSign ---------------------------
(* An instance of GuardedSign for TLC: groups of at most two transactions,  *)
(* in no group, in a group of their own or in one with others, and plans    *)
(* that differ from the truth in a few ways at a time.                      *)
EXTENDS GuardedSign, TLC

Body(k) == [owner |-> "caller", note |-> k]
Loose(k) == [body |-> Body(k), fee |-> 1, grp |-> NoGroup]
(* x \o << >> is x, but evaluated by TLC on the spot. *)
InGroup(txns, id) == [i \in DOMAIN txns |-> [txns[i] EXCEPT !.grp = id \o << >>]] \o << >>
Elsewhere == GroupId(<<Loose(1), Loose(5)>>)

MCGroups ==
  { << >>,
    <<Loose(1)>>,
    InGroup(<<Loose(1)>>, Elsewhere),
    <<Loose(1), Loose(2)>>,
    InGroup(<<Loose(1), Loose(2)>>, GroupId(<<Loose(1), Loose(2)>>)),
    InGroup(<<Loose(1), Loose(2)>>, Elsewhere) }

MCAuth == <<1, 2>>

(* Original positions as planned: the body kept or replaced, a fee of 0, 1  *)
(* or 2; wrong in at most one place.                                        *)
Planned(g) ==
  {p \in [DOMAIN g -> [kept : BOOLEAN, fee : 0..2]] :
     \A i, j \in DOMAIN g : (~p[i].kept \/ p[i].fee = 0) /\ (~p[j].kept \/ p[j].fee = 0) => i = j}
Rewrite(g, p) ==
  [i \in DOMAIN g |-> [body |-> IF p[i].kept THEN g[i].body ELSE [owner |-> "other", note |-> 0],
                       fee |-> p[i].fee, grp |-> g[i].grp]]

(* Suffixes: dummies in and out of order, a dummy with a fee, a stranger. *)
DummyTxn(k, f) == [body |-> [owner |-> "dummy", note |-> k], fee |-> f, grp |-> NoGroup]
Suffixes == { << >>, <<DummyTxn(0, 0)>>, <<DummyTxn(0, 1)>>, <<DummyTxn(1, 0)>>,
              <<DummyTxn(0, 0), DummyTxn(1, 0)>>, <<DummyTxn(0, 0), DummyTxn(0, 0)>>,
              <<[Loose(7) EXCEPT !.fee = 0]>> }

(* Group IDs: as they were, none, the right one, or the right one but once. *)
Grouped(t) ==
  {t, InGroup(t, NoGroup), InGroup(t, GroupId(t))}
    \union (IF Len(t) > 1 THEN {[InGroup(t, GroupId(t)) EXCEPT ![Len(t)].grp = Elsewhere]} ELSE {})

PlannedGroups(g) ==
  UNION {Grouped(Rewrite(g, p) \o s) : p \in Planned(g), s \in Suffixes}
    \union {SubSeq(g, 1, n) : n \in 0..(Len(g) - 1)}

(* Reports: true but for the fee list, the group flag, or one of the numbers. *)
Right == [original |-> 0, final |-> 0, dummies |-> 0, delta |-> 0]
Claims ==
  [fees : {<< >>, <<1>>, <<2>>, <<1, 2>>, <<1, 1>>, <<0>>}, gid : BOOLEAN,
   off : {Right, [Right EXCEPT !.delta = 1]}]
    \union [fees : {<<1>>}, gid : {TRUE},
            off : {[Right EXCEPT !.original = 1], [Right EXCEPT !.final = 1],
                   [Right EXCEPT !.dummies = 1]}]

Delta(g, t, i) == IF i \in DOMAIN g \intersect DOMAIN t THEN t[i].fee - g[i].fee ELSE 0
Total(g, t, F) == (IF 1 \in F THEN Delta(g, t, 1) ELSE 0) + (IF 2 \in F THEN Delta(g, t, 2) ELSE 0)

Report(g, t, c) ==
  [present |-> TRUE, originalCount |-> Len(g) + c.off.original,
   finalCount |-> Len(t) + c.off.final, dummiesAdded |-> Len(t) - Len(g) + c.off.dummies,
   feesModified |-> c.fees, groupIdChanged |-> c.gid,
   totalFeesDelta |-> Total(g, t, {c.fees[j] : j \in DOMAIN c.fees}) + c.off.delta]

AnswersTo(g) ==
  {[decodable |-> TRUE, txns |-> t, report |-> Report(g, t, c)] : t \in PlannedGroups(g), c \in Claims}
    \union {[decodable |-> d, txns |-> t, report |-> Unreported] : t \in PlannedGroups(g), d \in BOOLEAN}

(* A table, so that TLC computes each set once. *)
AnswerTable == [g \in MCGroups |-> AnswersTo(g)]
MCPlanAnswers(g) == AnswerTable[g]
=============================================================================
