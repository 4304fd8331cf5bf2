---------------------------- MODULE LedgerProofs ----------------------------
(***************************************************************************)
(* Facts about the ledger and about totals over a set of slots, for groups *)
(* of every length.  Induction is over the least counterexample, since the *)
(* recursive functions of the model are what it has to be carried through. *)
(***************************************************************************)
EXTENDS Ledger, WellFoundedInduction, FiniteSetTheorems, TLAPS

-----------------------------------------------------------------------------
(* Least elements.                                                          *)

(* A nonempty set of natural numbers has a least element. *)
LEMMA LeastNumber ==
  ASSUME NEW S \in SUBSET Nat, S # {}
  PROVE  \E m \in S : \A n \in S : m <= n
<1>1. PICK m \in S : \A n \in S : ~(<<n, m>> \in OpToRel(<, Nat))
  BY NatLessThanWellFounded, WFMin
<1>2. \A n \in S : ~(n < m)
  BY <1>1 DEF OpToRel
<1> QED BY <1>2

(* A set that holds 0 and with every number its successor, up to n, holds    *)
(* the numbers up to n.                                                      *)
LEMMA UpTo ==
  ASSUME NEW n \in Nat, NEW P, 0 \in P,
         \A i \in 1..n : i - 1 \in P => i \in P
  PROVE  \A i \in 0..n : i \in P
<1> DEFINE C == {i \in 0..n : i \notin P}
<1> SUFFICES ASSUME C # {} PROVE FALSE
  OBVIOUS
<1>1. C \in SUBSET Nat
  OBVIOUS
<1>2. PICK m \in C : \A k \in C : m <= k
  BY <1>1, LeastNumber
<1>3. m \in 1..n /\ m - 1 \in 0..n /\ m - 1 \notin C
  BY <1>2
<1> QED BY <1>3

(* Min and Max of a set of positions are in it. *)
LEMMA MinFacts ==
  ASSUME NEW S \in SUBSET Nat, S # {}
  PROVE  Min(S) \in S
<1>1. \E m \in S : \A n \in S : m <= n
  BY LeastNumber
<1> QED BY <1>1 DEF Min

LEMMA MaxFacts ==
  ASSUME NEW n \in Nat, NEW S \in SUBSET (1..n), S # {}
  PROVE  Max(S) \in S
<1> DEFINE T == {n - x : x \in S}
<1>0. \A x \in S : x \in 1..n /\ n - x \in Nat
  OBVIOUS
<1>1. T \in SUBSET Nat /\ T # {}
  BY <1>0
<1>2. PICK m \in T : \A k \in T : m <= k
  BY <1>1, LeastNumber
<1>3. PICK x \in S : m = n - x
  BY <1>2
<1>4. \A y \in S : n - y \in T
  OBVIOUS
<1>5. \A y \in S : x >= y
  <2> SUFFICES ASSUME NEW y \in S PROVE x >= y
    OBVIOUS
  <2>1. n - x <= n - y
    BY <1>2, <1>3, <1>4
  <2> QED BY <1>0, <2>1
<1> QED BY <1>5 DEF Max

-----------------------------------------------------------------------------
(* Totals over a set of positions.                                          *)

(* Induction over the subsets of a finite set. *)
LEMMA SubsetInduction ==
  ASSUME NEW U, IsFiniteSet(U), NEW P,
         \A s \in SUBSET U : (\A x \in s : s \ {x} \in P) => s \in P
  PROVE  \A s \in SUBSET U : s \in P
<1>1. \A s \in SUBSET U : IsFiniteSet(s) /\ Cardinality(s) \in Nat
  BY FS_Subset, FS_CardinalityType
<1> DEFINE C == {k \in Nat : \E s \in SUBSET U : s \notin P /\ Cardinality(s) = k}
<1> SUFFICES ASSUME NEW s0 \in SUBSET U, s0 \notin P PROVE FALSE
  OBVIOUS
<1>2. C # {} /\ C \in SUBSET Nat
  BY <1>1
<1>3. PICK m \in C : \A k \in C : m <= k
  BY <1>2, LeastNumber
<1>4. PICK s \in SUBSET U : s \notin P /\ Cardinality(s) = m
  BY <1>3
<1>5. PICK x \in s : s \ {x} \notin P
  BY <1>4
<1>6. Cardinality(s \ {x}) = Cardinality(s) - 1
  BY <1>1, <1>5, FS_RemoveElement
<1>7. s \ {x} \in SUBSET U
  OBVIOUS
<1>8. Cardinality(s \ {x}) \in C
  <2>1. Cardinality(s \ {x}) \in Nat
    BY <1>1, <1>7
  <2>2. \E r \in SUBSET U : r \notin P /\ Cardinality(r) = Cardinality(s \ {x})
    BY <1>5, <1>7, Zenon
  <2> QED BY <2>1, <2>2
<1>9. m \in Nat
  OBVIOUS
<1> HIDE DEF C
<1>10. m <= Cardinality(s \ {x})
  BY <1>3, <1>8
<1> QED BY <1>4, <1>6, <1>9, <1>10

(* The element of a set that the recursion counts first. *)
Any(s) == CHOOSE x \in s : TRUE

(* It is an element. *)
LEMMA AnyFacts ==
  ASSUME NEW s, s # {}
  PROVE  Any(s) \in s
BY DEF Any

(* One step of the recursion of Total, over the subsets of S. *)
TotalStep(g, F, S) ==
  [s \in SUBSET S |-> IF s = {} THEN 0 ELSE F[Any(s)] + g[s \ {Any(s)}]]

(* The totals over all subsets of S, as the recursion defines them. *)
Totals(F, S) == CHOOSE g : g = TotalStep(g, F, S)

(* Total is one of these. *)
LEMMA TotalDef ==
  ASSUME NEW F, NEW S
  PROVE  Total(F, S) = Totals(F, S)[S]
BY DEF Total, MapThenSumSet, MapThenFoldSet, TotalStep, Totals, Any

(* The recursion has a solution. *)
LEMMA TotalExists ==
  ASSUME NEW F, NEW S, IsFiniteSet(S)
  PROVE  \E g : g = TotalStep(g, F, S)
<1> DEFINE P == {k \in Nat : \E g : /\ DOMAIN g = SUBSET S /\ g = [s \in SUBSET S |-> g[s]]
                                    /\ \A s \in SUBSET S : Cardinality(s) <= k =>
                                         g[s] = IF s = {} THEN 0 ELSE F[Any(s)] + g[s \ {Any(s)}]}
<1>0. \A s \in SUBSET S : /\ IsFiniteSet(s) /\ Cardinality(s) \in Nat
                          /\ Cardinality(s) <= Cardinality(S)
                          /\ Cardinality(s) = 0 => s = {}
  BY FS_Subset, FS_CardinalityType, FS_EmptySet
<1>a. \A s \in SUBSET S : s # {} => Any(s) \in s
  BY AnyFacts
<1>b. \A s \in SUBSET S : s # {} => /\ s \ {Any(s)} \in SUBSET S
                                    /\ Cardinality(s \ {Any(s)}) = Cardinality(s) - 1
  BY <1>0, <1>a, FS_RemoveElement
<1>1. 0 \in P
  <2> DEFINE g == [s \in SUBSET S |-> 0]
  <2>1. \A s \in SUBSET S : Cardinality(s) <= 0 => s = {}
    BY <1>0
  <2>2. \A s \in SUBSET S : Cardinality(s) <= 0 =>
           g[s] = IF s = {} THEN 0 ELSE F[Any(s)] + g[s \ {Any(s)}]
    BY <2>1
  <2> QED BY <2>2
<1>2. ASSUME NEW k \in Nat, k \in P PROVE k + 1 \in P
  <2>1. PICK g : /\ DOMAIN g = SUBSET S /\ g = [s \in SUBSET S |-> g[s]]
                 /\ \A s \in SUBSET S : Cardinality(s) <= k =>
                       g[s] = IF s = {} THEN 0 ELSE F[Any(s)] + g[s \ {Any(s)}]
    BY <1>2
  <2> DEFINE h == [s \in SUBSET S |-> IF Cardinality(s) = k + 1 THEN F[Any(s)] + g[s \ {Any(s)}]
                                      ELSE g[s]]
  <2>2. \A s \in SUBSET S : Cardinality(s) <= k + 1 =>
          h[s] = IF s = {} THEN 0 ELSE F[Any(s)] + h[s \ {Any(s)}]
    <3> SUFFICES ASSUME NEW s \in SUBSET S, Cardinality(s) <= k + 1
                 PROVE  h[s] = IF s = {} THEN 0 ELSE F[Any(s)] + h[s \ {Any(s)}]
      OBVIOUS
    <3>1. s # {} => h[s \ {Any(s)}] = g[s \ {Any(s)}]
      BY <1>0, <1>b
    <3>2. CASE Cardinality(s) = k + 1
      <4>1. s # {}
        BY <3>2, FS_EmptySet
      <4>2. h[s] = F[Any(s)] + g[s \ {Any(s)}]
        BY <3>2
      <4> QED BY <3>1, <4>1, <4>2
    <3>3. CASE Cardinality(s) # k + 1
      <4>1. Cardinality(s) <= k /\ h[s] = g[s]
        BY <1>0, <3>3
      <4> QED BY <2>1, <3>1, <4>1
    <3> QED BY <3>2, <3>3
  <2>3. DOMAIN h = SUBSET S /\ h = [s \in SUBSET S |-> h[s]]
    OBVIOUS
  <2> HIDE DEF h
  <2>4. \E f : /\ DOMAIN f = SUBSET S /\ f = [s \in SUBSET S |-> f[s]]
               /\ \A s \in SUBSET S : Cardinality(s) <= k + 1 =>
                     f[s] = IF s = {} THEN 0 ELSE F[Any(s)] + f[s \ {Any(s)}]
    BY <2>2, <2>3, Zenon
  <2>5. k + 1 \in Nat
    OBVIOUS
  <2> QED BY <2>4, <2>5, Zenon
<1> HIDE DEF P
<1>3. Cardinality(S) \in P
  <2>1. Cardinality(S) \in Nat
    BY FS_CardinalityType
  <2>2. \A i \in 1..Cardinality(S) : i - 1 \in P => i \in P
    BY <1>2, <2>1
  <2> QED BY <1>1, <2>1, <2>2, UpTo
<1>4. PICK g : /\ g = [s \in SUBSET S |-> g[s]]
               /\ \A s \in SUBSET S : Cardinality(s) <= Cardinality(S) =>
                     g[s] = IF s = {} THEN 0 ELSE F[Any(s)] + g[s \ {Any(s)}]
  BY <1>3 DEF P
<1>5. \A s \in SUBSET S : g[s] = IF s = {} THEN 0 ELSE F[Any(s)] + g[s \ {Any(s)}]
  BY <1>0, <1>4
<1>6. [s \in SUBSET S |-> g[s]] = TotalStep(g, F, S)
  BY <1>5, Zenon DEF TotalStep
<1> QED BY <1>4, <1>6, Zenon

(* What the recursion computes, in its own order. *)
LEMMA TotalsFacts ==
  ASSUME NEW F, NEW S, IsFiniteSet(S)
  PROVE  \A s \in SUBSET S :
           Totals(F, S)[s] = IF s = {} THEN 0 ELSE F[Any(s)] + Totals(F, S)[s \ {Any(s)}]
<1> DEFINE G == Totals(F, S)
<1>1. \E g : g = TotalStep(g, F, S)
  BY TotalExists
<1>2. G = TotalStep(G, F, S)
  BY <1>1, Zenon DEF Totals
<1> HIDE DEF G
<1>3. \A s \in SUBSET S : TotalStep(G, F, S)[s] = IF s = {} THEN 0
        ELSE F[Any(s)] + G[s \ {Any(s)}]
  BY DEF TotalStep
<1> QED BY <1>2, <1>3, Zenon DEF G

(* The total over a set does not depend on the set it is taken in. *)
LEMMA TotalsAgree ==
  ASSUME NEW F, NEW U, IsFiniteSet(U), NEW S \in SUBSET U
  PROVE  Total(F, S) = Totals(F, U)[S]
<1> DEFINE P == {s \in SUBSET S : Totals(F, S)[s] = Totals(F, U)[s]}
<1>1. IsFiniteSet(S)
  BY FS_Subset
<1>a. \A s \in SUBSET S :
        Totals(F, S)[s] = IF s = {} THEN 0 ELSE F[Any(s)] + Totals(F, S)[s \ {Any(s)}]
  BY <1>1, TotalsFacts
<1>2. ASSUME NEW s \in SUBSET S, \A x \in s : s \ {x} \in P PROVE s \in P
  <2>1. s \in SUBSET U
    OBVIOUS
  <2>2. s # {} => Any(s) \in s
    BY AnyFacts
  <2>3. Totals(F, S)[s] = IF s = {} THEN 0 ELSE F[Any(s)] + Totals(F, S)[s \ {Any(s)}]
    BY <1>a
  <2>4. Totals(F, U)[s] = IF s = {} THEN 0 ELSE F[Any(s)] + Totals(F, U)[s \ {Any(s)}]
    BY <2>1, TotalsFacts
  <2>5. s # {} => Totals(F, S)[s \ {Any(s)}] = Totals(F, U)[s \ {Any(s)}]
    BY <1>2, <2>2
  <2> QED BY <2>3, <2>4, <2>5
<1> HIDE DEF P
<1>3. S \in P
  BY <1>1, <1>2, SubsetInduction
<1> QED BY <1>3, TotalDef DEF P

(* The total of nothing is 0, and any element may be counted first. *)
LEMMA TotalFacts ==
  ASSUME NEW U, IsFiniteSet(U), NEW F, \A x \in U : F[x] \in Nat
  PROVE  /\ Total(F, {}) = 0
         /\ \A S \in SUBSET U : Total(F, S) \in Nat
         /\ \A S \in SUBSET U : \A x \in S : Total(F, S) = F[x] + Total(F, S \ {x})
<1> DEFINE G == Totals(F, U)
<1>1. \A s \in SUBSET U : G[s] = IF s = {} THEN 0 ELSE F[Any(s)] + G[s \ {Any(s)}]
  BY TotalsFacts
<1>2. \A s \in SUBSET U : s # {} => Any(s) \in s
  BY AnyFacts
<1>3. \A s \in SUBSET U : Total(F, s) = G[s]
  BY TotalsAgree
<1> HIDE DEF G
<1> DEFINE P == {s \in SUBSET U : /\ G[s] \in Nat
                               /\ \A x \in s : G[s] = F[x] + G[s \ {x}] /\ G[s \ {x}] \in Nat}
<1>4. ASSUME NEW s \in SUBSET U, \A x \in s : s \ {x} \in P PROVE s \in P
  <2>1. CASE s = {}
    <3>1. G[s] = 0
      BY <1>1, <2>1
    <3> QED BY <2>1, <3>1
  <2>2. CASE s # {}
    <3> DEFINE c == Any(s)
    <3>1. c \in s /\ c \in U /\ F[c] \in Nat /\ G[s] = F[c] + G[s \ {c}]
      BY <1>1, <1>2, <2>2
    <3> HIDE DEF c
    <3>2. G[s \ {c}] \in Nat
      BY <1>4, <3>1
    <3>3. ASSUME NEW x \in s PROVE G[s] = F[x] + G[s \ {x}] /\ G[s \ {x}] \in Nat
      <4>1. CASE x = c
        BY <3>1, <3>2, <4>1
      <4>2. CASE x # c
        <5>1. x \in s \ {c} /\ c \in s \ {x} /\ F[x] \in Nat
          BY <3>1, <4>2
        <5>2. G[s \ {c}] = F[x] + G[(s \ {c}) \ {x}] /\ G[(s \ {c}) \ {x}] \in Nat
          BY <1>4, <3>1, <5>1
        <5>3. G[s \ {x}] = F[c] + G[(s \ {x}) \ {c}] /\ G[s \ {x}] \in Nat
          BY <1>4, <5>1
        <5>4. (s \ {c}) \ {x} = (s \ {x}) \ {c}
          OBVIOUS
        <5> QED BY <3>1, <3>2, <5>1, <5>2, <5>3, <5>4
      <4> QED BY <4>1, <4>2
    <3> QED BY <3>1, <3>2, <3>3
  <2> QED BY <2>1, <2>2
<1> HIDE DEF P
<1>5. \A s \in SUBSET U : s \in P
  BY <1>4, SubsetInduction
<1>6. {} \in SUBSET U /\ G[{}] = 0
  BY <1>1
<1>7. \A S \in SUBSET U : \A x \in S : S \ {x} \in SUBSET U
  OBVIOUS
<1> QED BY <1>3, <1>5, <1>6, <1>7 DEF P
(* The same, for one set. *)
LEMMA TotalType ==
  ASSUME NEW U, IsFiniteSet(U), NEW F, \A x \in U : F[x] \in Nat, NEW S \in SUBSET U
  PROVE  Total(F, S) \in Nat
BY TotalFacts

(* The total over one position. *)
LEMMA TotalSingle ==
  ASSUME NEW F, NEW y, F[y] \in Nat
  PROVE  Total(F, {y}) = F[y]
<1> DEFINE U == {y}
<1>1. IsFiniteSet(U)
  BY FS_Singleton
<1>2. \A x \in U : F[x] \in Nat
  OBVIOUS
<1>3. U \in SUBSET U /\ y \in U /\ U \ {y} = {}
  OBVIOUS
<1> HIDE DEF U
<1>4. /\ Total(F, {}) = 0
      /\ \A S \in SUBSET U : \A x \in S : Total(F, S) = F[x] + Total(F, S \ {x})
  BY <1>1, <1>2, TotalFacts
<1>5. Total(F, U) = F[y] + 0
  BY <1>3, <1>4
<1> QED BY <1>5 DEF U

(* More positions, no smaller a total. *)
LEMMA TotalMonotone ==
  ASSUME NEW U, IsFiniteSet(U), NEW F, \A x \in U : F[x] \in Nat,
         NEW A \in SUBSET U, NEW B \in SUBSET U, A \subseteq B
  PROVE  Total(F, A) <= Total(F, B)
<1> DEFINE P == {s \in SUBSET U : \A r \in SUBSET s : Total(F, r) <= Total(F, s)}
<1>1. /\ \A S \in SUBSET U : Total(F, S) \in Nat
      /\ \A S \in SUBSET U : \A x \in S : Total(F, S) = F[x] + Total(F, S \ {x})
  BY TotalFacts
<1>2. ASSUME NEW s \in SUBSET U, \A x \in s : s \ {x} \in P PROVE s \in P
  <2> SUFFICES ASSUME NEW r \in SUBSET s PROVE Total(F, r) <= Total(F, s)
    OBVIOUS
  <2>1. CASE r = s
    BY <1>1, <2>1
  <2>2. CASE r # s
    <3>1. PICK x \in s : x \notin r
      BY <2>2
    <3>2. r \in SUBSET (s \ {x}) /\ s \ {x} \in SUBSET U /\ F[x] \in Nat
      BY <3>1
    <3>3. Total(F, r) <= Total(F, s \ {x})
      BY <1>2, <3>1, <3>2
    <3>4. Total(F, s) = F[x] + Total(F, s \ {x})
      BY <1>1
    <3>5. Total(F, r) \in Nat /\ Total(F, s \ {x}) \in Nat
      BY <1>1, <3>2
    <3> HIDE DEF P
    <3> QED BY <3>2, <3>3, <3>4, <3>5
  <2> QED BY <2>1, <2>2
<1> HIDE DEF P
<1>3. B \in P
  BY <1>2, SubsetInduction
<1> QED BY <1>3 DEF P

-----------------------------------------------------------------------------
(* The states a group of transactions leads through.                        *)

(* One step of the recursion of States, up to transaction n. *)
StatesStep(g, L, txs, n) ==
  [i \in 0..n |-> IF i = 0 THEN L ELSE Apply(g[i - 1], txs[i])]

(* The recursion has a solution, whatever the group's length. *)
LEMMA StatesExist ==
  ASSUME NEW L, NEW txs, NEW n \in Nat
  PROVE  \E st : st = StatesStep(st, L, txs, n)
<1> USE DEF StatesStep
<1> DEFINE P == {k \in Nat : \E st : st = StatesStep(st, L, txs, k)}
<1>1. 0 \in P
  <2>1. [i \in 0..0 |-> L] = [i \in 0..0 |-> IF i = 0 THEN L ELSE Apply([j \in 0..0 |-> L][i - 1], txs[i])]
    OBVIOUS
  <2> QED BY <2>1
<1>2. ASSUME NEW k \in 1..n, k - 1 \in P PROVE k \in P
  <2>1. PICK st : st = [i \in 0..(k - 1) |-> IF i = 0 THEN L ELSE Apply(st[i - 1], txs[i])]
    BY <1>2
  <2> DEFINE nx == [i \in 0..k |-> IF i = k THEN Apply(st[k - 1], txs[k]) ELSE st[i]]
  <2>2. \A i \in 0..k : nx[i] = IF i = 0 THEN L ELSE Apply(nx[i - 1], txs[i])
    <3> SUFFICES ASSUME NEW i \in 0..k PROVE nx[i] = IF i = 0 THEN L ELSE Apply(nx[i - 1], txs[i])
      OBVIOUS
    <3>1. CASE i = k
      <4>1. nx[i - 1] = st[k - 1] /\ i # 0
        BY <3>1
      <4> QED BY <3>1, <4>1
    <3>2. CASE i # k
      <4>1. i \in 0..(k - 1) /\ nx[i] = st[i]
        BY <3>2
      <4>2. i # 0 => nx[i - 1] = st[i - 1]
        BY <3>2
      <4> HIDE DEF nx
      <4> QED BY <2>1, <4>1, <4>2
    <3> QED BY <3>1, <3>2
  <2>3. nx = [i \in 0..k |-> IF i = 0 THEN L ELSE Apply(nx[i - 1], txs[i])]
    BY <2>2
  <2> HIDE DEF nx
  <2> QED BY <2>3
<1> HIDE DEF P
<1>3. n \in P
  BY <1>1, <1>2, UpTo
<1> QED BY <1>3 DEF P

(* What States is: the ledger given, then one transaction after the other. *)
LEMMA StatesFacts ==
  ASSUME NEW L, NEW txs, Len(txs) \in Nat
  PROVE  /\ States(L, txs)[0] = L
         /\ \A i \in 1..Len(txs) : States(L, txs)[i] = Apply(States(L, txs)[i - 1], txs[i])
<1> DEFINE n == Len(txs)
           st == CHOOSE g : g = StatesStep(g, L, txs, n)
<1>1. \E g : g = StatesStep(g, L, txs, n)
  BY StatesExist
<1>2. States(L, txs) = st
  BY DEF States, StatesStep
<1>3. st = StatesStep(st, L, txs, n)
  BY <1>1, Zenon
<1> HIDE DEF st
<1>4. st = [i \in 0..n |-> IF i = 0 THEN L ELSE Apply(st[i - 1], txs[i])]
  BY <1>3 DEF StatesStep
<1> HIDE DEF n
<1>5. n \in Nat
  BY DEF n
<1>6. st[0] = L /\ \A i \in 1..n : st[i] = Apply(st[i - 1], txs[i])
  BY <1>4, <1>5
<1> QED BY <1>2, <1>6 DEF n

-----------------------------------------------------------------------------
(* What one transaction does.                                               *)

(* The fee is taken from the sender, and nothing else. *)
LEMMA FeeTaken ==
  ASSUME NEW L \in Books, NEW f \in Accounts, NEW fee \in Nat
  PROVE  /\ [L EXCEPT ![f].algo = @ - fee] \in Books
         /\ \A a \in Accounts :
              LET r == [L EXCEPT ![f].algo = @ - fee][a]
              IN  /\ r.algo = IF a = f THEN L[a].algo - fee ELSE L[a].algo
                  /\ r.asset = L[a].asset /\ r.auth = L[a].auth
                  /\ r.online = L[a].online /\ r.extras = L[a].extras
BY DEF Books

LEMMA ApplyType ==
  ASSUME NEW L \in Books, NEW t, Legible(t)
  PROVE  Apply(L, t) \in Books
<1> DEFINE paid == [L EXCEPT ![t.from].algo = @ - t.fee]
<1>1. paid \in Books
  BY FeeTaken DEF Legible
<1>2. /\ t.from \in Accounts /\ t.to \in Accounts
      /\ t.amt \in Nat /\ t.fee \in Nat /\ t.nonpart \in BOOLEAN
  BY DEF Legible
<1> HIDE DEF paid
<1>3. [paid EXCEPT ![t.from].algo = @ - t.amt, ![t.to].algo = @ + t.amt] \in Books
  BY <1>1, <1>2 DEF Books
<1>4. [paid EXCEPT ![t.from].asset = @ - t.amt, ![t.to].asset = @ + t.amt] \in Books
  BY <1>1, <1>2 DEF Books
<1>5. [paid EXCEPT ![t.from].asset = 0] \in Books
  BY <1>1, <1>2 DEF Books
<1>6. [paid EXCEPT ![t.from].asset = NoHolding, ![t.to].asset = @ + paid[t.from].asset] \in Books
  BY <1>1, <1>2 DEF Books, NoHolding
<1>7. [paid EXCEPT ![t.from].algo = 0, ![t.to].algo = @ + paid[t.from].algo] \in Books
  BY <1>1, <1>2 DEF Books
<1>8. [paid EXCEPT ![t.from].auth = t.to] \in Books
  BY <1>1, <1>2 DEF Books
<1>9. [paid EXCEPT ![t.from].online = ~t.nonpart] \in Books
  BY <1>1, <1>2 DEF Books
<1>10. [paid EXCEPT ![t.from].extras = TRUE] \in Books
  BY <1>1, <1>2 DEF Books
<1> QED BY <1>1, <1>3, <1>4, <1>5, <1>6, <1>7, <1>8, <1>9, <1>10 DEF Apply, paid

(* Only a rekey changes who authorizes, and only for its sender. *)
LEMMA ApplyAuth ==
  ASSUME NEW L \in Books, NEW t, Legible(t), NEW a \in Accounts,
         t.op = "rekey" => t.from # a
  PROVE  Apply(L, t)[a].auth = L[a].auth
<1> DEFINE paid == [L EXCEPT ![t.from].algo = @ - t.fee]
<1>1. paid \in Books /\ paid[a].auth = L[a].auth
  BY FeeTaken DEF Legible
<1>2. t.from \in Accounts /\ t.to \in Accounts
  BY DEF Legible
<1> HIDE DEF paid
<1>3. [paid EXCEPT ![t.from].algo = @ - t.amt, ![t.to].algo = @ + t.amt][a].auth = paid[a].auth
  BY <1>1, <1>2 DEF Books
<1>4. [paid EXCEPT ![t.from].asset = @ - t.amt, ![t.to].asset = @ + t.amt][a].auth = paid[a].auth
  BY <1>1, <1>2 DEF Books
<1>5. [paid EXCEPT ![t.from].asset = 0][a].auth = paid[a].auth
  BY <1>1, <1>2 DEF Books
<1>6. [paid EXCEPT ![t.from].asset = NoHolding, ![t.to].asset = @ + paid[t.from].asset][a].auth
        = paid[a].auth
  BY <1>1, <1>2 DEF Books
<1>7. [paid EXCEPT ![t.from].algo = 0, ![t.to].algo = @ + paid[t.from].algo][a].auth = paid[a].auth
  BY <1>1, <1>2 DEF Books
<1>8. t.op = "rekey" => [paid EXCEPT ![t.from].auth = t.to][a].auth = paid[a].auth
  BY <1>1, <1>2 DEF Books
<1>9. [paid EXCEPT ![t.from].online = ~t.nonpart][a].auth = paid[a].auth
  BY <1>1, <1>2 DEF Books
<1>10. [paid EXCEPT ![t.from].extras = TRUE][a].auth = paid[a].auth
  BY <1>1, <1>2 DEF Books
<1> QED BY <1>1, <1>3, <1>4, <1>5, <1>6, <1>7, <1>8, <1>9, <1>10 DEF Apply, paid

(* A payment costs its sender the amount and the fee, and leaves every       *)
(* account its holdings.                                                     *)
LEMMA ApplyPay ==
  ASSUME NEW L \in Books, NEW t, Legible(t), t.op = "pay", NEW a \in Accounts
  PROVE  /\ Apply(L, t)[a].algo >= L[a].algo - (IF a = t.from THEN t.amt + t.fee ELSE 0)
         /\ Apply(L, t)[a].asset = L[a].asset
         /\ Apply(L, t)[a].extras = L[a].extras
BY DEF Apply, Legible, Books

(* A transfer costs its sender the amount in the asset and the fee. *)
LEMMA ApplyAsa ==
  ASSUME NEW L \in Books, NEW t, Legible(t), t.op = "asa", NEW a \in Accounts
  PROVE  /\ Apply(L, t)[a].algo = L[a].algo - (IF a = t.from THEN t.fee ELSE 0)
         /\ Apply(L, t)[a].asset >= L[a].asset - (IF a = t.from THEN t.amt ELSE 0)
         /\ a # t.from /\ a # t.to => Apply(L, t)[a].asset = L[a].asset
         /\ Apply(L, t)[a].extras = L[a].extras
BY DEF Apply, Legible, Books

-----------------------------------------------------------------------------
(* Along a group.                                                           *)

(* A group of transactions the ledger can read leads from books to books. *)
LEMMA StatesType ==
  ASSUME NEW L \in Books, NEW txs, Len(txs) \in Nat, \A i \in 1..Len(txs) : Legible(txs[i])
  PROVE  \A i \in 0..Len(txs) : States(L, txs)[i] \in Books
<1> DEFINE st == States(L, txs)
           P == {i \in 0..Len(txs) : st[i] \in Books}
<1>1. st[0] = L /\ \A i \in 1..Len(txs) : st[i] = Apply(st[i - 1], txs[i])
  BY StatesFacts
<1> HIDE DEF st
<1>2. 0 \in P
  BY <1>1
<1>3. ASSUME NEW i \in 1..Len(txs), i - 1 \in P PROVE i \in P
  <2>1. Apply(st[i - 1], txs[i]) \in Books
    BY <1>3, ApplyType
  <2> QED BY <1>1, <2>1
<1> HIDE DEF P
<1>4. \A i \in 0..Len(txs) : i \in P
  BY <1>2, <1>3, UpTo
<1> QED BY <1>4 DEF P, st

(* Who authorizes for an account stays the same up to a rekey of it. *)
LEMMA AuthAlong ==
  ASSUME NEW L \in Books, NEW txs, Len(txs) \in Nat, \A i \in 1..Len(txs) : Legible(txs[i]),
         NEW x \in Accounts, NEW k \in 0..Len(txs),
         \A i \in 1..k : txs[i].op = "rekey" => txs[i].from # x
  PROVE  States(L, txs)[k][x].auth = L[x].auth
<1> DEFINE st == States(L, txs)
           P == {i \in 0..k : st[i][x].auth = L[x].auth}
<1>1. st[0] = L /\ \A i \in 1..Len(txs) : st[i] = Apply(st[i - 1], txs[i])
  BY StatesFacts
<1>2. \A i \in 0..Len(txs) : st[i] \in Books
  BY StatesType
<1> HIDE DEF st
<1>3. 0 \in P
  BY <1>1
<1>4. ASSUME NEW i \in 1..k, i - 1 \in P PROVE i \in P
  <2>1. st[i - 1] \in Books /\ i \in 1..Len(txs) /\ st[i - 1][x].auth = L[x].auth
    BY <1>2, <1>4
  <2>2. Apply(st[i - 1], txs[i])[x].auth = st[i - 1][x].auth
    BY <2>1, ApplyAuth
  <2> QED BY <1>1, <2>1, <2>2
<1> HIDE DEF P
<1>5. k \in Nat /\ k \in 0..k
  OBVIOUS
<1>6. k \in P
  BY <1>3, <1>4, <1>5, UpTo
<1> QED BY <1>6 DEF P, st

(* The positions up to i among those of S. *)
Before(S, i) == {j \in S : j <= i}

(* The totals up to each position can be had one after the other, and none is   *)
(* above the whole.                                                            *)
LEMMA RunningTotal ==
  ASSUME NEW n \in Nat, NEW S \in SUBSET (1..n), NEW F, \A j \in 1..n : F[j] \in Nat
  PROVE  \E T \in [0..n -> Nat] :
           /\ T[0] = 0
           /\ \A i \in 1..n : T[i] = T[i - 1] + (IF i \in S THEN F[i] ELSE 0)
           /\ \A i \in 0..n : T[i] <= Total(F, S)
<1> DEFINE U == 1..n
<1>0. S \in SUBSET U /\ \A j \in U : F[j] \in Nat
  OBVIOUS
<1>d. IsFiniteSet(U)
  BY FS_Interval
<1>a. \A j \in S : j \in Nat /\ j >= 1
  OBVIOUS
<1>c. \A j \in S : ~(j <= 0)
  BY <1>a
<1>2. Before(S, 0) = {}
  BY <1>c, Zenon DEF Before
<1>b. \A i \in 1..n : i \in U
  OBVIOUS
<1> HIDE DEF U
<1>1. /\ Total(F, {}) = 0
      /\ \A s \in SUBSET U : Total(F, s) \in Nat
      /\ \A s \in SUBSET U : \A x \in s : Total(F, s) = F[x] + Total(F, s \ {x})
  <2>1. \A x \in U : F[x] \in Nat
    BY <1>0
  <2> QED BY <1>d, <2>1, TotalFacts
<1>3. \A i : Before(S, i) \in SUBSET U /\ Before(S, i) \subseteq S
  BY <1>0 DEF Before
<1>4. ASSUME NEW i \in 0..n
      PROVE  Total(F, Before(S, i)) \in Nat /\ Total(F, Before(S, i)) <= Total(F, S)
  BY <1>0, <1>d, <1>1, <1>3, TotalMonotone
<1>5. ASSUME NEW i \in 1..n
      PROVE  Total(F, Before(S, i)) = Total(F, Before(S, i - 1)) + (IF i \in S THEN F[i] ELSE 0)
  <2>1. i - 1 \in 0..n /\ i \in Nat
    OBVIOUS
  <2>2. Total(F, Before(S, i - 1)) \in Nat /\ F[i] \in Nat
    BY <1>0, <1>4, <1>b, <2>1
  <2>3. CASE i \in S
    <3>1. i <= i /\ \A j \in S : (j <= i /\ j # i) <=> j <= i - 1
      BY <1>a, <2>1
    <3>2. i \in Before(S, i) /\ Before(S, i) \ {i} = Before(S, i - 1)
      BY <2>3, <3>1, Zenon DEF Before
    <3>3. Total(F, Before(S, i)) = F[i] + Total(F, Before(S, i) \ {i})
      BY <1>1, <1>3, <3>2
    <3> HIDE DEF Before
    <3>4. Total(F, Before(S, i)) = F[i] + Total(F, Before(S, i - 1))
      BY <3>2, <3>3
    <3> DEFINE u == Total(F, Before(S, i))
               v == Total(F, Before(S, i - 1))
    <3>5. u = F[i] + v /\ v \in Nat /\ F[i] \in Nat
      BY <2>2, <3>4
    <3> HIDE DEF u, v
    <3>6. u = v + F[i]
      BY <3>5
    <3> QED BY <2>3, <3>6 DEF u, v
  <2>4. CASE i \notin S
    <3>1. \A j \in S : (j <= i) <=> (j <= i - 1)
      BY <1>a, <2>1, <2>4
    <3>2. Before(S, i) = Before(S, i - 1)
      BY <3>1 DEF Before
    <3>3. Total(F, Before(S, i - 1)) = Total(F, Before(S, i - 1)) + 0
      BY <2>2
    <3> QED BY <2>4, <3>2, <3>3
  <2> QED BY <2>3, <2>4
<1> DEFINE T == [i \in 0..n |-> Total(F, Before(S, i))]
<1>6. T \in [0..n -> Nat]
  BY <1>4
<1>7. T[0] = 0 /\ \A i \in 0..n : T[i] <= Total(F, S)
  <2>1. Total(F, Before(S, 0)) = 0
    BY <1>1, <1>2
  <2>2. T[0] = Total(F, Before(S, 0))
    OBVIOUS
  <2>3. \A i \in 0..n : T[i] <= Total(F, S)
    BY <1>4
  <2> HIDE DEF T
  <2> QED BY <2>1, <2>2, <2>3
<1>8. ASSUME NEW i \in 1..n PROVE T[i] = T[i - 1] + (IF i \in S THEN F[i] ELSE 0)
  <2>1. T[i] = Total(F, Before(S, i)) /\ T[i - 1] = Total(F, Before(S, i - 1))
    OBVIOUS
  <2> HIDE DEF T
  <2> QED BY <1>5, <2>1
<1> HIDE DEF T
<1> QED BY <1>6, <1>7, <1>8

(* A group of n payments and transfers. *)
Transfers(txs, n) ==
  /\ n \in Nat /\ Len(txs) = n
  /\ \A i \in 1..n : Legible(txs[i]) /\ txs[i].op \in {"pay", "asa"}

(* T is what account x has paid up to each transaction, or transferred. *)
Paid(T, txs, n, x) ==
  /\ T \in [0..n -> Nat] /\ T[0] = 0
  /\ \A i \in 1..n :
       T[i] = T[i - 1] + (IF txs[i].from = x THEN txs[i].amt + txs[i].fee ELSE 0)

Transferred(T, txs, n, x) ==
  /\ T \in [0..n -> Nat] /\ T[0] = 0
  /\ \A i \in 1..n :
       T[i] = T[i - 1] + (IF txs[i].op = "asa" /\ txs[i].from = x THEN txs[i].amt ELSE 0)

(* Account x transfers nothing, and is transferred something only with a holding. *)
PaysOnly(L, txs, n, x) ==
  \A i \in 1..n : /\ txs[i].from = x => txs[i].op = "pay"
                  /\ txs[i].to = x /\ txs[i].op = "asa" => OptedIn(L[x])

(* Such an account keeps its funds but for the payments it makes, and its minimum  *)
(* balance stays.                                                                 *)
LEMMA FundsAlong ==
  ASSUME NEW L \in Books, NEW txs, NEW n, Transfers(txs, n),
         NEW x \in Accounts, L[x].asset >= NoHolding, PaysOnly(L, txs, n, x),
         NEW T, Paid(T, txs, n, x)
  PROVE  \A i \in 0..n : /\ States(L, txs)[i][x].algo >= L[x].algo - T[i]
                         /\ MinBalance(States(L, txs)[i][x]) = MinBalance(L[x])
<1> DEFINE st == States(L, txs)
           P == {i \in 0..n : /\ st[i][x].algo >= L[x].algo - T[i]
                              /\ st[i][x].extras = L[x].extras
                              /\ OptedIn(st[i][x]) = OptedIn(L[x])
                              /\ st[i][x].asset >= NoHolding}
<1>0. n \in Nat /\ Len(txs) = n /\ \A i \in 1..n : Legible(txs[i])
  BY DEF Transfers
<1>1. st[0] = L /\ \A i \in 1..n : st[i] = Apply(st[i - 1], txs[i])
  BY <1>0, StatesFacts
<1>2. \A i \in 0..n : st[i] \in Books
  BY <1>0, StatesType
<1> HIDE DEF st
<1>3. T[0] = 0 /\ \A i \in 0..n : T[i] \in Nat
  BY DEF Paid
<1>a. L[x].algo \in Int /\ \A i \in 0..n : st[i][x].algo \in Int /\ st[i][x].asset \in Int
  BY <1>2 DEF Books
<1>4. 0 \in P
  <2>1. st[0][x].algo >= L[x].algo - T[0]
    BY <1>1, <1>3, <1>a
  <2> QED BY <1>0, <1>1, <2>1
<1>5. ASSUME NEW i \in 1..n, i - 1 \in P PROVE i \in P
  <2> DEFINE A == st[i - 1]
             t == txs[i]
  <2>0. i - 1 \in 0..n /\ i \in 0..n
    BY <1>0
  <2>1. /\ A \in Books /\ Legible(t) /\ st[i] = Apply(A, t)
        /\ A[x].algo >= L[x].algo - T[i - 1]
        /\ A[x].extras = L[x].extras
        /\ OptedIn(A[x]) = OptedIn(L[x])
        /\ A[x].asset >= NoHolding
    BY <1>0, <1>1, <1>2, <1>5, <2>0
  <2>2. /\ A[x].algo \in Int /\ L[x].algo \in Int /\ T[i - 1] \in Nat /\ A[x].asset \in Int
        /\ Apply(A, t)[x].algo \in Int /\ t.amt \in Nat /\ t.fee \in Nat
        /\ Apply(A, t)[x].asset \in Int
    BY <1>3, <1>a, <2>0, <2>1 DEF Legible
  <2>3. T[i] = T[i - 1] + (IF t.from = x THEN t.amt + t.fee ELSE 0)
    BY DEF Paid
  <2>6. (t.op = "pay" \/ t.op = "asa") /\ (t.op = "asa" => t.from # x /\ (t.to = x => OptedIn(L[x])))
    BY DEF PaysOnly, Transfers
  <2> HIDE DEF A, t, P
  <2>7. SUFFICES /\ st[i][x].algo >= L[x].algo - T[i]
                 /\ st[i][x].extras = L[x].extras
                 /\ OptedIn(st[i][x]) = OptedIn(L[x])
                 /\ st[i][x].asset >= NoHolding
    BY <2>0 DEF P
  <2>4. CASE t.op = "pay"
    <3>1. /\ Apply(A, t)[x].algo >= A[x].algo - (IF x = t.from THEN t.amt + t.fee ELSE 0)
          /\ Apply(A, t)[x].asset = A[x].asset
          /\ Apply(A, t)[x].extras = A[x].extras
      BY <2>1, <2>4, ApplyPay
    <3>2. OptedIn(st[i][x]) = OptedIn(L[x]) /\ st[i][x].asset >= NoHolding
      BY <2>1, <3>1 DEF OptedIn
    <3>3. st[i][x].algo >= L[x].algo - T[i]
      <4>1. CASE t.from = x
        BY <2>1, <2>2, <2>3, <3>1, <4>1
      <4>2. CASE t.from # x
        BY <2>1, <2>2, <2>3, <3>1, <4>2
      <4> QED BY <4>1, <4>2
    <3> QED BY <2>1, <3>1, <3>2, <3>3
  <2>5. CASE t.op = "asa"
    <3>0. t.from # x /\ (t.to = x => OptedIn(L[x]))
      BY <2>5, <2>6
    <3>1. /\ Apply(A, t)[x].algo = A[x].algo
          /\ Apply(A, t)[x].asset >= A[x].asset
          /\ x # t.to => Apply(A, t)[x].asset = A[x].asset
          /\ Apply(A, t)[x].extras = A[x].extras
      BY <2>1, <2>2, <2>5, <3>0, ApplyAsa
    <3>2. OptedIn(st[i][x]) = OptedIn(L[x]) /\ st[i][x].asset >= NoHolding
      BY <2>1, <2>2, <3>0, <3>1 DEF OptedIn, NoHolding
    <3>3. st[i][x].algo >= L[x].algo - T[i]
      BY <2>1, <2>2, <2>3, <3>0, <3>1
    <3> QED BY <2>1, <3>1, <3>2, <3>3
  <2> QED BY <2>4, <2>5, <2>6
<1> HIDE DEF P
<1>6. \A i \in 0..n : i \in P
  BY <1>0, <1>4, <1>5, UpTo
<1>7. \A i \in 0..n : st[i][x].algo >= L[x].algo - T[i] /\ MinBalance(st[i][x]) = MinBalance(L[x])
  BY <1>6 DEF P, MinBalance
<1> QED BY <1>7 DEF st

(* Any account keeps of the asset what it does not transfer. *)
LEMMA HoldingsAlong ==
  ASSUME NEW L \in Books, NEW txs, NEW n, Transfers(txs, n),
         NEW x \in Accounts, NEW T, Transferred(T, txs, n, x)
  PROVE  \A i \in 0..n : States(L, txs)[i][x].asset >= L[x].asset - T[i]
<1> DEFINE st == States(L, txs)
           P == {i \in 0..n : st[i][x].asset >= L[x].asset - T[i]}
<1>0. n \in Nat /\ Len(txs) = n /\ \A i \in 1..n : Legible(txs[i])
  BY DEF Transfers
<1>1. st[0] = L /\ \A i \in 1..n : st[i] = Apply(st[i - 1], txs[i])
  BY <1>0, StatesFacts
<1>2. \A i \in 0..n : st[i] \in Books
  BY <1>0, StatesType
<1> HIDE DEF st
<1>3. T[0] = 0 /\ \A i \in 0..n : T[i] \in Nat
  BY DEF Transferred
<1>a. L[x].asset \in Int /\ \A i \in 0..n : st[i][x].asset \in Int
  BY <1>2 DEF Books
<1>4. 0 \in P
  <2>1. st[0][x].asset >= L[x].asset - T[0]
    BY <1>1, <1>3, <1>a
  <2> QED BY <1>0, <2>1
<1>5. ASSUME NEW i \in 1..n, i - 1 \in P PROVE i \in P
  <2> DEFINE A == st[i - 1]
             t == txs[i]
  <2>0. i - 1 \in 0..n /\ i \in 0..n
    BY <1>0
  <2>1. /\ A \in Books /\ Legible(t) /\ st[i] = Apply(A, t)
        /\ A[x].asset >= L[x].asset - T[i - 1]
    BY <1>0, <1>1, <1>2, <1>5, <2>0
  <2>2. /\ A[x].asset \in Int /\ L[x].asset \in Int /\ T[i - 1] \in Nat
        /\ Apply(A, t)[x].asset \in Int /\ t.amt \in Nat
    BY <1>3, <1>a, <2>0, <2>1 DEF Legible
  <2>3. T[i] = T[i - 1] + (IF t.op = "asa" /\ t.from = x THEN t.amt ELSE 0)
    BY DEF Transferred
  <2>6. t.op = "pay" \/ t.op = "asa"
    BY DEF Transfers
  <2> HIDE DEF A, t, P
  <2>7. SUFFICES st[i][x].asset >= L[x].asset - T[i]
    BY <2>0 DEF P
  <2>4. CASE t.op = "pay"
    <3>1. Apply(A, t)[x].asset = A[x].asset
      BY <2>1, <2>4, ApplyPay
    <3> QED BY <2>1, <2>2, <2>3, <2>4, <3>1
  <2>5. CASE t.op = "asa"
    <3>1. Apply(A, t)[x].asset >= A[x].asset - (IF x = t.from THEN t.amt ELSE 0)
      BY <2>1, <2>5, ApplyAsa
    <3>2. CASE t.from = x
      BY <2>1, <2>2, <2>3, <2>5, <3>1, <3>2
    <3>3. CASE t.from # x
      BY <2>1, <2>2, <2>3, <2>5, <3>1, <3>3
    <3> QED BY <3>2, <3>3
  <2> QED BY <2>4, <2>5, <2>6
<1> HIDE DEF P
<1>6. \A i \in 0..n : i \in P
  BY <1>0, <1>4, <1>5, UpTo
<1> QED BY <1>6 DEF P, st

-----------------------------------------------------------------------------
(* Refusals.                                                                *)

(* A refusal names an objection that holds. *)
LEMMA RefusalIsObjection ==
  ASSUME NEW L, NEW t, Refusal(L, t) # "ok"
  PROVE  \E k \in 1..8 : Objections(L, t)[k][1] /\ Refusal(L, t) = Objections(L, t)[k][2]
<1> DEFINE O == Objections(L, t)
           H == {k \in DOMAIN O : O[k][1]}
<1>1. DOMAIN O = 1..8
  BY DEF Objections
<1> HIDE DEF O
<1>2. H # {} /\ Refusal(L, t) = O[Min(H)][2]
  BY DEF Refusal, O
<1>3. Min(H) \in H
  BY <1>1, <1>2, MinFacts
<1> QED BY <1>1, <1>2, <1>3 DEF O

(* What each refusal means. *)
LEMMA RefusalFacts ==
  ASSUME NEW L, NEW t
  PROVE  /\ Refusal(L, t) = "authority" => t.auth # L[t.from].auth
         /\ Refusal(L, t) = "overspend" =>
              L[t.from].algo < t.fee + (IF t.op = "pay" THEN t.amt ELSE 0)
         /\ Refusal(L, t) = "holding" =>
              \/ t.op = "asa" /\ (~OptedIn(L[t.from]) \/ ~OptedIn(L[t.to]) \/ L[t.from].asset < t.amt)
              \/ t.op = "optin" /\ OptedIn(L[t.from])
              \/ t.op = "optout" /\ (~OptedIn(L[t.from]) \/ ~OptedIn(L[t.to]))
         /\ Refusal(L, t) = "inuse" =>
              t.op = "close" /\ (OptedIn(L[t.from]) \/ L[t.from].extras \/ L[t.from].online)
         /\ Refusal(L, t) = "belowmin" =>
              t.op # "close" /\ Apply(L, t)[t.from].algo < MinBalance(Apply(L, t)[t.from])
<1> DEFINE O == Objections(L, t)
<1>1. CASE Refusal(L, t) = "ok"
  BY <1>1
<1>2. CASE Refusal(L, t) # "ok"
  <2>1. PICK k \in 1..8 : O[k][1] /\ Refusal(L, t) = O[k][2]
    BY <1>2, RefusalIsObjection
  <2>2. CASE k = 1
    BY <2>1, <2>2 DEF Objections
  <2>3. CASE k = 2
    BY <2>1, <2>3 DEF Objections
  <2>4. CASE k = 3
    BY <2>1, <2>4 DEF Objections
  <2>5. CASE k = 4
    BY <2>1, <2>5 DEF Objections
  <2>6. CASE k = 5
    BY <2>1, <2>6 DEF Objections
  <2>7. CASE k = 6
    BY <2>1, <2>7 DEF Objections
  <2>8. CASE k = 7
    BY <2>1, <2>8 DEF Objections
  <2>9. CASE k = 8
    BY <2>1, <2>9 DEF Objections
  <2> QED BY <2>1, <2>2, <2>3, <2>4, <2>5, <2>6, <2>7, <2>8, <2>9
<1> QED BY <1>1, <1>2

(* A verdict that is no success is the refusal of one of the transactions,   *)
(* in the state the ones before it lead to.                                  *)
LEMMA VerdictFacts ==
  ASSUME NEW L, NEW txs, Len(txs) \in Nat, Verdict(L, txs).why # "ok"
  PROVE  /\ Verdict(L, txs).at \in 1..Len(txs)
         /\ Verdict(L, txs).why
              = Refusal(States(L, txs)[Verdict(L, txs).at - 1], txs[Verdict(L, txs).at])
<1> DEFINE refused == {i \in 1..Len(txs) : Refusal(States(L, txs)[i - 1], txs[i]) # "ok"}
<1>1. refused # {} /\ refused \in SUBSET Nat
  BY DEF Verdict
<1>2. Min(refused) \in refused
  BY <1>1, MinFacts
<1>3. Verdict(L, txs) = [why |-> Refusal(States(L, txs)[Min(refused) - 1], txs[Min(refused)]),
                         at |-> Min(refused)]
  BY <1>1 DEF Verdict
<1> QED BY <1>2, <1>3
=============================================================================
