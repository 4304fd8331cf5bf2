------------------------- MODULE GuardedSignProofs -------------------------
(***************************************************************************)
(* Theorems about GuardedSign, for every set of prepared groups and of     *)
(* plan answers.                                                           *)
(***************************************************************************)
EXTENDS GuardedSign, WellFoundedInduction, SequenceTheorems, TLAPS

(* A nonempty set of numbers has a least element. *)
LEMMA LeastNat ==
  ASSUME NEW S \in SUBSET Nat, S # {}
  PROVE  \E m \in S : \A n \in S : m <= n
<1>1. \E m \in S : \A n \in S : ~(<<n, m>> \in OpToRel(<, Nat))
  BY NatLessThanWellFounded, WFMin
<1>2. PICK m \in S : \A n \in S : ~(<<n, m>> \in OpToRel(<, Nat))
  BY <1>1
<1>3. \A n \in S : ~(n < m)
  BY <1>2 DEF OpToRel
<1> QED
  BY <1>3

-----------------------------------------------------------------------------
(* The plan checks, on their own. *)

(* Soundness: an answer that passes the checks is a permitted rewriting. *)
LEMMA AcceptedIsPermitted ==
  ASSUME NEW g \in Seq(Txns), NEW a \in Answers,
         DecodesCanonically(a), PlanAcceptable(g, a.txns, a.report)
  PROVE  Permitted(g, a.txns)
<1> DEFINE t == a.txns
<1>1. /\ t \in Seq(Txns) /\ Len(t) \in Nat /\ Len(g) \in Nat
      /\ DOMAIN t = 1..Len(t) /\ DOMAIN g = 1..Len(g)
  BY DEF Answers
<1>2. Len(t) \in Len(g)..MaxGroup
  BY <1>1, MaxGroupAssumption DEF DecodesCanonically, PlanAcceptable
<1>3. ASSUME NEW i \in DOMAIN g PROVE t[i].body = g[i].body /\ t[i].fee >= g[i].fee
  <2>1. OnlyReportedChanges(g, t, a.report)
    BY DEF PlanAcceptable
  <2>2. g[i] \in Txns
    BY <1>1
  <2>3. g[i].fee \in Nat
    BY <2>2 DEF Txns
  <2> DEFINE f == IF i \in FeeModified(a.report) THEN t[i].fee ELSE g[i].fee
             h == IF a.report.groupIdChanged THEN t[i].grp ELSE g[i].grp
  <2>4. /\ i \in FeeModified(a.report) => t[i].fee >= g[i].fee
        /\ t[i] = [body |-> g[i].body, fee |-> f, grp |-> h]
    BY <2>1 DEF OnlyReportedChanges
  <2> HIDE DEF t, h
  <2>5. t[i].body = g[i].body /\ t[i].fee = f
    BY <2>4
  <2> QED
    BY <2>3, <2>4, <2>5
<1>4. ASSUME NEW i \in DOMAIN t \ DOMAIN g
      PROVE  t[i].body = [owner |-> "dummy", note |-> i - Len(g) - 1] /\ t[i].fee = 0
  <2>1. i \in (Len(g) + 1)..Len(t)
    BY <1>1
  <2> QED
    BY <2>1 DEF PlanAcceptable, DummiesCanonical, CanonicalDummy
<1>5. ASSUME NEW i \in DOMAIN t
      PROVE  t[i].grp = IF Len(t) = 1 THEN NoGroup ELSE GroupId(t)
  BY <1>1 DEF DecodesCanonically
<1> QED
  BY <1>2, <1>3, <1>4, <1>5 DEF Permitted

(* Completeness: a truthful planner passes them. *)
LEMMA HonestIsAccepted ==
  ASSUME NEW g \in Seq(Txns), g # << >>, NEW a \in Answers, Honest(g, a)
  PROVE  DecodesCanonically(a) /\ PlanAcceptable(g, a.txns, a.report)
<1> DEFINE t == a.txns
           r == a.report
           changed == {i \in DOMAIN g : t[i].fee # g[i].fee}
           regrouped == \E i \in DOMAIN g : t[i].grp # g[i].grp
<1>1. /\ t \in Seq(Txns) /\ Len(t) \in Nat /\ Len(g) \in Nat
      /\ DOMAIN t = 1..Len(t) /\ DOMAIN g = 1..Len(g)
      /\ r \in Reports /\ DOMAIN r.feesModified = 1..Len(r.feesModified)
  BY DEF Answers, Reports
<1>2. /\ a.decodable /\ Permitted(g, t)
      /\ regrouped => ReallyChanged(g, t)
  BY DEF Honest
<1>3. Len(g) >= 1 /\ Len(t) \in Len(g)..MaxGroup
  BY <1>1, <1>2 DEF Permitted
<1>4. DecodesCanonically(a)
  <2>1. CASE Len(t) = 1
    BY <1>1, <1>2, <1>3, <2>1, MaxGroupAssumption DEF DecodesCanonically, Permitted
  <2>2. CASE Len(t) # 1
    BY <1>1, <1>2, <1>3, <2>2, MaxGroupAssumption DEF DecodesCanonically, Permitted
  <2> QED
    BY <2>1, <2>2
<1>5. /\ CountsMatch(g, t, r)
      /\ FeeModified(r) = changed
      /\ r.groupIdChanged = regrouped
      /\ \A j, k \in DOMAIN r.feesModified : j # k => r.feesModified[j] # r.feesModified[k]
      /\ r.present => r.totalFeesDelta = FeesDelta(g, t, changed)
  <2>1. CASE r.present
    BY <2>1 DEF Honest, CountsMatch, Appended
  <2>2. CASE ~r.present
    <3>1. Len(t) = Len(g) /\ changed = {} /\ ~regrouped /\ r = Unreported
      BY <2>2 DEF Honest
    <3>2. r.feesModified = << >> /\ r.groupIdChanged = FALSE
      BY <3>1 DEF Unreported
    <3>3. FeeModified(r) = {}
      BY <3>2 DEF FeeModified
    <3>4. CountsMatch(g, t, r)
      BY <2>2, <3>1, <1>1 DEF CountsMatch, Appended
    <3>5. \A j, k \in DOMAIN r.feesModified : j # k => r.feesModified[j] # r.feesModified[k]
      BY <3>2
    <3>6. r.groupIdChanged = regrouped
      BY <3>1, <3>2
    <3> HIDE DEF r, changed, regrouped
    <3> QED
      BY <2>2, <3>1, <3>3, <3>4, <3>5, <3>6
  <2> QED
    BY <2>1, <2>2
<1>6. FeeIndicesValid(g, r)
  BY <1>1, <1>5 DEF FeeIndicesValid, FeeModified
<1>7. RegroupingReasoned(g, t, r)
  <2> SUFFICES ASSUME r.groupIdChanged
               PROVE  \/ Len(t) - Len(g) # 0
                      \/ FeeModified(r) # {}
                      \/ \E i \in DOMAIN g : g[i].grp = NoGroup
    BY DEF RegroupingReasoned, Appended
  <2>1. ReallyChanged(g, t)
    BY <1>2, <1>5
  <2>2. CASE Len(t) # Len(g)
    BY <1>1, <2>2
  <2>3. CASE \E i \in DOMAIN g : t[i].fee # g[i].fee
    BY <1>5, <2>3
  <2> QED
    BY <2>1, <2>2, <2>3 DEF ReallyChanged
<1>8. OnlyReportedChanges(g, t, r)
  <2> SUFFICES ASSUME NEW i \in DOMAIN g
               PROVE  /\ i \in FeeModified(r) => t[i].fee >= g[i].fee
                      /\ t[i] = [body |-> g[i].body,
                                 fee  |-> IF i \in FeeModified(r) THEN t[i].fee ELSE g[i].fee,
                                 grp  |-> IF r.groupIdChanged THEN t[i].grp ELSE g[i].grp]
    BY DEF OnlyReportedChanges
  <2>1. t[i].body = g[i].body /\ t[i].fee >= g[i].fee
    BY <1>2 DEF Permitted
  <2>2. t[i] \in Txns
    BY <1>1, <1>3
  <2>3. i \notin FeeModified(r) => t[i].fee = g[i].fee
    BY <1>5
  <2>4. ~r.groupIdChanged => t[i].grp = g[i].grp
    BY <1>5
  <2>5. t[i] = [body |-> t[i].body, fee |-> t[i].fee, grp |-> t[i].grp]
    BY <2>2 DEF Txns
  <2> QED
    BY <2>1, <2>3, <2>4, <2>5
<1>9. DummiesCanonical(g, t)
  <2> SUFFICES ASSUME NEW i \in (Len(g) + 1)..Len(t)
               PROVE  CanonicalDummy(t[i], i - Len(g) - 1)
    BY DEF DummiesCanonical
  <2>1. i \in DOMAIN t \ DOMAIN g
    BY <1>1
  <2> QED
    BY <1>2, <2>1 DEF CanonicalDummy, Permitted
<1> QED
  BY <1>1, <1>3, <1>4, <1>5, <1>6, <1>7, <1>8, <1>9 DEF PlanAcceptable

-----------------------------------------------------------------------------
(* The invariant, action by action. *)

LEMMA InitInv == Init => IInv
<1> SUFFICES ASSUME Init PROVE IInv
  OBVIOUS
<1>1. cosigner \in UNION {[S -> Cosigners] : S \in SUBSET Positions}
  <2>1. << >> \in Seq(Cosigners) /\ Len(<< >>) = 0
    OBVIOUS
  <2>2. << >> \in [1..0 -> Cosigners]
    BY <2>1, LenProperties
  <2>3. 1..0 = {}
    OBVIOUS
  <2> QED
    BY <2>2, <2>3 DEF Init
<1>2. TypeOK
  <2>1. frozen \in Seq(Txns) /\ released \in Seq(Txns)
    BY EmptySeq DEF Init
  <2>2. kinds \in [Positions -> Flows] /\ held \subseteq Positions
    BY DEF Init
  <2>3. /\ pc \in PCs /\ flow \in {"guarded", "bounded"}
        /\ result \in {"none", "error", "invalid", "released"}
        /\ refused \in BOOLEAN /\ misjudged \in BOOLEAN
    BY DEF Init, PCs
  <2> QED
    BY <1>1, <2>1, <2>2, <2>3, Zenon DEF Init, TypeOK
<1>3. BeforeFreeze /\ ClassifiedInv /\ FrozenInv /\ UserInv /\ CosignInv
  BY DEF Init, BeforeFreeze, ClassifiedInv, FrozenInv, UserInv, CosignInv, Classified
<1> QED
  BY <1>2, <1>3 DEF Init, IInv, CosignerLast, FrozenPermitted, HonestPlanAccepted,
     OwnRequestsValid, ReleaseComplete

(* A classified group has no third kind of position. *)
LEMMA PrimaryIsRest == Classifiable(kinds) => Primary = Positions \ Targets
BY DEF Classifiable, Primary, Targets, OrdinaryFlows, TargetFlow

(* A call that gives up keeps what it has and returns nothing. *)
LEMMA GivingUp ==
  ASSUME IInv, pc # "done", Fail,
         UNCHANGED <<inputs, flow, kinds, frozen, userSigs, signed, strange, cosigner, cosigs,
                     released>>,
         held' \subseteq Positions, asked' \subseteq Targets, shown' \subseteq Cosigners,
         shown' # {} => shown # {} \/ pc = "cosign",
         refused' \in BOOLEAN, refused' => pc \in {"user", "primary"},
         misjudged' = FALSE
  PROVE  IInv'
<1> USE DEF inputs, Fail
<1>1. /\ Positions' = Positions /\ Targets' = Targets /\ Primary' = Primary
      /\ ComparesSigned' = ComparesSigned
  BY DEF Positions, Targets, Primary, ComparesSigned
<1>2. TypeOK'
  BY <1>1 DEF IInv, TypeOK, PCs, Targets
<1>3. BeforeFreeze' /\ ClassifiedInv' /\ FrozenInv'
  BY DEF BeforeFreeze, ClassifiedInv, FrozenInv, Classified
<1>4. UserInv'
  BY <1>1 DEF IInv, UserInv
<1>5. shown' # {} => /\ ~refused' /\ Targets # {}
                     /\ userSigs = Targets /\ signed = Primary /\ Positions \ Targets \subseteq Primary
  <2> HAVE shown' # {}
  <2>1. CASE shown # {}
    BY <2>1 DEF IInv, CosignInv
  <2>2. CASE pc = "cosign"
    <3>1. userSigs = Targets /\ signed = Primary
      BY <2>2 DEF IInv, UserInv
    <3>2. Targets # {} /\ Positions \ Targets \subseteq Primary
      BY <2>2, PrimaryIsRest DEF IInv, ClassifiedInv, Classified, Classifiable, Targets
    <3> QED
      BY <2>2, <3>1, <3>2
  <2> QED
    BY <2>1, <2>2
<1>6. CosignInv' /\ CosignerLast'
  BY <1>1, <1>4, <1>5 DEF CosignInv, CosignerLast, UserInv
<1>7. FrozenPermitted'
  BY <1>1 DEF IInv, FrozenPermitted
<1>8. HonestPlanAccepted' /\ OwnRequestsValid' /\ ReleaseComplete'
  BY DEF HonestPlanAccepted, OwnRequestsValid, ReleaseComplete
<1> QED
  BY <1>2, <1>3, <1>4, <1>6, <1>7, <1>8 DEF IInv

(* Up to the plan request there is nothing yet that could be wrong. *)
LEMMA Classifying ==
  ASSUME IInv, pc \in {"dispatch", "build"},
         UNCHANGED <<inputs, frozen, sigs, refused, misjudged, released>>,
         flow' \in {"guarded", "bounded"}, held' \subseteq Positions,
         kinds' \in [Positions -> Flows],
         pc' \in {"build", "plan", "done"}, pc' = "plan" => Classifiable(kinds)',
         IF pc' = "done" THEN result' = "error" ELSE UNCHANGED result
  PROVE  IInv'
<1> USE DEF inputs, sigs
<1>1. Positions' = Positions
  BY DEF Positions
<1>2. /\ frozen = << >> /\ asked = {} /\ userSigs = {} /\ signed = {} /\ strange = {}
      /\ cosigs = {} /\ shown = {} /\ result = "none" /\ ~refused
  BY DEF IInv, BeforeFreeze, CosignInv
<1>3. TypeOK'
  BY <1>1 DEF IInv, TypeOK, PCs
<1>4. BeforeFreeze' /\ ClassifiedInv' /\ FrozenInv'
  BY <1>2 DEF BeforeFreeze, ClassifiedInv, FrozenInv, Classified
<1>5. UserInv' /\ CosignInv' /\ CosignerLast'
  BY <1>2 DEF UserInv, CosignInv, CosignerLast
<1>6. FrozenPermitted' /\ HonestPlanAccepted' /\ OwnRequestsValid'
  BY <1>2 DEF IInv, FrozenPermitted, HonestPlanAccepted, OwnRequestsValid
<1>7. ReleaseComplete'
  BY <1>2 DEF ReleaseComplete
<1> QED
  BY <1>3, <1>4, <1>5, <1>6, <1>7 DEF IInv

LEMMA DispatchInv == IInv /\ Dispatch => IInv'
<1> SUFFICES ASSUME IInv, Dispatch PROVE IInv'
  OBVIOUS
<1>1. held' \subseteq Positions
  BY DEF Dispatch, IInv, TypeOK
<1>2. kinds' \in [Positions -> Flows] /\ flow' \in {"guarded", "bounded"}
  BY DEF Dispatch
<1>3. pc' \in {"build", "done"} /\ IF pc' = "done" THEN result' = "error" ELSE UNCHANGED result
  BY DEF Dispatch, Fail, Goto
<1> QED
  BY <1>1, <1>2, <1>3, Classifying DEF Dispatch

LEMMA BuildInv == IInv /\ Build => IInv'
<1> SUFFICES ASSUME IInv, Build PROVE IInv'
  OBVIOUS
<1>1. PICK k \in [Positions -> Flows] :
        kinds' = k /\ IF Classifiable(k) THEN Goto("plan") ELSE Fail
  BY DEF Build
<1>2. pc' \in {"plan", "done"} /\ IF pc' = "done" THEN result' = "error" ELSE UNCHANGED result
  BY <1>1 DEF Fail, Goto
<1>3. pc' = "plan" => Classifiable(kinds)'
  BY <1>1 DEF Build, Fail, Classifiable, Positions, inputs
<1>4. flow' \in {"guarded", "bounded"}
  BY DEF Build, IInv, TypeOK
<1> QED
  BY <1>1, <1>2, <1>3, <1>4, Classifying DEF Build

LEMMA PlanInv == IInv /\ Plan => IInv'
<1> SUFFICES ASSUME IInv, Plan PROVE IInv'
  OBVIOUS
<1> USE DEF inputs, sigs
<1>1. PICK a \in PlanAnswers(group) :
        IF Accepts(a)
        THEN frozen' = a.txns /\ Goto("user") /\ UNCHANGED misjudged
        ELSE /\ Fail
             /\ misjudged' = (Honest(group, a) /\ ~OverCeiling(a))
             /\ UNCHANGED frozen
  BY DEF Plan
<1>2. /\ pc = "plan" /\ Classifiable(kinds) /\ group \in Groups
      /\ UNCHANGED <<inputs, flow, held, kinds, sigs, refused, released>>
  BY DEF Plan, IInv, ClassifiedInv, Classified, TypeOK
<1>3. group \in Seq(Txns) /\ group # << >> /\ a \in Answers
  BY <1>2, GroupsAssumption, AnswersAssumption DEF Classifiable, Positions
<1>4. /\ frozen = << >> /\ asked = {} /\ userSigs = {} /\ signed = {} /\ strange = {}
      /\ cosigs = {} /\ shown = {} /\ result = "none" /\ ~refused
  BY <1>2 DEF IInv, BeforeFreeze, CosignInv
<1>5. CASE ~Accepts(a)
  <2>1. ~(Honest(group, a) /\ ~OverCeiling(a))
    BY <1>3, <1>5, HonestIsAccepted DEF Accepts, OverCeiling
  <2>2. /\ held' \subseteq Positions /\ asked' \subseteq Targets /\ shown' \subseteq Cosigners
        /\ refused' \in BOOLEAN /\ ~refused' /\ shown' = {} /\ misjudged' = FALSE
    BY <1>1, <1>2, <1>4, <1>5, <2>1 DEF IInv, TypeOK
  <2> QED
    BY <1>1, <1>2, <1>5, <2>2, GivingUp
<1>6. CASE Accepts(a)
  <2>1. Positions' = Positions /\ Targets' = Targets
    BY <1>2 DEF Positions, Targets
  <2>2. frozen' = a.txns /\ pc' = "user" /\ result' = result /\ misjudged' = misjudged
    BY <1>1, <1>6 DEF Goto
  <2>3. Permitted(group, frozen') /\ frozen' \in Seq(Txns) /\ frozen' # << >>
    BY <1>3, <1>6, <2>2, AcceptedIsPermitted DEF Accepts, Answers, DecodesCanonically
  <2>4. TypeOK'
    BY <1>2, <2>1, <2>2, <2>3 DEF IInv, TypeOK, PCs
  <2>5. Targets # {}
    BY <1>2 DEF Classifiable, Targets
  <2>6. ClassifiedInv'
    BY <1>2, <2>1 DEF ClassifiedInv, Classifiable
  <2>7. BeforeFreeze' /\ FrozenInv' /\ UserInv'
    BY <1>2, <1>4, <2>1, <2>2, <2>3, <2>5 DEF BeforeFreeze, FrozenInv, UserInv
  <2>8. CosignInv' /\ CosignerLast'
    BY <1>2, <1>4, <2>2 DEF CosignInv, CosignerLast
  <2>9. FrozenPermitted'
    BY <1>2, <1>6, <2>1, <2>2, <2>3 DEF FrozenPermitted, Accepts, TargetFeesWithin
  <2>10. HonestPlanAccepted' /\ OwnRequestsValid' /\ ReleaseComplete'
    BY <1>4, <2>2 DEF IInv, HonestPlanAccepted, OwnRequestsValid, ReleaseComplete
  <2> QED
    BY <2>4, <2>6, <2>7, <2>8, <2>9, <2>10 DEF IInv
<1> QED
  BY <1>5, <1>6

(* What the frozen group has to do with the caller's, once there is one. *)
LEMMA FrozenFacts ==
  ASSUME IInv, pc \in Classified \ {"plan"}
  PROVE  /\ group \in Seq(Txns) /\ frozen \in Seq(Txns)
         /\ Len(group) \in Nat \ {0} /\ Len(frozen) \in Len(group)..MaxGroup
         /\ Positions = 1..Len(group) /\ DOMAIN frozen = 1..Len(frozen)
         /\ Targets # {} /\ Targets \subseteq Positions
         /\ Primary = Positions \ Targets /\ OnceEach(Targets, Primary, Dummies)
         /\ DummyPositions \in Seq(Nat) /\ Len(DummyPositions) = Len(frozen) - Len(group)
         /\ \A k \in DOMAIN DummyPositions : DummyPositions[k] = Len(group) + k
<1>1. group \in Seq(Txns) /\ frozen \in Seq(Txns) /\ frozen # << >>
  BY GroupsAssumption DEF IInv, TypeOK, FrozenInv
<1>2. Classifiable(kinds)
  BY DEF IInv, ClassifiedInv
<1>3. Targets # {} /\ Targets \subseteq Positions
  BY <1>2 DEF Classifiable, Targets
<1>4. Positions = 1..Len(group) /\ DOMAIN frozen = 1..Len(frozen) /\ Len(group) \in Nat
  BY <1>1 DEF Positions
<1>5. Len(group) \in Nat \ {0}
  <2>1. PICK i \in Targets : i \in 1..Len(group)
    BY <1>3, <1>4
  <2> QED
    BY <1>4, <2>1
<1>6. Len(frozen) \in Len(group)..MaxGroup
  BY <1>1 DEF IInv, FrozenPermitted, Permitted
<1>7. /\ DummyPositions \in Seq(Nat) /\ Len(DummyPositions) = Len(frozen) - Len(group)
      /\ \A k \in DOMAIN DummyPositions : DummyPositions[k] = Len(group) + k
  BY <1>5, <1>6, MaxGroupAssumption DEF DummyPositions
<1>8. Dummies = (Len(group) + 1)..Len(frozen)
  <2>1. DOMAIN DummyPositions = 1..(Len(frozen) - Len(group))
    BY DEF DummyPositions
  <2>2. ASSUME NEW i \in (Len(group) + 1)..Len(frozen)
        PROVE  i - Len(group) \in DOMAIN DummyPositions /\ DummyPositions[i - Len(group)] = i
    BY <1>5, <1>6, <1>7, <2>1, MaxGroupAssumption
  <2>3. ASSUME NEW k \in DOMAIN DummyPositions
        PROVE  DummyPositions[k] \in (Len(group) + 1)..Len(frozen)
    BY <1>5, <1>6, <1>7, <2>1, MaxGroupAssumption
  <2> QED BY <2>2, <2>3 DEF Dummies
<1>9. Primary = Positions \ Targets
  BY <1>2, PrimaryIsRest
<1>10. OnceEach(Targets, Primary, Dummies)
  <2>1. Targets \union Primary = Positions /\ Targets \intersect Primary = {}
    BY <1>3, <1>9
  <2>2. Positions \intersect Dummies = {} /\ Positions \union Dummies = DOMAIN frozen
    BY <1>4, <1>5, <1>6, <1>8, MaxGroupAssumption
  <2> QED BY <2>1, <2>2, Zenon DEF OnceEach
<1> QED
  BY <1>1, <1>3, <1>4, <1>5, <1>6, <1>7, <1>9, <1>10

(* A request built from some of the targets passes the validator, and asks   *)
(* for exactly those, if the fields it gives them are right.                 *)
LEMMA RequestValid ==
  ASSUME IInv, pc \in Classified \ {"plan"},
         NEW S \in SUBSET Targets, S # {}, NEW n, n = Len(group),
         NEW kind, NEW auth, NEW key,
         NEW r, r = ComponentRequest(S, n, kind, auth, key),
         \A i \in S : TargetFieldsValid(r.targets[i]),
         \A i, j \in S : Alike(r.targets[i], r.targets[j])
  PROVE  ComponentRequestValid(r) /\ Indices(r) = S
<1>1. /\ Len(group) \in Nat \ {0} /\ Len(frozen) \in Len(group)..MaxGroup
      /\ Positions = 1..Len(group) /\ S \subseteq 1..Len(group)
      /\ DummyPositions \in Seq(Nat) /\ Len(DummyPositions) = Len(frozen) - Len(group)
      /\ \A k \in DOMAIN DummyPositions : DummyPositions[k] = Len(group) + k
  BY FrozenFacts
<1>2. /\ DOMAIN r.targets = S /\ \A i \in S : r.targets[i].index = i
      /\ DOMAIN r.context = (1..Len(group)) \ S /\ \A i \in (1..Len(group)) \ S : r.context[i] = i
      /\ r.dummies = DummyPositions
  BY DEF ComponentRequest
<1>3. Indices(r) = S
  BY <1>2 DEF Indices
<1>4. /\ Len(frozen) - Len(r.dummies) = Len(group) /\ Len(r.dummies) <= Len(frozen)
      /\ Len(frozen) \in 1..MaxGroup
  BY <1>1, <1>2, MaxGroupAssumption
<1>5. \A k \in DOMAIN r.dummies : r.dummies[k] = Len(frozen) - Len(r.dummies) + k
  BY <1>1, <1>2, <1>4
<1> DEFINE targets == r.targets
           context == r.context
           original == 1..Len(group)
<1>6. /\ S \subseteq original
      /\ DOMAIN targets = S /\ \A i \in S : targets[i].index = i
      /\ DOMAIN context = original \ S /\ \A i \in original \ S : context[i] = i
      /\ \A i \in S : TargetFieldsValid(targets[i])
      /\ \A i, j \in S : Alike(targets[i], targets[j])
  BY <1>1, <1>2
<1> HIDE DEF targets, context, original
<1>7. \A p \in DOMAIN targets : targets[p].index \in original /\ TargetFieldsValid(targets[p])
  BY <1>6
<1>8. \A p, q \in DOMAIN targets : /\ targets[p].index = targets[q].index => p = q
                                  /\ Alike(targets[p], targets[q])
  BY <1>6
<1>9. /\ \A p \in DOMAIN context : context[p] \in original \ S
      /\ \A p, q \in DOMAIN context : context[p] = context[q] => p = q
  BY <1>6
<1>10. original \subseteq S \union {context[p] : p \in DOMAIN context}
  BY <1>6
<1> QED
  BY <1>2, <1>3, <1>4, <1>5, <1>7, <1>8, <1>9, <1>10
     DEF ComponentRequestValid, targets, context, original

(* There is always a user request left to make while the user is being      *)
(* asked, and it is for targets not asked for yet, among others.            *)
LEMMA UserRequestValid ==
  ASSUME IInv, pc = "user", NEW r \in UserRequests
  PROVE  ComponentRequestValid(r) /\ Indices(r) \subseteq Targets
<1>0. pc \in Classified \ {"plan"}
  BY DEF Classified
<1>1. /\ Targets # {} /\ Targets \subseteq Positions
      /\ Len(DummyPositions) = Len(frozen) - Len(group)
      /\ Len(group) \in Nat /\ Len(frozen) \in Nat
      /\ \A i \in Positions : Auth[i] # NoAddress
  BY <1>0, FrozenFacts, MaxGroupAssumption DEF IInv, ClassifiedInv, Classifiable
<1>2. CASE flow = "bounded"
  <2> DEFINE auth == [i \in Targets |-> Auth[i]]
  <2>1. r = ComponentRequest(Targets, Len(group), "bounded-base", auth, {})
    BY <1>2 DEF UserRequests
  <2>2. \A i \in Targets : TargetFieldsValid(r.targets[i])
    BY <1>1, <2>1 DEF ComponentRequest, TargetFieldsValid
  <2>3. \A i, j \in Targets : Alike(r.targets[i], r.targets[j])
    BY <2>1 DEF ComponentRequest, Alike
  <2> HIDE DEF auth
  <2> QED BY <1>0, <1>1, <2>1, <2>2, <2>3, RequestValid
<1>3. CASE flow # "bounded"
  <2>1. PICK a \in UserAccounts : r = ForIndices(UserGroup(a), "user", a, {})
    BY <1>3 DEF UserRequests
  <2> DEFINE S == UserGroup(a)
             auth == [i \in S |-> a]
  <2>2. S # {} /\ S \subseteq Targets /\ a # NoAddress
    BY <1>1, <2>1 DEF UserAccounts, UserGroup
  <2>3. r = ComponentRequest(S, Len(group), "user", auth, {})
    BY <1>1, <2>1 DEF ForIndices
  <2>4. \A i \in S : TargetFieldsValid(r.targets[i])
    BY <2>2, <2>3 DEF ComponentRequest, TargetFieldsValid
  <2>5. \A i, j \in S : Alike(r.targets[i], r.targets[j])
    BY <2>3 DEF ComponentRequest, Alike
  <2> HIDE DEF auth, S
  <2> QED BY <1>0, <2>2, <2>3, <2>4, <2>5, RequestValid
<1> QED
  BY <1>2, <1>3

(* So is each request to a cosigner, with its own component key. *)
LEMMA CosignerRequestValid ==
  ASSUME IInv, pc = "cosign", NEW S \in SUBSET Targets, S # {}, NEW key,
         NEW r, r = ForIndices(S, "cosigner", NoAddress, key)
  PROVE  ComponentRequestValid(r)
<1>0. pc \in Classified \ {"plan"}
  BY DEF Classified
<1>1. Len(group) \in Nat /\ Len(frozen) \in Nat /\ Len(DummyPositions) = Len(frozen) - Len(group)
  <2>1. /\ Len(group) \in Nat \ {0} /\ Len(frozen) \in Len(group)..MaxGroup
        /\ Len(DummyPositions) = Len(frozen) - Len(group)
    BY <1>0, FrozenFacts
  <2> QED BY <2>1, MaxGroupAssumption
<1> DEFINE auth == [i \in S |-> NoAddress]
<1>2. r = ComponentRequest(S, Len(group), "cosigner", auth, key)
  BY <1>1 DEF ForIndices
<1>3. \A i \in S : TargetFieldsValid(r.targets[i])
  <2>1. ASSUME NEW i \in S
        PROVE  r.targets[i].kind = "cosigner" /\ r.targets[i].auth = NoAddress
    BY <1>2 DEF ComponentRequest
  <2>2. ASSUME NEW i \in S PROVE ~r.targets[i].args
    <3>1. r.targets[i].args = ("cosigner" = "bounded-base")
      BY <1>2 DEF ComponentRequest
    <3> QED BY <3>1
  <2> QED BY <2>1, <2>2 DEF TargetFieldsValid
<1>4. \A i, j \in S : Alike(r.targets[i], r.targets[j])
  BY <1>2 DEF ComponentRequest, Alike
<1> HIDE DEF auth
<1> QED BY <1>0, <1>2, <1>3, <1>4, RequestValid

(* A step past the plan that touches neither inputs, plan nor classification *)
(* keeps everything about them.                                              *)
LEMMA Onward ==
  ASSUME IInv, pc \in Classified \ {"plan"}, pc' \in Classified \ {"plan"},
         UNCHANGED <<inputs, flow, held, kinds, frozen, refused, misjudged, released, result>>,
         asked' \subseteq Positions, userSigs' \subseteq Positions, signed' \subseteq Positions,
         strange' \subseteq Positions, cosigs' \subseteq Positions, shown' \subseteq Cosigners,
         cosigner' \in UNION {[S -> Cosigners] : S \in SUBSET Positions},
         UserInv', CosignInv'
  PROVE  IInv'
<1> USE DEF inputs
<1>1. /\ Positions' = Positions /\ Targets' = Targets /\ Primary' = Primary
      /\ Classifiable(kinds)' = Classifiable(kinds)
  BY DEF Positions, Targets, Primary, Classifiable
<1>2. TypeOK'
  BY <1>1 DEF IInv, TypeOK, PCs, Classified
<1>3. BeforeFreeze' /\ ClassifiedInv' /\ FrozenInv'
  BY <1>1 DEF IInv, BeforeFreeze, ClassifiedInv, FrozenInv, Classified
<1>4. CosignerLast'
  BY DEF CosignInv, CosignerLast, UserInv
<1>5. FrozenPermitted'
  BY <1>1 DEF IInv, FrozenPermitted
<1>6. result = "none"
  BY DEF IInv, CosignInv, Classified
<1>7. HonestPlanAccepted' /\ OwnRequestsValid' /\ ReleaseComplete'
  BY <1>6 DEF IInv, HonestPlanAccepted, OwnRequestsValid, ReleaseComplete
<1> QED
  BY <1>2, <1>3, <1>4, <1>5, <1>7 DEF IInv

LEMMA RequestUserComponentsInv == IInv /\ RequestUserComponents => IInv'
<1> SUFFICES ASSUME IInv, RequestUserComponents PROVE IInv'
  OBVIOUS
<1> USE DEF inputs
<1>1. pc = "user" /\ pc \in Classified \ {"plan"}
  BY DEF RequestUserComponents, Classified
<1>a. PICK r \in UserRequests :
        IF ~ComponentRequestValid(r)
        THEN Invalid /\ UNCHANGED <<asked, userSigs>>
        ELSE \E answer \in SUBSET DOMAIN frozen, authMatches \in BOOLEAN :
               /\ asked' = asked \union Indices(r)
               /\ IF ComponentAnswerValid(answer, Indices(r)) /\ (flow = "bounded" => authMatches)
                  THEN /\ userSigs' = userSigs \union answer
                       /\ Goto(IF Targets \subseteq asked' THEN AfterUser ELSE "user")
                  ELSE Fail /\ UNCHANGED userSigs
  BY DEF RequestUserComponents
<1> DEFINE S == Indices(r)
<1>2. S \subseteq Targets /\ Targets \subseteq Positions /\ ComponentRequestValid(r)
  BY <1>1, UserRequestValid, FrozenFacts
<1> HIDE DEF S
<1>3. /\ userSigs = asked /\ signed = {} /\ asked \subseteq Targets
      /\ ComparesSigned => strange = {}
      /\ shown = {} /\ cosigs = {} /\ ~refused /\ result = "none" /\ misjudged = FALSE
  BY <1>1 DEF IInv, UserInv, CosignInv, HonestPlanAccepted, TypeOK
<1>4. UNCHANGED <<inputs, flow, held, kinds, frozen, signed, strange, cosigner, cosigs, shown,
                  refused, misjudged, released>>
  BY DEF RequestUserComponents
<1>5. PICK answer \in SUBSET DOMAIN frozen, authMatches \in BOOLEAN :
        /\ asked' = asked \union S
        /\ IF ComponentAnswerValid(answer, S) /\ (flow = "bounded" => authMatches)
           THEN /\ userSigs' = userSigs \union answer
                /\ Goto(IF Targets \subseteq asked' THEN AfterUser ELSE "user")
           ELSE Fail /\ UNCHANGED userSigs
  BY <1>2, <1>a DEF S
<1>6. /\ held \subseteq Positions /\ shown \subseteq Cosigners /\ signed \subseteq Positions
      /\ strange \subseteq Positions
      /\ cosigs \subseteq Positions /\ refused \in BOOLEAN
      /\ cosigner \in UNION {[T -> Cosigners] : T \in SUBSET Positions}
  BY DEF IInv, TypeOK
<1>7. CASE Fail /\ UNCHANGED userSigs
  BY <1>1, <1>2, <1>3, <1>4, <1>5, <1>6, <1>7, GivingUp
<1>8. CASE /\ userSigs' = userSigs \union S
           /\ Goto(IF Targets \subseteq asked' THEN AfterUser ELSE "user")
  <2>1. /\ Positions' = Positions /\ Targets' = Targets /\ Primary' = Primary
        /\ ComparesSigned' = ComparesSigned
    BY <1>4 DEF Positions, Targets, Primary, ComparesSigned
  <2>2. /\ pc' = (IF Targets \subseteq asked' THEN AfterUser ELSE "user") /\ result' = result
        /\ AfterUser = IF Primary = {} THEN "resolve" ELSE "primary"
    BY <1>8 DEF Goto, AfterUser
  <2>3. userSigs' = asked' /\ asked' \subseteq Targets
    BY <1>2, <1>3, <1>5, <1>8
  <2>4. UserInv'
    BY <1>3, <1>4, <2>1, <2>2, <2>3 DEF UserInv
  <2>5. CosignInv'
    BY <1>3, <1>4, <2>2 DEF CosignInv
  <2>6. pc' \in Classified \ {"plan"}
    BY <2>2 DEF Classified
  <2> QED
    BY <1>1, <1>2, <1>4, <1>6, <2>2, <2>3, <2>4, <2>5, <2>6, Onward
<1> QED
  BY <1>5, <1>7, <1>8 DEF ComponentAnswerValid

LEMMA SignPrimaryInv == IInv /\ SignPrimary => IInv'
<1> SUFFICES ASSUME IInv, SignPrimary PROVE IInv'
  OBVIOUS
<1> USE DEF inputs
<1>1. pc = "primary" /\ pc \in Classified \ {"plan"}
  BY DEF SignPrimary, Classified
<1>2. OnceEach(Targets, Primary, Dummies) /\ Targets \subseteq Positions
  BY <1>1, FrozenFacts
<1>3. /\ userSigs = Targets /\ asked \subseteq Targets
      /\ shown = {} /\ cosigs = {} /\ ~refused /\ result = "none" /\ misjudged = FALSE
  BY <1>1 DEF IInv, UserInv, CosignInv, HonestPlanAccepted, TypeOK
<1>4. UNCHANGED <<inputs, flow, held, kinds, frozen, asked, userSigs, cosigner, cosigs, shown,
                  refused, misjudged, released>>
  BY DEF SignPrimary
<1>5. \/ Fail /\ UNCHANGED <<signed, strange>>
      \/ /\ signed' = Primary /\ Goto("resolve") /\ strange' \subseteq Primary
         /\ ComparesSigned => strange' = {}
  BY <1>2 DEF SignPrimary, SignedMatches
<1>6. /\ held \subseteq Positions /\ shown \subseteq Cosigners /\ cosigs \subseteq Positions
      /\ asked \subseteq Positions /\ userSigs \subseteq Positions /\ refused \in BOOLEAN
      /\ cosigner \in UNION {[T -> Cosigners] : T \in SUBSET Positions}
      /\ Primary \subseteq Positions
  BY DEF IInv, TypeOK, Primary
<1>7. CASE Fail /\ UNCHANGED <<signed, strange>>
  BY <1>1, <1>3, <1>4, <1>6, <1>7, GivingUp
<1>8. CASE /\ signed' = Primary /\ Goto("resolve") /\ strange' \subseteq Primary
           /\ ComparesSigned => strange' = {}
  <2>1. /\ Positions' = Positions /\ Targets' = Targets /\ Primary' = Primary
        /\ ComparesSigned' = ComparesSigned
    BY <1>4 DEF Positions, Targets, Primary, ComparesSigned
  <2>2. pc' = "resolve" /\ result' = result
    BY <1>8 DEF Goto
  <2>3. UserInv' /\ CosignInv'
    BY <1>3, <1>4, <1>8, <2>1, <2>2 DEF UserInv, CosignInv
  <2>4. pc' \in Classified \ {"plan"}
    BY <2>2 DEF Classified
  <2> QED
    BY <1>1, <1>4, <1>6, <1>8, <2>2, <2>3, <2>4, Onward
<1> QED
  BY <1>5, <1>7, <1>8

LEMMA ResolveCosignersInv == IInv /\ ResolveCosigners => IInv'
<1> SUFFICES ASSUME IInv, ResolveCosigners PROVE IInv'
  OBVIOUS
<1> USE DEF inputs
<1>1. pc = "resolve" /\ pc \in Classified \ {"plan"} /\ pc' \in Classified \ {"plan"}
  BY DEF ResolveCosigners, Goto, Classified
<1>2. PICK r \in [Targets -> Cosigners] : cosigner' = r
  BY DEF ResolveCosigners
<1>3. pc' = "cosign" /\ UNCHANGED <<inputs, flow, held, kinds, frozen, asked, userSigs, signed, strange, cosigs,
                                    shown, refused, misjudged, released, result>>
  BY DEF ResolveCosigners, Goto
<1>4. /\ Targets \subseteq Positions /\ shown = {} /\ cosigs = {} /\ asked \subseteq Targets
      /\ userSigs = Targets /\ signed = Primary /\ ~refused /\ result = "none"
      /\ ComparesSigned => strange = {}
  BY <1>1, FrozenFacts DEF IInv, CosignInv, UserInv
<1>5. Targets' = Targets /\ Primary' = Primary /\ ComparesSigned' = ComparesSigned
  BY <1>3 DEF Positions, Targets, Primary, ComparesSigned
<1>6. UserInv' /\ CosignInv'
  BY <1>2, <1>3, <1>4, <1>5 DEF UserInv, CosignInv
<1>7. cosigner' \in UNION {[T -> Cosigners] : T \in SUBSET Positions}
  BY <1>2, <1>4
<1>8. /\ asked \subseteq Positions /\ userSigs \subseteq Positions /\ signed \subseteq Positions
      /\ strange \subseteq Positions /\ cosigs \subseteq Positions /\ shown \subseteq Cosigners
  BY DEF IInv, TypeOK
<1> QED
  BY <1>1, <1>3, <1>6, <1>7, <1>8, Onward

LEMMA RequestCosignerComponentsInv ==
  ASSUME IInv, NEW c \in Cosigners, RequestCosignerComponents(c)
  PROVE  IInv'
<1> USE DEF inputs
<1>1. pc = "cosign" /\ pc \in Classified \ {"plan"}
  BY DEF RequestCosignerComponents, Classified
<1>2. /\ Targets # {} /\ Targets \subseteq Positions /\ asked \subseteq Targets
      /\ userSigs = Targets /\ signed = Primary /\ ~refused /\ result = "none"
      /\ Positions \ Targets \subseteq Primary
      /\ cosigner \in [Targets -> Cosigners]
      /\ cosigs = {i \in Targets : cosigner[i] \in shown} /\ misjudged = FALSE
      /\ ComparesSigned => strange = {}
  BY <1>1, FrozenFacts DEF IInv, CosignInv, UserInv, HonestPlanAccepted, TypeOK
<1>3. ComponentRequestValid(ForIndices(TargetsOf(c), "cosigner", NoAddress, {c}))
  <2>1. TargetsOf(c) # {} /\ TargetsOf(c) \subseteq Targets
    BY DEF RequestCosignerComponents, MayAsk, TargetsOf
  <2> QED
    BY <1>1, <2>1, CosignerRequestValid
<1>4. UNCHANGED <<inputs, flow, held, kinds, frozen, asked, userSigs, signed, strange, cosigner,
                  refused, misjudged, released>>
  BY DEF RequestCosignerComponents
<1>5. /\ shown' = shown \union {c}
      /\ \/ Fail /\ UNCHANGED cosigs
         \/ /\ cosigs' = cosigs \union TargetsOf(c)
            /\ Goto(IF \A i \in Targets : cosigner[i] \in shown' THEN "assemble" ELSE "cosign")
  BY <1>3 DEF RequestCosignerComponents, ComponentAnswerValid
<1>6. /\ held \subseteq Positions /\ shown' \subseteq Cosigners /\ asked \subseteq Positions
      /\ userSigs \subseteq Positions /\ signed \subseteq Positions /\ refused \in BOOLEAN
      /\ strange \subseteq Positions
      /\ cosigner \in UNION {[T -> Cosigners] : T \in SUBSET Positions}
  BY <1>5 DEF IInv, TypeOK
<1>7. CASE Fail /\ UNCHANGED cosigs
  BY <1>1, <1>2, <1>4, <1>6, <1>7, GivingUp
<1>8. CASE /\ cosigs' = cosigs \union TargetsOf(c)
           /\ Goto(IF \A i \in Targets : cosigner[i] \in shown' THEN "assemble" ELSE "cosign")
  <2>1. /\ Positions' = Positions /\ Targets' = Targets /\ Primary' = Primary
        /\ ComparesSigned' = ComparesSigned
    BY <1>4 DEF Positions, Targets, Primary, ComparesSigned
  <2>2. /\ pc' = (IF \A i \in Targets : cosigner[i] \in shown' THEN "assemble" ELSE "cosign")
        /\ result' = result /\ pc' \in Classified \ {"plan"}
    BY <1>8 DEF Goto, Classified
  <2>3. cosigs' = {i \in Targets : cosigner[i] \in shown'}
    BY <1>2, <1>5, <1>8 DEF TargetsOf
  <2>4. UserInv'
    BY <1>2, <1>4, <2>1, <2>2 DEF UserInv
  <2>5. pc' = "assemble" => cosigs' = Targets
    BY <2>2, <2>3
  <2>6. CosignInv'
    BY <1>2, <1>4, <2>1, <2>2, <2>3, <2>5 DEF CosignInv
  <2>7. cosigs' \subseteq Positions
    BY <1>2, <2>3
  <2> QED
    BY <1>1, <1>4, <1>6, <2>2, <2>4, <2>6, <2>7, Onward
<1> QED
  BY <1>5, <1>7, <1>8

(* Whatever the assembler returned is a sequence of transactions. *)
LEMMA AssembledType ==
  ASSUME frozen \in Seq(Txns), frozen # << >>, NEW g \in Assembled
  PROVE  g \in Seq(Txns)
<1>1. Len(frozen) \in Nat \ {0} /\ DOMAIN frozen = 1..Len(frozen)
  OBVIOUS
<1>2. CASE g \in {frozen, Append(frozen, frozen[1])}
  <2>1. frozen[1] \in Txns
    BY <1>1
  <2> QED
    BY <1>2, <2>1, AppendProperties
<1>3. CASE \E i \in DOMAIN frozen : g = [frozen EXCEPT ![i] = Substituted(@)]
  <2>1. PICK i \in DOMAIN frozen : g = [frozen EXCEPT ![i] = Substituted(frozen[i])]
    BY <1>3
  <2>2. frozen[i] \in Txns /\ i \in 1..Len(frozen)
    BY <1>1
  <2>3. [owner |-> "other", note |-> 0] \in Bodies
    BY DEF Bodies
  <2>4. Substituted(frozen[i]) \in Txns
    BY <2>2, <2>3 DEF Substituted, Txns
  <2> QED
    BY <2>1, <2>2, <2>4, ExceptSeq
<1>4. CASE \E n \in DOMAIN frozen : g = SubSeq(frozen, 1, n)
  <2>1. PICK n \in 1..Len(frozen) : g = SubSeq(frozen, 1, n)
    BY <1>1, <1>4
  <2> QED
    BY <1>1, <2>1, SubSeqProperties
<1> QED
  BY <1>2, <1>3, <1>4 DEF Assembled

LEMMA AssembleInv == IInv /\ Assemble => IInv'
<1> SUFFICES ASSUME IInv, Assemble PROVE IInv'
  OBVIOUS
<1> USE DEF inputs, sigs
<1>1. pc = "assemble" /\ pc \in Classified \ {"plan"}
  BY DEF Assemble, Classified
<1>2. /\ Targets # {} /\ Targets \subseteq Positions /\ asked \subseteq Targets
      /\ userSigs = Targets /\ cosigs = Targets /\ signed = Primary /\ ~refused
      /\ Positions \ Targets \subseteq Primary
      /\ OnceEach(Targets, Primary, Dummies) /\ misjudged = FALSE /\ frozen \in Seq(Txns) /\ frozen # << >>
      /\ Classifiable(kinds) /\ (ComparesSigned => strange = {})
  BY <1>1, FrozenFacts DEF IInv, CosignInv, UserInv, HonestPlanAccepted, TypeOK, FrozenInv,
     ClassifiedInv
<1>3. ComponentsIn /\ AssemblyRequestValid
  BY <1>2 DEF ComponentsIn, AssemblyRequestValid
<1>4. PICK g \in Assembled :
        IF Verifies => AssembledMatches(g)
        THEN released' = g /\ result' = "released" /\ pc' = "done"
        ELSE Fail /\ UNCHANGED released
  BY <1>3 DEF Assemble
<1>5. UNCHANGED <<inputs, flow, held, kinds, frozen, sigs, refused, misjudged>>
  BY DEF Assemble
<1>6. held \subseteq Positions /\ shown \subseteq Cosigners /\ refused \in BOOLEAN
  BY DEF IInv, TypeOK
<1>7. CASE Fail /\ UNCHANGED released
  BY <1>1, <1>2, <1>5, <1>6, <1>7, GivingUp
<1>8. CASE /\ released' = g /\ result' = "released" /\ pc' = "done"
           /\ Verifies => AssembledMatches(g)
  <2>1. /\ Positions' = Positions /\ Targets' = Targets /\ Primary' = Primary
        /\ Verifies' = Verifies /\ ComparesSigned' = ComparesSigned
    BY <1>5 DEF Positions, Targets, Primary, Verifies, ComparesSigned
  <2>2. g \in Seq(Txns)
    BY <1>2, AssembledType
  <2>3. TypeOK'
    BY <1>5, <1>8, <2>1, <2>2 DEF IInv, TypeOK, PCs
  <2>4. BeforeFreeze' /\ ClassifiedInv' /\ FrozenInv' /\ UserInv'
    BY <1>2, <1>5, <1>8, <2>1 DEF BeforeFreeze, ClassifiedInv, FrozenInv, UserInv, Classified
  <2>5. CosignInv' /\ CosignerLast'
    BY <1>2, <1>5, <1>8, <2>1 DEF CosignInv, CosignerLast
  <2>6. FrozenPermitted'
    BY <1>5, <2>1 DEF IInv, FrozenPermitted
  <2>7. HonestPlanAccepted' /\ OwnRequestsValid'
    BY <1>2, <1>5, <1>8 DEF HonestPlanAccepted, OwnRequestsValid
  <2>8. ReleaseComplete'
    <3>1. ASSUME NEW i \in Positions
          PROVE  \/ kinds[i] \in {"cosigner1", "bounded-cosigner1"} /\ i \in userSigs \intersect cosigs
                 \/ /\ kinds[i] \in {"", "bounded1"} /\ i \in signed
                    /\ ComparesSigned => i \notin strange
      <4>1. kinds[i] = TargetFlow(flow) => i \in Targets /\ kinds[i] \in {"cosigner1", "bounded-cosigner1"}
        BY DEF Targets, TargetFlow
      <4>2. kinds[i] # TargetFlow(flow) => i \in Primary /\ kinds[i] \in {"", "bounded1"}
        BY <1>2 DEF Targets, Primary, Classifiable, OrdinaryFlows
      <4> QED
        BY <1>2, <4>1, <4>2
    <3>2. ASSUME Verifies PROVE Permitted(group, released)'
      <4>1. Len(g) = Len(frozen) /\ \A i \in 1..Len(g) : g[i] = frozen[i]
        BY <1>2, <1>8, <3>2 DEF AssembledMatches
      <4>2. g = frozen
        BY <1>2, <2>2, <4>1, SeqEqual
      <4>3. Permitted(group, frozen)
        BY <1>2 DEF IInv, FrozenPermitted
      <4>4. released' = frozen /\ group' = group
        BY <1>5, <1>8, <4>2
      <4> QED
        BY <4>3, <4>4
    <3> QED
      BY <1>5, <2>1, <3>1, <3>2 DEF ReleaseComplete
  <2> QED
    BY <2>3, <2>4, <2>5, <2>6, <2>7, <2>8 DEF IInv
<1> QED
  BY <1>4, <1>7, <1>8

-----------------------------------------------------------------------------
(* The ways to fail that have an action of their own. *)
LEMMA FailingInv ==
  ASSUME IInv, InputRefused \/ PlanFails \/ UserRefuses \/ ResolveFails \/ AssembleFails
  PROVE  IInv'
<1> USE DEF inputs, sigs
<1>1. /\ Fail /\ pc # "done"
      /\ UNCHANGED <<inputs, flow, held, kinds, frozen, sigs, misjudged, released>>
  BY DEF InputRefused, PlanFails, UserRefuses, ResolveFails, AssembleFails
<1>2. /\ held \subseteq Positions /\ asked \subseteq Targets /\ shown \subseteq Cosigners
      /\ refused \in BOOLEAN /\ ~refused /\ misjudged = FALSE
  BY <1>1 DEF IInv, TypeOK, UserInv, CosignInv, HonestPlanAccepted
<1>3. refused' \in BOOLEAN /\ (refused' => pc \in {"user", "primary"})
  <2>1. CASE UserRefuses
    <3>1. pc \in {"user", "primary"} /\ (refused' = refused \/ refused' = TRUE)
      BY <2>1 DEF UserRefuses
    <3> QED
      BY <1>2, <3>1, Zenon
  <2>2. CASE ~UserRefuses
    <3>1. refused' = refused
      BY <2>2 DEF InputRefused, PlanFails, ResolveFails, AssembleFails
    <3> QED
      BY <1>2, <3>1, Zenon
  <2> QED
    BY <2>1, <2>2
<1> QED
  BY <1>1, <1>2, <1>3, GivingUp

LEMMA StutteringInv == IInv /\ UNCHANGED vars => IInv'
<1> SUFFICES ASSUME IInv, UNCHANGED vars PROVE IInv'
  OBVIOUS
<1> USE DEF vars
<1>1. /\ Positions' = Positions /\ Targets' = Targets /\ Primary' = Primary
      /\ Verifies' = Verifies /\ Classifiable(kinds)' = Classifiable(kinds)
      /\ ComparesSigned' = ComparesSigned
  BY DEF Positions, Targets, Primary, Verifies, Classifiable, ComparesSigned
<1>2. TypeOK' /\ BeforeFreeze' /\ ClassifiedInv' /\ FrozenInv'
  BY <1>1 DEF IInv, TypeOK, BeforeFreeze, ClassifiedInv, FrozenInv
<1>3. UserInv' /\ CosignInv' /\ CosignerLast'
  BY <1>1 DEF IInv, UserInv, CosignInv, CosignerLast
<1>4. FrozenPermitted' /\ HonestPlanAccepted' /\ OwnRequestsValid'
  BY <1>1 DEF IInv, FrozenPermitted, HonestPlanAccepted, OwnRequestsValid
<1>5. ReleaseComplete'
  BY <1>1 DEF IInv, ReleaseComplete
<1> QED
  BY <1>2, <1>3, <1>4, <1>5 DEF IInv

(* The inductive invariant holds throughout every call of the guarded and    *)
(* bounded flows.                                                            *)
THEOREM Invariance == Spec => []IInv
<1>1. Init => IInv
  BY InitInv
<1>2. IInv /\ [Next]_vars => IInv'
  <2> SUFFICES ASSUME IInv, [Next]_vars PROVE IInv'
    OBVIOUS
  <2>1. CASE UNCHANGED vars
    BY <2>1, StutteringInv
  <2>2. CASE Dispatch
    BY <2>2, DispatchInv
  <2>3. CASE Build
    BY <2>3, BuildInv
  <2>4. CASE Plan
    BY <2>4, PlanInv
  <2>5. CASE RequestUserComponents
    BY <2>5, RequestUserComponentsInv
  <2>6. CASE SignPrimary
    BY <2>6, SignPrimaryInv
  <2>7. CASE ResolveCosigners
    BY <2>7, ResolveCosignersInv
  <2>8. CASE \E c \in Cosigners : RequestCosignerComponents(c)
    BY <2>8, RequestCosignerComponentsInv
  <2>9. CASE Assemble
    BY <2>9, AssembleInv
  <2>10. CASE InputRefused \/ PlanFails \/ UserRefuses \/ ResolveFails \/ AssembleFails
    BY <2>10, FailingInv
  <2> QED
    BY <2>1, <2>2, <2>3, <2>4, <2>5, <2>6, <2>7, <2>8, <2>9, <2>10 DEF Next
<1> QED
  BY <1>1, <1>2, PTL DEF Spec

(* A cosigner is shown a group only when the user's side of it is complete   *)
(* and nothing was turned down (SignGuardedGroup, sign_prepared_bounded).    *)
THEOREM CosignerLastTheorem == Spec => []CosignerLast
<1>1. IInv => CosignerLast
  BY DEF IInv
<1> QED
  BY <1>1, Invariance, PTL

(* The group put before the signers is a permitted rewriting of the caller's *)
(* whatever the planner answered (validateBoundedComponentPlan).             *)
THEOREM FrozenPermittedTheorem == Spec => []FrozenPermitted
<1>1. IInv => FrozenPermitted
  BY DEF IInv
<1> QED
  BY <1>1, Invariance, PTL

(* A truthful planner is never refused but for the fee ceiling: the plan     *)
(* checks are complete as well as sound.                                     *)
THEOREM HonestPlanAcceptedTheorem == Spec => []HonestPlanAccepted
<1>1. IInv => HonestPlanAccepted
  BY DEF IInv
<1> QED
  BY <1>1, Invariance, PTL

(* The flow never builds a request its own validators turn down.             *)
THEOREM OwnRequestsValidTheorem == Spec => []OwnRequestsValid
<1>1. IInv => OwnRequestsValid
  BY DEF IInv
<1> QED
  BY <1>1, Invariance, PTL

(* A released group carries both components for every position whose key     *)
(* asks for a cosigner, and a signature for every other one (assembly).      *)
THEOREM ReleaseTheorem == Spec => []ReleaseComplete
<1>1. IInv => ReleaseComplete
  BY DEF IInv
<1> QED
  BY <1>1, Invariance, PTL

(* Every step of the flow keeps its state in the sets the code's values      *)
(* come from, whatever the planner and the cosigners answer.                 *)
THEOREM TypeTheorem == Spec => []TypeOK
<1>1. IInv => TypeOK
  BY DEF IInv
<1> QED
  BY <1>1, Invariance, PTL
=============================================================================
