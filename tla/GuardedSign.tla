---------------------------- MODULE GuardedSign ----------------------------
(***************************************************************************)
(* Signing a prepared group some of whose positions need a cosigner.       *)
(*                                                                         *)
(* The call classifies the positions by the signing flow of their keys,    *)
(* lets the user's signer plan the group, collects the user's components   *)
(* and the ordinary signatures over the frozen plan, then the cosigners'   *)
(* components, and has the whole assembled.  There are two flows: guarded  *)
(* (keys of flow cosigner1) and bounded (bounded-cosigner1).               *)
(*                                                                         *)
(* User signer, cosigners and assembler are outside the repository: they   *)
(* may refuse, fail, or answer anything.                                   *)
(***************************************************************************)
EXTENDS PlanValidation

CONSTANTS Sdks,            \* a subset of "go", "python", "typescript"
          Groups,          \* the prepared groups: sequences of transactions
          PlanAnswers(_),  \* what /plan may answer to a group
          Auth,            \* Auth[i]: the auth address of position i, a number; 0 for none
          Cosigners,       \* the (client, component key) pairs a resolver may return
          MaxFee           \* the max_fee advertised for bounded targets

ASSUME SdkAssumption == Sdks \subseteq {"go", "python", "typescript"}
ASSUME GroupsAssumption == Groups \subseteq Seq(Txns)
ASSUME AnswersAssumption == \A g \in Groups : PlanAnswers(g) \subseteq Answers
ASSUME AuthAssumption == \A g \in Groups : \A i \in DOMAIN g : Auth[i] \in Nat

VARIABLES
  sdk,       \* the SDK; never changes
  group,     \* the caller's prepared transactions; never changes
  pc,        \* where the call is
  flow,      \* "guarded" or "bounded"
  held,      \* the positions that carry their signer key
  kinds,     \* kinds[i]: the signing flow of position i, as last looked up
  frozen,    \* the planned group everything is signed over; << >> before
  asked,     \* the targets for which the user's signer was asked
  userSigs,  \* the targets whose user component is in
  signed,    \* the ordinary positions whose signature is in
  strange,   \* those whose signature is over another transaction (history)
  cosigner,  \* the cosigner of each target, once resolved
  cosigs,    \* the targets whose cosigner component is in
  shown,     \* the cosigners that were sent the frozen group (history)
  refused,   \* the user's signer turned a request down (history)
  misjudged, \* a truthful plan was refused (history)
  result,    \* "none", "error", "invalid" or "released"
  released   \* the signed group returned, as the transactions signed

vars == <<sdk, group, pc, flow, held, kinds, frozen, asked, userSigs, signed, strange,
          cosigner, cosigs, shown, refused, misjudged, result, released>>
inputs == <<sdk, group>>
sigs == <<asked, userSigs, signed, strange, cosigner, cosigs, shown>>

-----------------------------------------------------------------------------
(* "" is an ordinary key, "absent" no key, "unknown" a flow of a newer signer. *)
Flows == {"", "bounded1", "cosigner1", "bounded-cosigner1", "unknown", "absent"}
PCs == {"dispatch", "build", "plan", "user", "primary", "resolve", "cosign", "assemble", "done"}

Positions == DOMAIN group
TargetFlow(f) == IF f = "bounded" THEN "bounded-cosigner1" ELSE "cosigner1"
OrdinaryFlows == {"", "bounded1"}
NoAddress == 0

(* The loop over the prepared items puts each into one of two lists: the    *)
(* positions that need a cosigner, and those the user's signer signs alone. *)
Targets == {i \in Positions : kinds[i] = TargetFlow(flow)}
Primary == {i \in Positions : kinds[i] \in OrdinaryFlows}

(* Bug: the last original position is taken for a dummy. *)
DummyPositionsFromLast == [k \in 1..(Len(frozen) - Len(group)) |-> Len(group) + k - 1]

(* contiguousIndices: what the plan has behind the original positions. *)
DummyPositions == [k \in 1..(Len(frozen) - Len(group)) |-> Len(group) + k]
Dummies == {DummyPositions[k] : k \in DOMAIN DummyPositions}

TypeOK ==
  /\ sdk \in Sdks
  /\ group \in Groups
  /\ pc \in PCs
  /\ flow \in {"guarded", "bounded"}
  /\ held \subseteq Positions
  /\ kinds \in [Positions -> Flows]
  /\ frozen \in Seq(Txns)
  /\ asked \subseteq Positions
  /\ userSigs \subseteq Positions
  /\ signed \subseteq Positions
  /\ strange \subseteq Positions
  /\ cosigner \in UNION {[S -> Cosigners] : S \in SUBSET Positions}
  /\ cosigs \subseteq Positions
  /\ shown \subseteq Cosigners
  /\ refused \in BOOLEAN
  /\ misjudged \in BOOLEAN
  /\ result \in {"none", "error", "invalid", "released"}
  /\ released \in Seq(Txns)

(* The dispatching entry point, or the bounded flow called directly. *)
Init ==
  /\ sdk \in Sdks
  /\ group \in Groups
  /\ \/ pc = "dispatch" /\ flow = "guarded"
     \/ pc = "build" /\ flow = "bounded"
  /\ held \in SUBSET Positions
  /\ kinds \in {k \in [Positions -> Flows] : \A i \in Positions : k[i] = "absent" <=> i \notin held}
  /\ frozen = << >>
  /\ asked = {} /\ userSigs = {} /\ signed = {} /\ strange = {}
  /\ cosigner = << >> /\ cosigs = {} /\ shown = {}
  /\ refused = FALSE /\ misjudged = FALSE
  /\ result = "none"
  /\ released = << >>

-----------------------------------------------------------------------------
(* The call returns an error: the caller gets nothing. *)
Fail == pc' = "done" /\ result' = "error"

(* The SDK's own validation turned down a request it built itself. *)
Invalid == pc' = "done" /\ result' = "invalid"

Goto(l) == pc' = l /\ UNCHANGED result

(* GetKeyInfo for every position that does not carry its key. *)
LookUp(k) == k \in [Positions -> Flows] /\ \A i \in held : k[i] = kinds[i]

(* SignPreparedGuardedGroup: cosigner flows of the two kinds do not mix. Go *)
(* keeps the keys it found; Python and TypeScript look them up again.       *)
Dispatch ==
  /\ pc = "dispatch"
  /\ \E k \in [Positions -> Flows] :
       /\ LookUp(k)
       /\ kinds' = k
       /\ held' = IF sdk = "go" THEN {i \in Positions : k[i] # "absent"} ELSE held
       /\ LET bounded == \E i \in Positions : k[i] = "bounded-cosigner1"
              guarded == \E i \in Positions : k[i] = "cosigner1"
          IN /\ flow' = IF bounded THEN "bounded" ELSE "guarded"
             /\ IF bounded /\ guarded THEN Fail ELSE Goto("build")
  /\ UNCHANGED <<inputs, frozen, sigs, refused, misjudged, released>>

(* A key lookup fails, an item has no transaction or is presigned, or a     *)
(* target's LogicSig resources are missing.                                 *)
InputRefused ==
  /\ pc \in {"dispatch", "build"}
  /\ Fail
  /\ UNCHANGED <<inputs, flow, held, kinds, frozen, sigs, refused, misjudged, released>>

(* Every key is a target of this flow or ordinary, there is a target, and   *)
(* every position has an auth address.                                      *)
Classifiable(k) ==
  /\ \A i \in Positions : k[i] \in OrdinaryFlows \union {TargetFlow(flow)}
  /\ \E i \in Positions : k[i] = TargetFlow(flow)
  /\ \A i \in Positions : Auth[i] # NoAddress

(* buildPreparedGuardedSignOptions and the loop of the bounded flow, up to *)
(* the plan request.  An empty group has no target.                        *)
Build ==
  /\ pc = "build"
  /\ \E k \in [Positions -> Flows] :
       /\ LookUp(k)
       /\ kinds' = k
       /\ IF Classifiable(k) THEN Goto("plan") ELSE Fail
  /\ held' = {}
  /\ UNCHANGED <<inputs, flow, frozen, sigs, refused, misjudged, released>>

-----------------------------------------------------------------------------
Accepts(a) ==
  /\ DecodesCanonically(a)
  /\ PlanAcceptable(group, a.txns, a.report)
  /\ flow = "bounded" => TargetFeesWithin(a.txns, Targets, MaxFee)

(* A plan only the fee ceiling stands against. *)
OverCeiling(a) == flow = "bounded" /\ ~TargetFeesWithin(a.txns, Targets, MaxFee)

(* /plan is answered, and the answer checked against the prepared group. *)
Plan ==
  /\ pc = "plan"
  /\ \E a \in PlanAnswers(group) :
       IF Accepts(a)
       THEN frozen' = a.txns /\ Goto("user") /\ UNCHANGED misjudged
       ELSE /\ Fail
            /\ misjudged' = (Honest(group, a) /\ ~OverCeiling(a))
            /\ UNCHANGED frozen
  /\ UNCHANGED <<inputs, flow, held, kinds, sigs, refused, released>>

(* /plan fails; a refusal to plan is not a refusal to sign. *)
PlanFails ==
  /\ pc = "plan"
  /\ Fail
  /\ UNCHANGED <<inputs, flow, held, kinds, frozen, sigs, refused, misjudged, released>>

-----------------------------------------------------------------------------
(* Component requests.  A list whose order nothing looks at is a function   *)
(* on the loop iterations that appended to it; an optional key is a set.    *)

Indices(r) == {r.targets[p].index : p \in DOMAIN r.targets}

(* componentRequestForIndices, and the loop of the bounded flow: a target for *)
(* each of S, context for the rest of the first n positions, and the dummies. *)
ComponentRequest(S, n, kind, auth, key) ==
  [targets |-> [i \in S |-> [index |-> i, kind |-> kind, auth |-> auth[i], key |-> key,
                             args |-> kind = "bounded-base"]],
   context |-> [i \in (1..n) \ S |-> i],
   dummies |-> DummyPositions]

(* What a target of each kind must and must not carry. *)
TargetFieldsValid(t) ==
  \/ t.kind = "user" /\ t.auth # NoAddress /\ t.key = {} /\ ~t.args
  \/ t.kind = "cosigner" /\ t.auth = NoAddress /\ ~t.args
  \/ t.kind = "bounded-base" /\ t.auth # NoAddress /\ t.key = {}

(* What the targets of one request must have in common. *)
Alike(t, u) ==
  /\ t.kind = u.kind
  /\ t.kind = "user" => t.auth = u.auth
  /\ t.kind = "cosigner" => t.key = u.key

(* ComponentRequest.Validate: targets and context name every original       *)
(* position, each once, and the dummies are exactly what follows them.      *)
ComponentRequestValid(r) ==
  LET original == 1..(Len(frozen) - Len(r.dummies))
  IN /\ Len(frozen) \in 1..MaxGroup
     /\ DOMAIN r.targets # {} /\ Len(r.dummies) <= Len(frozen)
     /\ \A p \in DOMAIN r.targets : r.targets[p].index \in original /\ TargetFieldsValid(r.targets[p])
     /\ \A p, q \in DOMAIN r.targets : /\ r.targets[p].index = r.targets[q].index => p = q
                                       /\ Alike(r.targets[p], r.targets[q])
     /\ \A p \in DOMAIN r.context : r.context[p] \in original \ Indices(r)
     /\ \A p, q \in DOMAIN r.context : r.context[p] = r.context[q] => p = q
     /\ original \subseteq Indices(r) \union {r.context[p] : p \in DOMAIN r.context}
     /\ \A k \in DOMAIN r.dummies : r.dummies[k] = Len(frozen) - Len(r.dummies) + k

(* Bug: an answer may hold more than was asked for. *)
ComponentAnswerMore(answer, S) == S \subseteq answer

(* ComponentResponse.ValidateForRequest: a component for every target. *)
ComponentAnswerValid(answer, S) == answer = S

ForIndices(S, kind, address, key) ==
  ComponentRequest(S, Len(frozen) - Len(DummyPositions), kind, [i \in S |-> address], key)

(* The next user request: that of the first account not asked for yet, in   *)
(* the guarded flow; in the bounded one a single request, each target with  *)
(* an address of its own.                                                   *)
UserAccounts == {Auth[i] : i \in Targets \ asked}
UserGroup(a) == {i \in Targets : Auth[i] = a}

UserRequests ==
  IF flow = "bounded"
  THEN {ComponentRequest(Targets, Len(group), "bounded-base", [i \in Targets |-> Auth[i]], {})}
  ELSE {ForIndices(UserGroup(a), "user", a, {}) : a \in {b \in UserAccounts : \A c \in UserAccounts : b <= c}}

(* Bug: the ordinary positions can wait. *)
AfterUserCosigners == "resolve"

AfterUser == IF Primary = {} THEN "resolve" ELSE "primary"

(* One request for user components.  The bounded flow also compares the    *)
(* auth address of each component with its target's.                       *)
RequestUserComponents ==
  /\ pc = "user"
  /\ \E r \in UserRequests :
       IF ~ComponentRequestValid(r)
       THEN Invalid /\ UNCHANGED <<asked, userSigs>>
       ELSE \E answer \in SUBSET DOMAIN frozen, authMatches \in BOOLEAN :
              /\ asked' = asked \union Indices(r)
              /\ IF ComponentAnswerValid(answer, Indices(r)) /\ (flow = "bounded" => authMatches)
                 THEN /\ userSigs' = userSigs \union answer
                      /\ Goto(IF Targets \subseteq asked' THEN AfterUser ELSE "user")
                 ELSE Fail /\ UNCHANGED userSigs
  /\ UNCHANGED <<inputs, flow, held, kinds, frozen, signed, strange, cosigner, cosigs, shown,
                 refused, misjudged, released>>

(* The user's signer, or its operator, turns the request down; or the       *)
(* request fails without a decision.                                        *)
UserRefuses ==
  /\ pc \in {"user", "primary"}
  /\ Fail
  /\ refused' \in {refused, TRUE}
  /\ UNCHANGED <<inputs, flow, held, kinds, frozen, sigs, misjudged, released>>

(* Where the signed bytes are compared with the canonical ones: everywhere *)
(* but in TypeScript's guarded flow.                                       *)
ComparesSigned == sdk # "typescript" \/ flow = "bounded"

(* Bug: any signed transaction will do. *)
SignedMatchesPresent(answer) == \A i \in DOMAIN answer : answer[i] # "none"

(* Every ordinary position is signed, and passes signedTxnMatchesCanonical. *)
SignedMatches(answer) ==
  \A i \in DOMAIN answer : \/ answer[i] = "canonical"
                           \/ answer[i] = "substituted" /\ ~ComparesSigned

(* Targets, ordinary positions and dummies overlap nowhere, and every       *)
(* position of the frozen group is one of them.                             *)
OnceEach(T, P, D) ==
  /\ T \intersect P = {} /\ D \intersect (T \union P) = {}
  /\ T \union P \union D = DOMAIN frozen

(* The ordinary positions are signed with /sign, the others sent along. *)
SignPrimary ==
  /\ pc = "primary"
  /\ IF ~OnceEach(Targets, Primary, Dummies)
     THEN Invalid /\ UNCHANGED <<signed, strange>>
     ELSE \E answer \in [Primary -> {"canonical", "substituted", "none"}] :
            IF SignedMatches(answer)
            THEN /\ signed' = Primary
                 /\ strange' = {i \in Primary : answer[i] = "substituted"}
                 /\ Goto("resolve")
            ELSE Fail /\ UNCHANGED <<signed, strange>>
  /\ UNCHANGED <<inputs, flow, held, kinds, frozen, asked, userSigs, cosigner, cosigs, shown,
                 refused, misjudged, released>>

-----------------------------------------------------------------------------
(* The user side is complete; who cosigns each target is settled first. *)
ResolveCosigners ==
  /\ pc = "resolve"
  /\ \E r \in [Targets -> Cosigners] : cosigner' = r
  /\ Goto("cosign")
  /\ UNCHANGED <<inputs, flow, held, kinds, frozen, asked, userSigs, signed, strange, cosigs, shown,
                 refused, misjudged, released>>

(* No client for a target, or the resolver fails. *)
ResolveFails ==
  /\ pc = "resolve"
  /\ Fail
  /\ UNCHANGED <<inputs, flow, held, kinds, frozen, sigs, refused, misjudged, released>>

TargetsOf(c) == {i \in Targets : cosigner[i] = c}

(* The order of the requests: a map's in Go, that of the targets elsewhere. *)
MayAsk(c) ==
  LET rest == {i \in Targets : cosigner[i] \notin shown}
  IN /\ TargetsOf(c) \intersect rest # {}
     /\ sdk = "go" \/ \A j \in rest : \E i \in TargetsOf(c) : i <= j

(* One request for cosigner components.  However it ends, the cosigner has *)
(* seen the group.                                                         *)
RequestCosignerComponents(c) ==
  /\ pc = "cosign"
  /\ MayAsk(c)
  /\ IF ~ComponentRequestValid(ForIndices(TargetsOf(c), "cosigner", NoAddress, {c}))
     THEN Invalid /\ UNCHANGED <<cosigs, shown>>
     ELSE /\ shown' = shown \union {c}
          /\ \/ \E answer \in SUBSET DOMAIN frozen :
                  IF ComponentAnswerValid(answer, TargetsOf(c))
                  THEN /\ cosigs' = cosigs \union answer
                       /\ Goto(IF \A i \in Targets : cosigner[i] \in shown' THEN "assemble" ELSE "cosign")
                  ELSE Fail /\ UNCHANGED cosigs
             \/ Fail /\ UNCHANGED cosigs
  /\ UNCHANGED <<inputs, flow, held, kinds, frozen, asked, userSigs, signed, strange, cosigner,
                 refused, misjudged, released>>

-----------------------------------------------------------------------------
(* Every target has both its components. *)
ComponentsIn == Targets \subseteq userSigs \intersect cosigs

(* AssemblyRequest.Validate: targets, ordinary signatures and dummies cover *)
(* the group once each.                                                     *)
AssemblyRequestValid == OnceEach(Targets, signed, Dummies)

Substituted(t) == [t EXCEPT !.body = [owner |-> "other", note |-> 0]]

(* What /sign/assemble may return: the group, a group with a transaction   *)
(* replaced, or one of another length.  An empty one is an error already.  *)
Assembled ==
  {frozen, Append(frozen, frozen[1])}
    \union {[frozen EXCEPT ![i] = Substituted(@)] : i \in DOMAIN frozen}
    \union {SubSeq(frozen, 1, n) : n \in DOMAIN frozen}

(* verifyAssembledGroup. *)
AssembledMatches(g) == Len(g) = Len(frozen) /\ \A i \in DOMAIN frozen : g[i] = frozen[i]

(* Python and TypeScript check the assembled group of the bounded flow only. *)
Verifies == sdk = "go" \/ flow = "bounded"

Assemble ==
  /\ pc = "assemble"
  /\ IF ~ComponentsIn THEN Fail /\ UNCHANGED released
     ELSE IF ~AssemblyRequestValid THEN Invalid /\ UNCHANGED released
     ELSE \E g \in Assembled :
            IF Verifies => AssembledMatches(g)
            THEN released' = g /\ result' = "released" /\ pc' = "done"
            ELSE Fail /\ UNCHANGED released
  /\ UNCHANGED <<inputs, flow, held, kinds, frozen, sigs, refused, misjudged>>

AssembleFails ==
  /\ pc = "assemble"
  /\ Fail
  /\ UNCHANGED <<inputs, flow, held, kinds, frozen, sigs, refused, misjudged, released>>

-----------------------------------------------------------------------------
Next ==
  \/ Dispatch
  \/ InputRefused
  \/ Build
  \/ Plan
  \/ PlanFails
  \/ RequestUserComponents
  \/ UserRefuses
  \/ SignPrimary
  \/ ResolveCosigners
  \/ ResolveFails
  \/ \E c \in Cosigners : RequestCosignerComponents(c)
  \/ Assemble
  \/ AssembleFails

Spec == Init /\ [][Next]_vars

-----------------------------------------------------------------------------
(* "Only now may the SDK disclose the frozen group": whichever way the       *)
(* signers answered, a cosigner has been shown a group only if every target  *)
(* has its user component, every ordinary position a signature - over its    *)
(* own transaction, where that is compared - and the user's signer turned    *)
(* nothing down.                                                             *)
CosignerLast ==
  shown # {} => /\ Targets # {} /\ Targets \subseteq userSigs
                /\ Positions \ Targets \subseteq signed
                /\ ComparesSigned => strange = {}
                /\ ~refused

(* Whatever /plan answered, the group that is put before the signers is the  *)
(* caller's: same transactions, fees only higher and in the bounded flow     *)
(* under the advertised ceiling, budget dummies, a group ID over the whole.  *)
FrozenPermitted ==
  frozen # << >> => /\ Permitted(group, frozen)
                    /\ flow = "bounded" => \A i \in Targets : frozen[i].fee <= MaxFee

(* The checks are not too strict either: a planner that makes only permitted *)
(* changes and reports them truthfully is never refused, fee ceiling apart.  *)
HonestPlanAccepted == ~misjudged

(* The SDK's request validators never turn down what the flow itself built:  *)
(* however many dummies the planner appended and whichever keys changed      *)
(* their flow between two lookups, every component, sign and assembly        *)
(* request names each position of the planned group exactly once, with the   *)
(* dummies behind, and its targets carry the fields of one kind and account. *)
OwnRequestsValid == result # "invalid"

(* A released group carries both components for every position whose key     *)
(* asks for a cosigner - by the lookup that was used to build it - and for   *)
(* every other original position, of supported flow, a signature over it     *)
(* where that is compared.  And where the assembled group is compared with   *)
(* the frozen one (everywhere in Go, elsewhere in the bounded flow), what    *)
(* comes back is a permitted rewriting of what the caller handed in.         *)
ReleaseComplete ==
  result = "released" =>
    /\ \A i \in Positions :
         \/ kinds[i] \in {"cosigner1", "bounded-cosigner1"} /\ i \in userSigs \intersect cosigs
         \/ /\ kinds[i] \in {"", "bounded1"} /\ i \in signed
            /\ ComparesSigned => i \notin strange
    /\ Verifies => Permitted(group, released)

(* An existing group ID is never changed gratuitously: only if a fee or the  *)
(* membership of the group changed, or a position had no ID.                 *)
NoGratuitousRegrouping ==
  frozen # << >> /\ ~ReallyChanged(group, frozen) =>
    \A i \in Positions : frozen[i].grp = group[i].grp

-----------------------------------------------------------------------------
(* The inductive invariant behind the theorems. *)

Classified == {"plan", "user", "primary", "resolve", "cosign", "assemble"}

(* Until the plan is accepted nothing is frozen, signed or shown, *)
BeforeFreeze ==
  pc \in {"dispatch", "build", "plan"} =>
    /\ frozen = << >> /\ asked = {} /\ userSigs = {} /\ signed = {} /\ strange = {}
    /\ cosigs = {} /\ shown = {}

(* the classification then stands, *)
ClassifiedInv == pc \in Classified => Classifiable(kinds)

FrozenInv == pc \in Classified \ {"plan"} => frozen # << >>

(* user components come in for exactly the targets asked for, *)
UserInv ==
  /\ asked \subseteq Targets
  /\ pc = "user" => userSigs = asked /\ signed = {} /\ asked # Targets
  /\ pc = "primary" => signed = {}
  /\ ComparesSigned => strange = {}
  /\ pc \in {"primary", "resolve", "cosign", "assemble"} => userSigs = Targets
  /\ pc \in {"resolve", "cosign", "assemble"} => signed = Primary

(* a cosigner is asked only after that, each for its own targets, *)
CosignInv ==
  /\ shown # {} => /\ pc \in {"cosign", "assemble", "done"}
                   /\ ~refused /\ Targets # {}
                   /\ userSigs = Targets /\ signed = Primary /\ Positions \ Targets \subseteq Primary
  /\ pc \in {"cosign", "assemble"} =>
       /\ cosigner \in [Targets -> Cosigners]
       /\ cosigs = {i \in Targets : cosigner[i] \in shown}
  /\ pc \in {"user", "primary", "resolve"} => cosigs = {}
  /\ pc = "assemble" => cosigs = Targets
  /\ pc # "done" => ~refused /\ result = "none"

IInv ==
  /\ TypeOK /\ BeforeFreeze /\ ClassifiedInv /\ FrozenInv /\ UserInv /\ CosignInv
  /\ CosignerLast /\ FrozenPermitted /\ HonestPlanAccepted /\ OwnRequestsValid
  /\ ReleaseComplete
=============================================================================
