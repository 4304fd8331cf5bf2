-------------------------- MODULE KeyCacheProofs --------------------------
(***************************************************************************)
(* Theorems about KeyCache, for every SDK, every set of callers and        *)
(* addresses and every number of keyset changes.                           *)
(***************************************************************************)
EXTENDS KeyCache, TLAPS

-----------------------------------------------------------------------------
(* Typing. *)

LEMMA Stamping == Versions \subseteq Stamps /\ 0 \in Stamps /\ 1 \in Versions
BY VersionAssumption DEF Versions, Stamps

(* What a call returns is a result. *)
LEMMA ResultTyping ==
  ASSUME NEW k \in {"none", "error", "keys", "found", "missing", "ok"},
         NEW v \in Stamps, NEW K \in SUBSET Addr
  PROVE  Result(k, v, K) \in Results
BY DEF Result, Results

LEMMA FixedResults == Failed \in Results /\ Pending \in Results
BY ResultTyping, Stamping DEF Failed, Pending

(* What is installed in the cache is a cache. *)
LEMMA CacheTyping ==
  ASSUME NEW v \in Stamps, NEW K \in SUBSET Addr
  PROVE  [set |-> TRUE, keys |-> K, ver |-> v] \in Caches
BY DEF Caches

(* A caller's return keeps the types of what it writes. *)
LEMMA ReturnTyping ==
  ASSUME TypeOK, NEW c \in Callers, NEW r \in Results, Return(c, r)
  PROVE  /\ pc' \in [Callers -> PCs]
         /\ out' \in [Callers -> Results]
         /\ resp' \in [Callers -> Stamps]
         /\ todo' \in [Callers -> SUBSET Addr]
BY Stamping DEF TypeOK, Return, PCs

LEMMA BeginningTyping ==
  ASSUME TypeOK, NEW c \in Callers, NEW o \in Ops, NEW a \in Addr, NEW l \in PCs,
         NEW r \in Results, Begin(c, o, a, l), out' = [out EXCEPT ![c] = r],
         UNCHANGED <<sdk, signerVars, cacheVars, acked>>
  PROVE  TypeOK'
BY Stamping DEF TypeOK, Begin, signerVars, cacheVars

LEMMA AnswerTyping ==
  ASSUME TypeOK, NEW c \in Callers, NEW v \in Stamps, NEW K \in SUBSET Addr
  PROVE  Answer(c, v, K) \in Results
<1>1. arg[c] \in Addr
  BY DEF TypeOK
<1> QED BY <1>1, ResultTyping DEF Answer

LEMMA EntryTyping ==
  ASSUME TypeOK, NEW a \in Addr
  PROVE  Entry(a) \in Results
<1>1. cache.ver \in Stamps
  BY DEF TypeOK, Caches
<1> QED BY <1>1, ResultTyping DEF Entry

LEMMA BeginTyping ==
  ASSUME TypeOK, NEW c \in Callers, BeginCall(c)
  PROVE  TypeOK'
<1>a. arg[c] \in Addr /\ cache.ver \in Stamps /\ cache.keys \in SUBSET Addr
  BY DEF TypeOK, Caches
<1>b. /\ {"list", "info", "changed", "resolve", "generate", "delete"} \subseteq Ops
      /\ {"idle", "copy", "fetch", "status", "lookup", "mutate"} \subseteq PCs
  BY DEF Ops, PCs
<1>c. ASSUME NEW o \in Ops, NEW a \in Addr, NEW r \in Results, BeginFound(c, o, a, r),
             UNCHANGED <<sdk, signerVars, cacheVars, acked>>
      PROVE  TypeOK'
  <2>1. CASE AtOnce
    BY <1>b, <1>c, <2>1, BeginningTyping DEF BeginFound
  <2>2. CASE ~AtOnce
    BY <1>b, <1>c, <2>2, FixedResults, BeginningTyping DEF BeginFound
  <2> QED BY <2>1, <2>2
<1>1. CASE ListKeysCached(c)
  <2>1. Result("keys", cache.ver, cache.keys) \in Results
    BY <1>a, ResultTyping
  <2> QED BY <1>1, <1>a, <1>b, <1>c, <2>1 DEF ListKeysCached
<1>2. CASE ListKeysFetch(c)
  BY <1>2, <1>a, <1>b, FixedResults, BeginningTyping DEF ListKeysFetch
<1>3. CASE ListKeysIfKeysetChanged(c)
  BY <1>3, <1>a, <1>b, FixedResults, BeginningTyping DEF ListKeysIfKeysetChanged
<1>4. CASE ResolveAuthAddress(c)
  BY <1>4, <1>a, <1>b, FixedResults, BeginningTyping DEF ResolveAuthAddress
<1>5. ASSUME NEW a \in Addr, GetKeyInfo(c, a) PROVE TypeOK'
  <2>1. CASE a \in cache.keys
    <3>1. Entry(a) \in Results
      BY EntryTyping
    <3> QED BY <1>5, <1>b, <1>c, <2>1, <3>1 DEF GetKeyInfo
  <2>2. CASE a \notin cache.keys
    BY <1>5, <1>b, <2>2, FixedResults, BeginningTyping DEF GetKeyInfo
  <2> QED BY <2>1, <2>2
<1>6. ASSUME NEW a \in Addr, NEW o \in Mutations, MutateKeys(c, o, a)
      PROVE  TypeOK'
  BY <1>6, <1>b, FixedResults, BeginningTyping DEF MutateKeys, Mutations
<1> QED BY <1>1, <1>2, <1>3, <1>4, <1>5, <1>6 DEF BeginCall

LEMMA SignerTyping ==
  ASSUME TypeOK, SignerChange \/ SignerPublish \/ SignerToggleLock
  PROVE  TypeOK'
<1>1. CASE SignerChange
  BY <1>1, VersionAssumption
  DEF TypeOK, SignerChange, ChangeKeyset, Versions, cacheVars, callVars
<1>2. CASE SignerPublish
  BY <1>2 DEF TypeOK, SignerPublish, cacheVars, callVars
<1>3. CASE SignerToggleLock
  BY <1>3 DEF TypeOK, SignerToggleLock, cacheVars, callVars
<1> QED BY <1>1, <1>2, <1>3

LEMMA InstallTyping ==
  ASSUME TypeOK, FetchedKnown, NEW c \in Callers,
         InstallGo(c) \/ InstallTypeScript(c) \/ InstallPython(c)
  PROVE  TypeOK'
<1>1. resp[c] \in Stamps /\ keysets[resp[c]] \in SUBSET Addr
  BY Stamping DEF TypeOK, FetchedKnown, Fetched, InstallGo, InstallTypeScript, InstallPython
<1>2. /\ raced' \in BOOLEAN /\ overtaken' \in BOOLEAN /\ label' \in Stamps
      /\ torn' \in [Callers -> BOOLEAN]
  BY Stamping DEF TypeOK, InstallGo, InstallTypeScript, InstallPython, NoteInstall, NoteTorn, NoLabel
<1>3. CASE InstallGo(c)
  <2>1. cache' \in Caches
    BY <1>1, <1>3, CacheTyping DEF InstallGo
  <2> QED BY <1>2, <1>3, <2>1 DEF TypeOK, InstallGo, PCs, signerVars
<1>4. CASE InstallPython(c)
  <2>1. cache' \in Caches
    BY <1>1, <1>4, CacheTyping DEF InstallPython
  <2> QED BY <1>1, <1>2, <1>4, <2>1 DEF TypeOK, InstallPython, PCs, signerVars
<1>5. CASE InstallTypeScript(c)
  <2>1. cache' \in Caches
    BY <1>1, <1>5, CacheTyping DEF InstallTypeScript
  <2>2. CASE Return(c, Failed)
    BY <1>2, <1>5, <2>1, <2>2, ReturnTyping, FixedResults
    DEF TypeOK, InstallTypeScript, signerVars
  <2>3. CASE pc' = [pc EXCEPT ![c] = "installed"] /\ UNCHANGED <<resp, todo, out>>
    BY <1>2, <1>5, <2>1, <2>3 DEF TypeOK, InstallTypeScript, PCs, signerVars
  <2> QED BY <1>5, <2>2, <2>3 DEF InstallTypeScript
<1> QED BY <1>3, <1>4, <1>5
  DEF InstallGo, InstallTypeScript, InstallPython

LEMMA StepTyping ==
  ASSUME TypeOK, FetchedKnown, NEW c \in Callers, Step(c)
  PROVE  TypeOK'
<1>1. CASE AccountLookup(c)
  <2>1. CASE Return(c, Failed)
    BY <1>1, <2>1, ReturnTyping, FixedResults DEF TypeOK, AccountLookup, signerVars, cacheVars
  <2>2. CASE pc' = [pc EXCEPT ![c] = "status"]
    BY <1>1, <2>2 DEF TypeOK, AccountLookup, PCs, signerVars, cacheVars, Return
  <2> QED BY <1>1, <2>1, <2>2 DEF AccountLookup
<1>2. CASE RequestFails(c)
  BY <1>2, ReturnTyping, FixedResults DEF TypeOK, RequestFails, signerVars, cacheVars
<1>3. CASE GetStatus(c)
  <2>1. CASE locked
    BY <1>3, <2>1, ReturnTyping, FixedResults DEF TypeOK, GetStatus, signerVars, cacheVars
  <2>2. CASE ~locked
    BY <1>3, <2>2, Stamping DEF TypeOK, GetStatus, PCs, signerVars, cacheVars
  <2> QED BY <2>1, <2>2
<1>4. CASE CheckRevision(c) \/ CompareRevision(c) \/ UseCache(c)
  <2>1. Answer(c, cache.ver, cache.keys) \in Results /\ Entry(arg[c]) \in Results
    BY AnswerTyping, EntryTyping DEF TypeOK, Caches
  <2>2. CASE \E r \in Results : Return(c, r)
    BY <1>4, <2>2, ReturnTyping
    DEF TypeOK, CheckRevision, CompareRevision, UseCache, signerVars, cacheVars
  <2>3. CASE \E l \in {"fetch", "compare", "copy"} : Goto(c, l)
    BY <1>4, <2>3
    DEF TypeOK, Goto, CheckRevision, CompareRevision, UseCache, PCs, signerVars, cacheVars
  <2> QED BY <1>4, <2>1, <2>2, <2>3 DEF CheckRevision, CompareRevision, UseCache
<1>5. CASE FetchKeys(c)
  <2>1. CASE locked
    BY <1>5, <2>1, ReturnTyping, FixedResults DEF TypeOK, FetchKeys, signerVars, cacheVars
  <2>2. CASE ~locked
    BY <1>5, <2>2, Stamping DEF TypeOK, FetchKeys, PCs, signerVars, cacheVars
  <2> QED BY <2>1, <2>2
<1>6. CASE InstallGo(c) \/ InstallTypeScript(c) \/ InstallPython(c)
  BY <1>6, InstallTyping
<1>16. CASE DropLabel(c)
  <2>1. Result("ok", resp[c], {}) \in Results
    BY ResultTyping DEF TypeOK
  <2>2. CASE Return(c, Result("ok", resp[c], {}))
    BY <1>16, <2>1, <2>2, ReturnTyping, Stamping DEF TypeOK, DropLabel, NoLabel, signerVars
  <2>3. CASE Goto(c, "rebuild")
    BY <1>16, <2>3, Stamping DEF TypeOK, DropLabel, Goto, NoLabel, PCs, signerVars
  <2> QED BY <1>16, <2>2, <2>3 DEF DropLabel
<1>7. CASE RebuildKey(c)
  <2>1. PICK a \in todo[c] : /\ todo' = [todo EXCEPT ![c] = @ \ {a}]
                            /\ cache' = [cache EXCEPT !.keys = @ \union {a}]
    BY <1>7 DEF RebuildKey
  <2>2. a \in Addr
    BY DEF TypeOK
  <2>3. cache' \in Caches
    BY <2>1, <2>2 DEF TypeOK, Caches
  <2> QED BY <1>7, <2>1, <2>3 DEF TypeOK, RebuildKey, signerVars
<1>8. CASE RebuildFails(c)
  BY <1>8, ReturnTyping, FixedResults DEF TypeOK, RebuildFails, signerVars, cacheVars
<1>9. CASE RebuildDone(c)
  BY <1>9 DEF TypeOK, RebuildDone, PCs, signerVars, cacheVars
<1>10. CASE FinishByRevision(c)
  <2>1. resp[c] \in Stamps /\ keysets[resp[c]] \in SUBSET Addr
    BY <1>10, Stamping DEF TypeOK, FetchedKnown, Fetched, FinishByRevision
  <2>2. Answer(c, resp[c], keysets[resp[c]]) \in Results
    BY <2>1, AnswerTyping
  <2> QED BY <1>10, <2>2, ReturnTyping DEF TypeOK, FinishByRevision, Label, signerVars
<1>11. CASE FinishList(c)
  <2>1. resp[c] \in Stamps /\ keysets[resp[c]] \in SUBSET Addr
    BY <1>11, Stamping DEF TypeOK, FetchedKnown, Fetched, FinishList
  <2>2. Result("keys", resp[c], keysets[resp[c]]) \in Results
    BY <2>1, ResultTyping
  <2> QED BY <1>11, <2>2, ReturnTyping DEF TypeOK, FinishList, signerVars, cacheVars
<1>12. CASE FinishInfo(c)
  <2>1. Entry(arg[c]) \in Results
    BY EntryTyping DEF TypeOK
  <2> QED BY <1>12, <2>1, ReturnTyping DEF TypeOK, FinishInfo, signerVars, cacheVars
<1>13. CASE MutationRefused(c)
  BY <1>13, ReturnTyping, FixedResults DEF TypeOK, MutationRefused, signerVars, cacheVars
<1>14. CASE MutationApplied(c)
  <2>1. /\ version + 1 \in Versions
        /\ version' = version + 1
        /\ keysets' \in [Versions -> SUBSET Addr]
    BY <1>14, VersionAssumption DEF TypeOK, MutationApplied, ChangeKeyset, Versions
  <2> QED BY <1>14, <2>1, Stamping DEF TypeOK, MutationApplied, PCs, cacheVars
<1>15. CASE MutationAcked(c)
  <2>1. resp[c] \in Stamps
    BY DEF TypeOK
  <2>2. Result("ok", resp[c], {}) \in Results
    BY <2>1, ResultTyping
  <2>3. /\ cache' \in Caches /\ label' \in Stamps /\ raced' \in BOOLEAN
        /\ overtaken' \in BOOLEAN /\ torn' \in [Callers -> BOOLEAN] /\ acked' \in Stamps
    BY <1>15, <2>1, Stamping
    DEF TypeOK, MutationAcked, InvalidateCache, EmptyCache, Caches, NoteClear, NoteTorn, NoLabel
  <2>4. CASE Return(c, Result("ok", resp[c], {}))
    BY <1>15, <2>2, <2>3, <2>4, ReturnTyping DEF TypeOK, MutationAcked, signerVars
  <2>5. CASE Goto(c, "forget")
    BY <1>15, <2>3, <2>5 DEF TypeOK, MutationAcked, Goto, PCs, signerVars
  <2> QED BY <1>15, <2>4, <2>5 DEF MutationAcked
<1> QED BY <1>1, <1>2, <1>3, <1>4, <1>5, <1>6, <1>7, <1>8, <1>9, <1>10, <1>11,
           <1>12, <1>13, <1>14, <1>15, <1>16 DEF Step

(* A step brings a caller to its /keys answer only from the request itself. *)
LEMMA FetchedStep ==
  ASSUME TypeOK, FetchedKnown, [Next]_vars
  PROVE  FetchedKnown'
<1> USE DEF TypeOK, FetchedKnown, Fetched
<1>1. CASE UNCHANGED callVars
  BY <1>1 DEF callVars
<1>2. ASSUME NEW c \in Callers, BeginCall(c) PROVE FetchedKnown'
  BY <1>2 DEF BeginCall, BeginFound, ListKeysCached, ListKeysFetch, ListKeysIfKeysetChanged,
    ResolveAuthAddress, GetKeyInfo, MutateKeys, Begin
<1>3. ASSUME NEW c \in Callers, Step(c) PROVE FetchedKnown'
  <2>1. CASE \E r : Return(c, r)
    BY <2>1 DEF Return
  <2>2. CASE AccountLookup(c) \/ GetStatus(c) \/ CheckRevision(c) \/ CompareRevision(c)
             \/ FetchKeys(c)
    BY <2>1, <2>2
    DEF AccountLookup, GetStatus, CheckRevision, CompareRevision, FetchKeys, Goto
  <2>3. CASE InstallGo(c) \/ InstallTypeScript(c) \/ InstallPython(c) \/ DropLabel(c)
    BY <2>1, <2>3 DEF InstallGo, InstallTypeScript, InstallPython, DropLabel, Goto
  <2>4. CASE RebuildKey(c) \/ RebuildDone(c) \/ MutationApplied(c)
    BY <2>4 DEF RebuildKey, RebuildDone, MutationApplied
  <2>5. CASE MutationAcked(c)
    BY <2>1, <2>5 DEF MutationAcked, Goto
  <2> QED BY <1>3, <2>1, <2>2, <2>3, <2>4, <2>5
    DEF Step, UseCache, RequestFails, RebuildFails, FinishByRevision, FinishList, FinishInfo,
        MutationRefused
<1> QED BY <1>1, <1>2, <1>3
  DEF Next, SignerChange, SignerPublish, SignerToggleLock, vars, callVars

LEMMA InitTyping ==
  ASSUME Init
  PROVE  TypeOK /\ FetchedKnown
<1>1. EmptyCache \in Caches
  BY Stamping DEF EmptyCache, Caches
<1>2. keysets \in [Versions -> SUBSET Addr] /\ arg \in [Callers -> Addr]
  BY DEF Init
<1>3. FetchedKnown
  BY DEF Init, FetchedKnown, Fetched
<1> QED BY <1>1, <1>2, <1>3, Stamping, FixedResults DEF Init, TypeOK, NoLabel, PCs, Ops

LEMMA NextTyping ==
  ASSUME TypeOK, FetchedKnown, [Next]_vars
  PROVE  TypeOK' /\ FetchedKnown'
<1>1. CASE UNCHANGED vars
  BY <1>1, FetchedStep DEF TypeOK, vars, signerVars, cacheVars, callVars
<1>2. CASE Next
  BY <1>2, SignerTyping, BeginTyping, StepTyping, FetchedStep DEF Next
<1> QED BY <1>1, <1>2

(* The variables of the model, the history ones included, keep their types;  *)
(* in particular no call indexes a keyset the signer never had.              *)
THEOREM TypeCorrect == Spec => []TypeOK
<1>1. Init => TypeOK /\ FetchedKnown
  BY InitTyping
<1>2. TypeOK /\ FetchedKnown /\ [Next]_vars => TypeOK' /\ FetchedKnown'
  BY NextTyping
<1> QED BY <1>1, <1>2, PTL DEF Spec

-----------------------------------------------------------------------------
(* The order of the stamps. *)

LEMMA OrderStep ==
  ASSUME TypeOK, FetchedKnown, Ordered, AnswerNotOlder, [Next]_vars
  PROVE  Ordered' /\ AnswerNotOlder'
<1> USE DEF TypeOK, Ordered, AnswerNotOlder, Fetched
<1> /\ version \in Nat /\ revision \in Nat /\ cache.ver \in Nat
    /\ \A c \in Callers : srev[c] \in Nat /\ resp[c] \in Nat
  BY VersionAssumption DEF Versions, Stamps, Caches
<1>1. CASE SignerChange \/ SignerPublish \/ SignerToggleLock \/ UNCHANGED vars
  <2> USE DEF SignerChange, ChangeKeyset, SignerPublish, SignerToggleLock, vars, signerVars
  <2>1. UNCHANGED <<cacheVars, callVars>>
    BY <1>1
  <2>2. CASE SignerChange
    BY <2>1, <2>2 DEF cacheVars, callVars
  <2>3. CASE SignerPublish
    BY <2>1, <2>3 DEF cacheVars, callVars
  <2>4. CASE SignerToggleLock \/ UNCHANGED vars
    BY <2>1, <2>4 DEF cacheVars, callVars
  <2> QED BY <1>1, <2>2, <2>3, <2>4
<1>2. ASSUME NEW c \in Callers, BeginCall(c) PROVE Ordered' /\ AnswerNotOlder'
  <2>1. UNCHANGED <<signerVars, cacheVars>>
    BY <1>2 DEF BeginCall, BeginFound, ListKeysCached, ListKeysFetch, ListKeysIfKeysetChanged,
      ResolveAuthAddress, GetKeyInfo, MutateKeys
  <2>2. PICK l \in {"idle", "copy", "fetch", "status", "lookup", "mutate"} :
          /\ pc' = [pc EXCEPT ![c] = l]
          /\ srev' = [srev EXCEPT ![c] = 0]
          /\ resp' = [resp EXCEPT ![c] = 0]
    BY <1>2 DEF BeginCall, BeginFound, ListKeysCached, ListKeysFetch, ListKeysIfKeysetChanged,
      ResolveAuthAddress, GetKeyInfo, MutateKeys, Begin
  <2> QED BY <2>1, <2>2 DEF signerVars, cacheVars
<1>3. ASSUME NEW c \in Callers, Step(c) PROVE Ordered' /\ AnswerNotOlder'
  <2>1. CASE AccountLookup(c) \/ RequestFails(c) \/ RebuildFails(c) \/ FinishByRevision(c)
             \/ FinishList(c) \/ FinishInfo(c) \/ MutationRefused(c)
    BY <2>1 DEF AccountLookup, RequestFails, RebuildFails, FinishByRevision, FinishList,
      FinishInfo, MutationRefused, Return, signerVars, cacheVars
  <2>2. CASE GetStatus(c) \/ CheckRevision(c) \/ FetchKeys(c)
    BY <2>2 DEF GetStatus, CheckRevision, FetchKeys, Goto, Return, signerVars, cacheVars
  <2>9. CASE CompareRevision(c) \/ UseCache(c) \/ DropLabel(c)
    BY <2>9 DEF CompareRevision, UseCache, DropLabel, Goto, Return, signerVars, cacheVars
  <2>3. CASE InstallGo(c) \/ InstallPython(c)
    BY <2>3 DEF InstallGo, InstallPython, signerVars
  <2>4. CASE InstallTypeScript(c)
    <3>1. cache'.ver = resp[c]
      BY <2>4 DEF InstallTypeScript
    <3> QED BY <2>4, <3>1 DEF InstallTypeScript, Return, signerVars
  <2>5. CASE RebuildKey(c)
    <3>1. cache'.ver = cache.ver
      BY <2>5 DEF RebuildKey, Caches
    <3> QED BY <2>5, <3>1 DEF RebuildKey, signerVars
  <2>6. CASE RebuildDone(c)
    BY <2>6 DEF RebuildDone, signerVars, cacheVars
  <2>7. CASE MutationApplied(c)
    BY <2>7 DEF MutationApplied, ChangeKeyset, cacheVars
  <2>8. CASE MutationAcked(c)
    BY <2>8 DEF MutationAcked, InvalidateCache, EmptyCache, Goto, Return, signerVars
  <2> QED BY <1>3, <2>1, <2>2, <2>3, <2>4, <2>5, <2>6, <2>7, <2>8, <2>9 DEF Step
<1> QED BY <1>1, <1>2, <1>3 DEF Next

-----------------------------------------------------------------------------
(* The cache and its label. *)

CacheInv == FillingExact /\ InstalledExact /\ FreshUnlessRaced

(* What a step of another caller leaves as it is. *)
Apart(d) ==
  /\ pc'[d] = pc[d] /\ op'[d] = op[d] /\ resp'[d] = resp[d] /\ todo'[d] = todo[d]
  /\ srev'[d] = srev[d] /\ out'[d] = out[d]

LEMMA ApartFacts ==
  ASSUME NEW d \in Callers, Apart(d)
  PROVE  /\ Filling(d)' = Filling(d) /\ Unlabelled(d)' = Unlabelled(d)
         /\ Looking(d)' = Looking(d) /\ Fresh(d)' = Fresh(d)
BY DEF Apart, Filling, Unlabelled, Looking, Fresh, Answered

(* Every step of a call is that caller's alone, but for the histories. *)
LEMMA StepApart ==
  ASSUME TypeOK, NEW c \in Callers, Step(c)
  PROVE  /\ sdk' = sdk
         /\ op' = op
         /\ \A d \in Callers \ {c} : Apart(d)
<1> USE DEF TypeOK, Apart, Return, Goto
<1>1. CASE AccountLookup(c) \/ RequestFails(c) \/ GetStatus(c) \/ CheckRevision(c)
           \/ CompareRevision(c) \/ UseCache(c) \/ FetchKeys(c)
  BY <1>1 DEF AccountLookup, RequestFails, GetStatus, CheckRevision, CompareRevision, UseCache,
    FetchKeys
<1>2. CASE InstallGo(c) \/ InstallTypeScript(c) \/ InstallPython(c) \/ DropLabel(c)
  BY <1>2 DEF InstallGo, InstallTypeScript, InstallPython, DropLabel
<1>3. CASE RebuildKey(c) \/ RebuildFails(c) \/ RebuildDone(c)
  BY <1>3 DEF RebuildKey, RebuildFails, RebuildDone
<1>4. CASE FinishByRevision(c) \/ FinishList(c) \/ FinishInfo(c)
  BY <1>4 DEF FinishByRevision, FinishList, FinishInfo
<1>5. CASE MutationRefused(c) \/ MutationApplied(c) \/ MutationAcked(c)
  BY <1>5 DEF MutationRefused, MutationApplied, MutationAcked
<1> QED BY <1>1, <1>2, <1>3, <1>4, <1>5 DEF Step

(* So is the beginning of one. *)
Landings == PCs \ {"compare", "install", "unlabel", "rebuild", "installed"}

LEMMA BeginApart ==
  ASSUME TypeOK, NEW c \in Callers, BeginCall(c)
  PROVE  /\ UNCHANGED <<sdk, signerVars, cacheVars, acked>>
         /\ \E o \in Ops, a \in Addr, l \in Landings,
               r \in Results :
              /\ Begin(c, o, a, l) /\ out' = [out EXCEPT ![c] = r]
              /\ o \notin ByRevision \/ r.kind = "none"
              /\ l = "copy" => ~AtOnce /\ cache.keys # {} /\ o \notin ByRevision
              /\ r.kind \in {"keys", "found", "missing"} =>
                   r.ver = cache.ver /\ (Cached \/ cache.keys # {})
<1>a. arg[c] \in Addr /\ cache.ver \in Stamps /\ cache.keys \in SUBSET Addr
  BY DEF TypeOK, Caches
<1>b. /\ {"list", "info", "changed", "resolve", "generate", "delete"} \subseteq Ops
      /\ {"idle", "copy", "fetch", "status", "lookup", "mutate"} \subseteq
           Landings
      /\ "list" \notin ByRevision /\ "info" \notin ByRevision
  BY DEF Ops, PCs, ByRevision, Landings
<1>c. Pending \in Results /\ Pending.kind = "none"
  BY FixedResults DEF Pending, Result
<1>1. CASE ListKeysCached(c)
  <2>1. /\ Result("keys", cache.ver, cache.keys) \in Results
        /\ Result("keys", cache.ver, cache.keys).ver = cache.ver
    BY <1>a, ResultTyping DEF Result
  <2>2. CASE AtOnce
    BY <1>1, <1>a, <1>b, <2>1, <2>2 DEF ListKeysCached, BeginFound
  <2>3. CASE ~AtOnce
    <3>1. cache.keys # {}
      BY <1>1, <2>3 DEF ListKeysCached, Cached, AtOnce
    <3> QED BY <1>1, <1>a, <1>b, <1>c, <2>3, <3>1 DEF ListKeysCached, BeginFound
  <2> QED BY <2>2, <2>3
<1>2. CASE ListKeysFetch(c)
  BY <1>2, <1>a, <1>b, <1>c DEF ListKeysFetch
<1>3. CASE ListKeysIfKeysetChanged(c)
  BY <1>3, <1>a, <1>b, <1>c DEF ListKeysIfKeysetChanged
<1>4. CASE ResolveAuthAddress(c)
  BY <1>4, <1>a, <1>b, <1>c DEF ResolveAuthAddress
<1>5. CASE \E a \in Addr : GetKeyInfo(c, a)
  <2>1. PICK a \in Addr : GetKeyInfo(c, a)
    BY <1>5
  <2>2. CASE a \notin cache.keys
    BY <1>b, <1>c, <2>1, <2>2 DEF GetKeyInfo
  <2>3. CASE a \in cache.keys
    <3>1. Entry(a) \in Results /\ Entry(a).ver = cache.ver /\ cache.keys # {}
      BY <2>3, EntryTyping DEF Entry, Result
    <3>2. CASE AtOnce
      BY <1>b, <2>1, <2>3, <3>1, <3>2 DEF GetKeyInfo, BeginFound
    <3>3. CASE ~AtOnce
      BY <1>b, <1>c, <2>1, <2>3, <3>1, <3>3 DEF GetKeyInfo, BeginFound
    <3> QED BY <3>2, <3>3
  <2> QED BY <2>2, <2>3
<1>6. CASE \E a \in Addr, o \in Mutations : MutateKeys(c, o, a)
  BY <1>6, <1>b, <1>c DEF MutateKeys, Mutations
<1> QED BY <1>1, <1>2, <1>3, <1>4, <1>5, <1>6 DEF BeginCall

(* A step of caller c that leaves the cache alone and does not bring c into  *)
(* a window where the cache is being filled or waits for its label.          *)
LEMMA QuietStep ==
  ASSUME IInv, NEW c \in Callers, UNCHANGED <<sdk, cacheVars, keysets>>,
         ~Filling(c)', ~Unlabelled(c)',
         \A d \in Callers \ {c} : Apart(d) /\ torn'[d] = torn[d],
         ~raced => Fresh(c)' \/ (sdk = "python" /\ torn'[c])
  PROVE  CacheInv'
<1> USE DEF IInv
<1>1. \A d \in Callers \ {c} : /\ Filling(d)' = Filling(d)
                              /\ Unlabelled(d)' = Unlabelled(d)
                              /\ Fresh(d)' = Fresh(d)
  BY ApartFacts
<1>3. Cached' = Cached
  BY DEF Cached, cacheVars
<1>4. FillingExact'
  BY <1>1 DEF FillingExact, Apart, cacheVars
<1>5. InstalledExact'
  BY <1>1, <1>3 DEF InstalledExact, Apart, cacheVars
<1>6. FreshUnlessRaced'
  BY <1>1, <1>3 DEF FreshUnlessRaced, LabelSound, cacheVars
<1> QED BY <1>4, <1>5, <1>6 DEF CacheInv

(* A call that returns something other than an answer by revision is quiet. *)
LEMMA QuietReturn ==
  ASSUME IInv, NEW c \in Callers, UNCHANGED <<sdk, cacheVars, keysets>>,
         NEW r, Return(c, r), UNCHANGED <<op, srev, torn>>,
         ~raced /\ r.kind \in {"keys", "found", "missing"} /\ op[c] \in ByRevision
           => r.ver >= srev[c] \/ (sdk = "python" /\ torn[c])
  PROVE  CacheInv'
<1>2. out'[c] = r /\ pc'[c] = "idle"
  BY DEF Return, IInv, TypeOK
<1>3. ~raced => Fresh(c)' \/ (sdk = "python" /\ torn'[c])
  BY <1>2 DEF Fresh, Answered
<1>4. \A d \in Callers \ {c} : Apart(d)
  BY DEF Return, IInv, TypeOK, Apart
<1>5. ~Filling(c)' /\ ~Unlabelled(c)'
  BY <1>2 DEF Filling, Unlabelled
<1> QED BY <1>3, <1>4, <1>5, QuietStep

LEMMA FailedQuiet ==
  ASSUME IInv, NEW c \in Callers, UNCHANGED <<sdk, cacheVars, keysets>>,
         Return(c, Failed), UNCHANGED <<op, srev, torn>>
  PROVE  CacheInv'
BY QuietReturn DEF Failed, Result

(* A call on its way is quiet outside those windows. *)
LEMMA QuietWay ==
  ASSUME IInv, NEW c \in Callers, Step(c), UNCHANGED <<cacheVars, keysets, torn>>,
         pc'[c] \notin {"idle", "unlabel", "rebuild", "installed"}
  PROVE  CacheInv'
<1>1. sdk' = sdk /\ \A d \in Callers \ {c} : Apart(d)
  BY StepApart DEF IInv
<1>2. Fresh(c)' /\ ~Filling(c)' /\ ~Unlabelled(c)'
  BY DEF Fresh, Answered, Filling, Unlabelled
<1> QED BY <1>1, <1>2, QuietStep

(* A new keyset of the signer: the old ones stay. *)
LEMMA KeysetStep ==
  ASSUME IInv, NEW K, ChangeKeyset(K)
  PROVE  \A v \in Versions : v <= version => keysets'[v] = keysets[v]
BY VersionAssumption DEF IInv, TypeOK, ChangeKeyset, Versions

LEMMA SignerCache ==
  ASSUME IInv, SignerChange \/ SignerPublish \/ SignerToggleLock \/ UNCHANGED vars
  PROVE  CacheInv'
<1>1. UNCHANGED <<sdk, cacheVars, callVars>>
  BY DEF SignerChange, SignerPublish, SignerToggleLock, vars
<1>2. \A v \in Versions : v <= version => keysets'[v] = keysets[v]
  <2>1. CASE SignerChange
    BY <2>1, KeysetStep DEF SignerChange
  <2> QED BY <2>1 DEF SignerPublish, SignerToggleLock, vars, signerVars
<1>3. /\ \A d \in Callers : /\ Filling(d)' = Filling(d)
                           /\ Unlabelled(d)' = Unlabelled(d)
                           /\ Fresh(d)' = Fresh(d)
      /\ Cached' = Cached
  BY <1>1 DEF Filling, Unlabelled, Fresh, Answered, Cached, cacheVars, callVars
<1>4. \A d \in Callers : Filling(d) \/ Unlabelled(d) =>
        resp[d] \in Versions /\ resp[d] <= version
  BY DEF IInv, FetchedKnown, Fetched, Ordered, Filling, Unlabelled
<1>5. FillingExact'
  BY <1>1, <1>2, <1>3, <1>4 DEF IInv, FillingExact, cacheVars, callVars
<1>6. InstalledExact'
  BY <1>1, <1>2, <1>3, <1>4 DEF IInv, InstalledExact, cacheVars, callVars
<1>7. label # NoLabel /\ label <= cache.ver => cache.ver \in Versions /\ cache.ver <= version
  BY VersionAssumption DEF IInv, TypeOK, Ordered, Versions, Stamps, Caches, NoLabel
<1>8. FreshUnlessRaced'
  BY <1>1, <1>2, <1>3, <1>7
  DEF IInv, FreshUnlessRaced, LabelSound, cacheVars, callVars
<1> QED BY <1>5, <1>6, <1>8 DEF CacheInv

(* A call that begins answers at once only when it does not go by revision. *)
LEMMA BeginCache ==
  ASSUME IInv, NEW c \in Callers, BeginCall(c)
  PROVE  CacheInv'
<1> USE DEF IInv
<1>1. PICK o \in Ops, a \in Addr, l \in Landings,
           r \in Results : /\ Begin(c, o, a, l) /\ out' = [out EXCEPT ![c] = r]
                           /\ o \notin ByRevision \/ r.kind = "none"
  BY BeginApart
<1>0. UNCHANGED <<sdk, cacheVars, keysets>>
  BY BeginApart DEF signerVars
<1>2. /\ pc'[c] = l /\ op'[c] = o /\ out'[c] = r
      /\ \A d \in Callers \ {c} : Apart(d) /\ torn'[d] = torn[d]
  BY <1>1 DEF Begin, TypeOK, Apart
<1>3. ~Filling(c)' /\ ~Unlabelled(c)' /\ Fresh(c)'
  BY <1>1, <1>2 DEF Landings, Filling, Unlabelled, Fresh, Answered
<1> QED BY <1>0, <1>2, <1>3, QuietStep

(* What CheckRevision and FinishByRevision answer carries the version given. *)
LEMMA AnswerVersion ==
  ASSUME NEW c \in Callers, NEW v, NEW K
  PROVE  Answer(c, v, K).ver = v
BY DEF Answer, Result

LEMMA InstallCache ==
  ASSUME IInv, NEW c \in Callers, Step(c),
         InstallGo(c) \/ InstallTypeScript(c) \/ InstallPython(c)
  PROVE  CacheInv'
<1> USE DEF IInv, TypeOK
<1>1. /\ ~raced' => /\ ~raced
                    /\ \A d \in Callers \ {c} : ~Filling(d) /\ ~Unlabelled(d)
      /\ \A d \in Callers : torn[d] => torn'[d]
      /\ UNCHANGED <<keysets, srev>>
      /\ pc[c] = "install"
  BY DEF InstallGo, InstallTypeScript, InstallPython, NoteInstall, NoteTorn, signerVars
<1>2. \A d \in Callers \ {c} : /\ Filling(d)' = Filling(d)
                              /\ Unlabelled(d)' = Unlabelled(d)
                              /\ Fresh(d)' = Fresh(d)
  BY StepApart, ApartFacts
<1>3. LabelSound'
  <2>1. CASE InstallPython(c)
    BY <2>1 DEF LabelSound, Cached, InstallPython
  <2> QED BY <2>1 DEF LabelSound, InstallGo, InstallTypeScript
<1>4. Fresh(c)'
  BY DEF InstallGo, InstallTypeScript, InstallPython, Return, Fresh, Answered, Failed, Result
<1>5. FreshUnlessRaced'
  <2>1. sdk' = sdk
    BY StepApart
  <2> QED BY <1>1, <1>2, <1>3, <1>4, <2>1 DEF FreshUnlessRaced
<1>6. FillingExact'
  <2>1. CASE InstallPython(c)
    BY <1>1, <1>2, <2>1 DEF FillingExact, InstallPython
  <2>2. CASE InstallGo(c) \/ InstallTypeScript(c)
    <3>1. ~Filling(c)'
      BY <2>2 DEF InstallGo, InstallTypeScript, Return, Filling
    <3> QED BY <1>1, <1>2, <3>1 DEF FillingExact
  <2> QED BY <2>1, <2>2
<1>7. InstalledExact'
  <2>1. Unlabelled(c)' => /\ cache'.ver = resp'[c]
                          /\ cache'.keys = keysets'[resp'[c]]
    BY <1>1 DEF Unlabelled, InstallGo, InstallTypeScript, InstallPython, Return
  <2> QED BY <1>1, <1>2, <2>1 DEF InstalledExact
<1> QED BY <1>5, <1>6, <1>7 DEF CacheInv

LEMMA RebuildCache ==
  ASSUME IInv, NEW c \in Callers, Step(c), RebuildKey(c) \/ RebuildDone(c)
  PROVE  CacheInv'
<1> USE DEF IInv, TypeOK
<1>1. /\ UNCHANGED <<sdk, keysets, label, raced, op, srev, resp, out, torn>>
      /\ cache'.ver = cache.ver
      /\ Filling(c) /\ pc[c] = "rebuild" /\ pc'[c] # "unlabel"
  BY DEF RebuildKey, RebuildDone, signerVars, cacheVars, Filling, Caches
<1>2. \A d \in Callers \ {c} : /\ Filling(d)' = Filling(d)
                              /\ Unlabelled(d)' = Unlabelled(d)
                              /\ Fresh(d)' = Fresh(d)
                              /\ Apart(d)
  BY StepApart, ApartFacts
<1>3. Fresh(c)'
  BY DEF RebuildKey, RebuildDone, Fresh, Answered
<1>4. cache'.keys \union todo'[c] = cache.keys \union todo[c]
  BY DEF RebuildKey, RebuildDone, Caches, cacheVars
<1>5. FreshUnlessRaced'
  <2>1. ~raced => label' = NoLabel
    BY <1>1 DEF FillingExact
  <2> QED BY <1>1, <1>2, <1>3, <2>1 DEF FreshUnlessRaced, LabelSound
<1>6. FillingExact'
  BY <1>1, <1>2, <1>4 DEF FillingExact
<1>7. InstalledExact'
  <2>1. CASE RebuildKey(c)
    <3>1. ~Unlabelled(c)'
      BY <2>1 DEF RebuildKey, Unlabelled
    <3> QED BY <1>1, <1>2, <3>1 DEF InstalledExact, FillingExact
  <2>2. CASE RebuildDone(c)
    <3>1. todo[c] = {} /\ cache' = cache
      BY <2>2 DEF RebuildDone, cacheVars
    <3> QED BY <1>1, <1>2, <3>1 DEF InstalledExact, FillingExact
  <2> QED BY <2>1, <2>2
<1> QED BY <1>5, <1>6, <1>7 DEF CacheInv

(* Dropping the label cannot make it wrong. *)
LEMMA DropCache ==
  ASSUME IInv, NEW c \in Callers, Step(c), DropLabel(c)
  PROVE  CacheInv'
<1> USE DEF IInv, TypeOK
<1>1. /\ UNCHANGED <<sdk, keysets, cache, raced, srev, torn>> /\ label' = NoLabel
      /\ Cached' = Cached /\ Filling(c)' = Filling(c) /\ pc'[c] # "unlabel"
      /\ Filling(c) => resp'[c] = resp[c] /\ todo'[c] = todo[c]
      /\ ~Unlabelled(c)' /\ Fresh(c)'
  BY DEF DropLabel, Goto, Return, Cached, Filling, Unlabelled, Fresh, Answered, Result, signerVars
<1>2. \A d \in Callers \ {c} : /\ Filling(d)' = Filling(d)
                              /\ Unlabelled(d)' = Unlabelled(d)
                              /\ Fresh(d)' = Fresh(d)
                              /\ Apart(d)
  BY StepApart, ApartFacts
<1>3. FillingExact'
  BY <1>1, <1>2 DEF FillingExact, Apart
<1>4. InstalledExact'
  BY <1>1, <1>2 DEF InstalledExact, Apart
<1>5. FreshUnlessRaced'
  BY <1>1, <1>2 DEF FreshUnlessRaced, LabelSound
<1> QED BY <1>3, <1>4, <1>5 DEF CacheInv

LEMMA LabelCache ==
  ASSUME IInv, NEW c \in Callers, Step(c), FinishByRevision(c)
  PROVE  CacheInv'
<1> USE DEF IInv, TypeOK
<1>1. /\ UNCHANGED <<sdk, keysets, cache, raced, op, srev, torn>>
      /\ label' = srev[c]
      /\ Unlabelled(c)
      /\ Cached' = Cached
  BY DEF FinishByRevision, Label, signerVars, Unlabelled, Cached
<1>2. \A d \in Callers \ {c} : /\ Filling(d)' = Filling(d)
                              /\ Unlabelled(d)' = Unlabelled(d)
                              /\ Fresh(d)' = Fresh(d)
                              /\ resp'[d] = resp[d]
  BY StepApart, ApartFacts DEF Apart
<1>3. ~Filling(c)' /\ ~Unlabelled(c)'
  BY DEF FinishByRevision, Return, Filling, Unlabelled
<1>4. srev[c] <= resp[c]
  BY <1>1 DEF AnswerNotOlder, Fetched, Unlabelled
<1>5. FillingExact'
  BY <1>1, <1>2, <1>3 DEF FillingExact
<1>6. InstalledExact'
  BY <1>1, <1>2, <1>3 DEF InstalledExact
<1>7. ~raced => LabelSound'
  BY <1>1, <1>4 DEF LabelSound, InstalledExact
<1>8. out'[c].ver = resp[c]
  BY AnswerVersion DEF FinishByRevision, Return
<1>9. resp[c] \in Nat /\ srev[c] \in Nat
  BY VersionAssumption DEF Stamps
<1>10. Fresh(c)'
  BY <1>1, <1>4, <1>8, <1>9 DEF Fresh
<1> QED BY <1>1, <1>2, <1>5, <1>6, <1>7, <1>10 DEF CacheInv, FreshUnlessRaced

LEMMA MutationCache ==
  ASSUME IInv, NEW c \in Callers, Step(c), MutationApplied(c) \/ MutationAcked(c)
  PROVE  CacheInv'
<1> USE DEF IInv, TypeOK
<1>1. sdk' = sdk /\ op' = op
  BY StepApart
<1>2. \A d \in Callers \ {c} : /\ Filling(d)' = Filling(d)
                              /\ Unlabelled(d)' = Unlabelled(d)
                              /\ Fresh(d)' = Fresh(d)
                              /\ Apart(d)
  BY StepApart, ApartFacts
<1>3. ~Filling(c)' /\ ~Unlabelled(c)' /\ Fresh(c)'
  BY DEF MutationApplied, MutationAcked, Return, Goto, Filling, Unlabelled, Fresh, Answered, Result
<1>4. CASE MutationApplied(c)
  <2>1. UNCHANGED <<cacheVars, torn>> /\ Cached' = Cached
    BY <1>4 DEF MutationApplied, cacheVars, Cached
  <2>2. \A v \in Versions : v <= version => keysets'[v] = keysets[v]
    BY <1>4, KeysetStep DEF MutationApplied
  <2>3. \A d \in Callers : Filling(d) \/ Unlabelled(d) =>
          resp[d] \in Versions /\ resp[d] <= version
    BY DEF FetchedKnown, Fetched, Ordered, Filling, Unlabelled
  <2>4. FillingExact'
    BY <1>2, <1>3, <2>1, <2>2, <2>3 DEF FillingExact, Apart, cacheVars
  <2>5. InstalledExact'
    BY <1>2, <1>3, <2>1, <2>2, <2>3 DEF InstalledExact, Apart, cacheVars
  <2>6. label # NoLabel /\ label <= cache.ver => cache.ver \in Versions /\ cache.ver <= version
    BY VersionAssumption DEF Ordered, Versions, Stamps, Caches, NoLabel
  <2>7. FreshUnlessRaced'
    BY <1>1, <1>2, <1>3, <2>1, <2>2, <2>6 DEF FreshUnlessRaced, LabelSound, cacheVars
  <2> QED BY <2>4, <2>5, <2>7 DEF CacheInv
<1>5. CASE MutationAcked(c)
  <2>1. ~Cached'
    BY <1>5 DEF MutationAcked, InvalidateCache, EmptyCache, Cached
  <2>2. ~raced' => ~raced /\ \A d \in Callers \ {c} : ~Filling(d)
    BY <1>5 DEF MutationAcked, NoteClear
  <2>3. FillingExact'
    BY <1>2, <1>3, <2>2 DEF FillingExact
  <2>4. InstalledExact'
    BY <2>1 DEF InstalledExact
  <2>5. \A d \in Callers : torn[d] => torn'[d]
    BY <1>5 DEF MutationAcked, NoteClear, NoteTorn
  <2>6. FreshUnlessRaced'
    BY <1>1, <1>2, <1>3, <2>1, <2>2, <2>5 DEF FreshUnlessRaced, LabelSound
  <2> QED BY <2>3, <2>4, <2>6 DEF CacheInv
<1> QED BY <1>4, <1>5

LEMMA StepCache ==
  ASSUME IInv, NEW c \in Callers, Step(c)
  PROVE  CacheInv'
<1>0. TypeOK
  BY DEF IInv
<1>1. CASE AccountLookup(c)
  <2>1. CASE Return(c, Failed)
    BY <1>1, <2>1, FailedQuiet DEF AccountLookup, signerVars
  <2>2. CASE pc' = [pc EXCEPT ![c] = "status"]
    BY <1>0, <1>1, <2>2, QuietWay DEF AccountLookup, signerVars, TypeOK
  <2> QED BY <1>1, <2>1, <2>2 DEF AccountLookup
<1>2. CASE RequestFails(c)
  BY <1>2, FailedQuiet DEF RequestFails, signerVars
<1>3. CASE GetStatus(c)
  <2>1. CASE locked
    BY <1>3, <2>1, FailedQuiet DEF GetStatus, signerVars
  <2>2. CASE ~locked
    BY <1>0, <1>3, <2>2, QuietWay DEF GetStatus, signerVars, TypeOK
  <2> QED BY <2>1, <2>2
<1>4. CASE CheckRevision(c)
  <2>1. CASE Return(c, Answer(c, cache.ver, cache.keys)) /\ CacheHit(srev[c])
    <3>2. ~raced => cache.ver >= srev[c]
      BY <2>1, VersionAssumption
      DEF CacheHit, LabelIs, IInv, TypeOK, FreshUnlessRaced, LabelSound, Stamps, Caches
    <3> QED BY <1>4, <2>1, <3>2, AnswerVersion, QuietReturn DEF CheckRevision, signerVars
  <2>2. CASE \E l \in {"fetch", "compare"} : Goto(c, l)
    BY <1>0, <1>4, <2>2, QuietWay DEF CheckRevision, Goto, signerVars, TypeOK
  <2> QED BY <1>4, <2>1, <2>2 DEF CheckRevision
<1>14. CASE CompareRevision(c)
  BY <1>0, <1>14, QuietWay DEF CompareRevision, Goto, signerVars, TypeOK
<1>15. CASE UseCache(c)
  <2>1. Looking(c) /\ pc[c] = "copy"
    BY <1>15 DEF UseCache, Looking
  <2>2. CASE op[c] \in ByRevision
    <3>1. op[c] # "info"
      BY <2>2 DEF ByRevision
    <3>2. ~raced => cache.ver >= srev[c] \/ (sdk = "python" /\ torn[c])
      BY <2>1, <2>2, VersionAssumption DEF IInv, LookedExact, TypeOK, Stamps, Caches
    <3> QED BY <1>15, <3>1, <3>2, AnswerVersion, QuietReturn DEF UseCache, signerVars
  <2>3. CASE op[c] \notin ByRevision
    BY <1>15, <2>3, QuietReturn DEF UseCache, signerVars
  <2> QED BY <2>2, <2>3
<1>5. CASE FetchKeys(c)
  <2>1. CASE locked
    BY <1>5, <2>1, FailedQuiet DEF FetchKeys, signerVars
  <2>2. CASE ~locked
    BY <1>0, <1>5, <2>2, QuietWay DEF FetchKeys, signerVars, TypeOK
  <2> QED BY <2>1, <2>2
<1>6. CASE InstallGo(c) \/ InstallTypeScript(c) \/ InstallPython(c)
  BY <1>6, InstallCache
<1>16. CASE DropLabel(c)
  BY <1>16, DropCache
<1>7. CASE RebuildKey(c) \/ RebuildDone(c)
  BY <1>7, RebuildCache
<1>8. CASE RebuildFails(c)
  BY <1>8, FailedQuiet DEF RebuildFails, signerVars
<1>9. CASE FinishByRevision(c)
  BY <1>9, LabelCache
<1>10. CASE FinishList(c)
  <2>1. op[c] \notin ByRevision
    BY <1>10 DEF FinishList, ByRevision
  <2> QED BY <1>10, <2>1, QuietReturn DEF FinishList, signerVars
<1>11. CASE FinishInfo(c)
  <2>1. op[c] \notin ByRevision
    BY <1>11 DEF FinishInfo, ByRevision
  <2> QED BY <1>11, <2>1, QuietReturn DEF FinishInfo, signerVars
<1>12. CASE MutationRefused(c)
  BY <1>12, FailedQuiet DEF MutationRefused, signerVars
<1>13. CASE MutationApplied(c) \/ MutationAcked(c)
  BY <1>13, MutationCache
<1> QED BY <1>1, <1>2, <1>3, <1>4, <1>5, <1>6, <1>7, <1>8, <1>9, <1>10, <1>11,
           <1>12, <1>13, <1>14, <1>15, <1>16 DEF Step

(* What a Python thread saw in the cache stays, unless the thread is told. *)
LEMMA LookedStep ==
  ASSUME IInv, [Next]_vars
  PROVE  LookedExact'
<1> SUFFICES ASSUME NEW d \in Callers, Looking(d)'
             PROVE  /\ sdk' = "python"
                    /\ ~torn'[d] =>
                         /\ Cached'
                         /\ ~raced' /\ op'[d] \in ByRevision /\ pc'[d] = "copy"
                              => srev'[d] <= cache'.ver
  BY DEF LookedExact
<1> DEFINE Goal == /\ sdk' = "python"
                   /\ ~torn'[d] =>
                        /\ Cached'
                        /\ ~raced' /\ op'[d] \in ByRevision /\ pc'[d] = "copy"
                             => srev'[d] <= cache'.ver
<1> USE DEF IInv
<1>0. TypeOK
  OBVIOUS
<1>1. ASSUME Apart(d), torn'[d] = torn[d], sdk' = sdk, raced' = raced,
             cache'.ver = cache.ver, cache.keys \subseteq cache'.keys
      PROVE  Goal
  <2>1. Looking(d)
    BY <1>1, ApartFacts
  <2>2. sdk = "python" /\ (~torn[d] => Cached)
    BY <2>1 DEF LookedExact
  <2>3. ~torn'[d] => Cached'
    BY <1>1, <2>2 DEF Cached
  <2> QED BY <1>1, <2>1, <2>2, <2>3 DEF LookedExact, Apart
<1>2. ASSUME Apart(d), torn'[d], sdk' = sdk PROVE Goal
  <2>1. Looking(d)
    BY <1>2, ApartFacts
  <2> QED BY <1>2, <2>1 DEF LookedExact
<1>3. CASE SignerChange \/ SignerPublish \/ SignerToggleLock \/ UNCHANGED vars
  <2>1. UNCHANGED <<sdk, cacheVars, callVars>>
    BY <1>3 DEF SignerChange, SignerPublish, SignerToggleLock, vars
  <2> QED BY <1>1, <2>1 DEF cacheVars, callVars, Apart
<1>4. ASSUME NEW c \in Callers, BeginCall(c) PROVE Goal
  <2>1. PICK o \in Ops, a \in Addr, l \in Landings :
          /\ Begin(c, o, a, l)
          /\ l = "copy" => ~AtOnce /\ cache.keys # {} /\ o \notin ByRevision
    BY <1>0, <1>4, BeginApart
  <2>2. UNCHANGED <<sdk, cacheVars>> /\ \E r : out' = [out EXCEPT ![c] = r]
    BY <1>0, <1>4, BeginApart
  <2>3. CASE d # c
    <3>1. Apart(d) /\ torn'[d] = torn[d]
      BY <1>0, <2>1, <2>2, <2>3 DEF Begin, Apart, TypeOK
    <3> QED BY <1>1, <2>2, <3>1 DEF cacheVars
  <2>4. CASE d = c
    <3>1. l = "copy" /\ op'[d] = o
      BY <1>0, <2>1, <2>4 DEF Begin, Looking, TypeOK, Landings
    <3>2. sdk = "python" /\ cache' = cache /\ sdk' = sdk
      BY <2>1, <2>2, <3>1 DEF AtOnce, cacheVars
    <3>3. Cached'
      BY <2>1, <3>1, <3>2 DEF Cached
    <3> QED BY <2>1, <3>1, <3>2, <3>3
  <2> QED BY <2>3, <2>4
<1>5. ASSUME NEW c \in Callers, Step(c) PROVE Goal
  <2>0. sdk' = sdk /\ op' = op /\ \A e \in Callers \ {c} : Apart(e)
    BY <1>0, <1>5, StepApart
  <2>1. CASE InstallGo(c) \/ InstallTypeScript(c) \/ InstallPython(c) \/ MutationAcked(c)
    <3>1. NoteTorn(c) /\ ~Looking(c)'
      BY <1>0, <2>1 DEF InstallGo, InstallTypeScript, InstallPython, MutationAcked, NoteInstall,
        NoteClear, Return, Goto, Looking, TypeOK
    <3>2. d # c
      BY <3>1
    <3>3. Looking(d)
      BY <2>0, <3>2, ApartFacts
    <3>4. torn'[d]
      BY <3>1, <3>2, <3>3 DEF NoteTorn
    <3> QED BY <1>2, <2>0, <3>2, <3>4
  <2>2. ASSUME UNCHANGED <<torn, raced>>, cache'.ver = cache.ver, cache.keys \subseteq cache'.keys,
               d # c
        PROVE  Goal
    BY <1>1, <2>0, <2>2
  <2>3. CASE CheckRevision(c)
    <3>1. UNCHANGED <<torn, cacheVars, srev>>
      BY <2>3 DEF CheckRevision
    <3>2. CASE d = c
      <4>1. sdk = "python" /\ Cached /\ pc'[d] = "compare"
        BY <1>0, <2>3, <3>2 DEF CheckRevision, Return, Goto, Looking, AtOnce, TypeOK
      <4>2. Cached'
        BY <2>0, <3>1, <4>1 DEF Cached, cacheVars
      <4> QED BY <2>0, <4>1, <4>2
    <3> QED BY <2>2, <3>1, <3>2 DEF cacheVars
  <2>4. CASE CompareRevision(c)
    <3>1. UNCHANGED <<torn, cacheVars, srev>>
      BY <2>4 DEF CompareRevision
    <3>2. CASE d = c
      <4>1. Looking(d) /\ LabelIs(srev[d]) /\ pc'[d] = "copy"
        BY <1>0, <2>4, <3>2 DEF CompareRevision, Goto, Looking, TypeOK
      <4>2. sdk = "python" /\ (~torn[d] => Cached)
        BY <4>1 DEF LookedExact
      <4>3. ~torn'[d] => Cached'
        BY <2>0, <3>1, <4>2 DEF Cached, cacheVars
      <4>4. ~torn[d] /\ ~raced => srev[d] <= cache.ver
        BY <4>1, <4>2 DEF FreshUnlessRaced, LabelSound, LabelIs
      <4> QED BY <2>0, <3>1, <4>2, <4>3, <4>4 DEF cacheVars
    <3> QED BY <2>2, <3>1, <3>2 DEF cacheVars
  <2>5. CASE RebuildKey(c)
    <3>1. /\ UNCHANGED <<torn, raced>> /\ cache'.ver = cache.ver
          /\ cache.keys \subseteq cache'.keys /\ ~Looking(c)'
      BY <1>0, <2>5 DEF RebuildKey, TypeOK, Caches, Looking
    <3> QED BY <2>2, <3>1
  <2>6. CASE ~Looking(c)' /\ UNCHANGED <<torn, raced, cache>>
    BY <2>2, <2>6
  <2>7. CASE AccountLookup(c) \/ RequestFails(c) \/ GetStatus(c) \/ UseCache(c) \/ FetchKeys(c)
    BY <1>0, <2>6, <2>7 DEF AccountLookup, RequestFails, GetStatus, UseCache, FetchKeys, Return,
      Looking, cacheVars, TypeOK
  <2>8. CASE DropLabel(c) \/ RebuildFails(c) \/ RebuildDone(c)
    BY <1>0, <2>6, <2>8 DEF DropLabel, RebuildFails, RebuildDone, Return, Goto, Looking, cacheVars,
      TypeOK
  <2>9. CASE FinishByRevision(c) \/ FinishList(c) \/ FinishInfo(c) \/ MutationRefused(c)
             \/ MutationApplied(c)
    BY <1>0, <2>6, <2>9 DEF FinishByRevision, FinishList, FinishInfo, MutationRefused,
      MutationApplied, Return, Looking, cacheVars, TypeOK
  <2> QED BY <1>5, <2>1, <2>3, <2>4, <2>5, <2>7, <2>8, <2>9 DEF Step
<1> QED BY <1>3, <1>4, <1>5 DEF Next

LEMMA InitInv == Init => IInv
<1> SUFFICES ASSUME Init PROVE IInv
  OBVIOUS
<1>1. TypeOK /\ FetchedKnown
  BY InitTyping
<1>2. Ordered /\ AnswerNotOlder
  BY DEF Init, Ordered, AnswerNotOlder, Fetched, EmptyCache
<1>3. FillingExact /\ InstalledExact /\ LookedExact
  BY DEF Init, FillingExact, InstalledExact, LookedExact, Filling, Unlabelled, Looking
<1>4. FreshUnlessRaced
  BY DEF Init, FreshUnlessRaced, LabelSound, Fresh, Answered, Pending, Result
<1> QED BY <1>1, <1>2, <1>3, <1>4 DEF IInv

LEMMA NextInv == IInv /\ [Next]_vars => IInv'
<1> SUFFICES ASSUME IInv, [Next]_vars PROVE IInv'
  OBVIOUS
<1>1. TypeOK' /\ FetchedKnown'
  BY NextTyping DEF IInv
<1>2. Ordered' /\ AnswerNotOlder'
  BY OrderStep DEF IInv
<1>3. CacheInv'
  BY SignerCache, BeginCache, StepCache DEF Next
<1> QED BY <1>1, <1>2, <1>3, LookedStep DEF IInv, CacheInv

(* In every SDK, with any number of callers sharing the client: as long as   *)
(* no /keys answer is installed while another caller's is being filled in or *)
(* waits for its label, ListKeysIfKeysetChanged and ResolveAuthAddress never *)
(* decide from an inventory older than the revision they read, except for a  *)
(* Python call between whose look at the cache and use of it another thread  *)
(* cleared the cache.                                                        *)
THEOREM FreshTheorem == Spec => []FreshUnlessRaced
<1>1. IInv => FreshUnlessRaced
  BY DEF IInv
<1> QED BY <1>1, InitInv, NextInv, PTL DEF Spec

(* A client used by one caller at a time never sees either accident: its     *)
(* answers are at least as new as the revision it read.                      *)
THEOREM OneCallerFresh ==
  ASSUME \A c, d \in Callers : c = d
  PROVE  Spec => []FreshReply
<1> DEFINE Alone == ~raced /\ \A c \in Callers : torn[c] = FALSE
<1>1. Init => Alone
  BY DEF Init
<1>2. IInv /\ Alone /\ [Next]_vars => Alone'
  <2> SUFFICES ASSUME IInv, Alone, [Next]_vars PROVE Alone'
    OBVIOUS
  <2>1. CASE UNCHANGED <<raced, torn>>
    BY <2>1
  <2>2. ASSUME NEW c \in Callers, NoteInstall(c) \/ NoteClear(c) PROVE Alone'
    BY <2>2 DEF NoteInstall, NoteClear, NoteTorn
  <2>3. ASSUME NEW c \in Callers, BeginCall(c) PROVE Alone'
    <3>1. raced' = raced /\ torn' = [torn EXCEPT ![c] = FALSE]
      BY <2>3, BeginApart DEF IInv, cacheVars, Begin
    <3> QED BY <3>1 DEF IInv, TypeOK
  <2>4. ASSUME NEW c \in Callers, Step(c)
        PROVE  UNCHANGED <<raced, torn>> \/ NoteInstall(c) \/ NoteClear(c)
    BY <2>4 DEF Step, cacheVars, AccountLookup, RequestFails, GetStatus, CheckRevision,
      CompareRevision, UseCache, FetchKeys, InstallGo, InstallTypeScript, InstallPython, DropLabel,
      RebuildKey, RebuildFails, RebuildDone, FinishByRevision, FinishList, FinishInfo,
      MutationRefused, MutationApplied, MutationAcked
  <2> QED BY <2>1, <2>2, <2>3, <2>4
    DEF Next, vars, cacheVars, callVars, SignerChange, SignerPublish, SignerToggleLock
<1>3. Alone /\ FreshUnlessRaced => FreshReply
  BY DEF FreshUnlessRaced, FreshReply
<1>4. IInv => FreshUnlessRaced
  BY DEF IInv
<1> QED BY <1>1, <1>2, <1>3, <1>4, InitInv, NextInv, PTL DEF Spec

-----------------------------------------------------------------------------
(* Reading one's writes. *)

LEMMA StampNat ==
  TypeOK => /\ version \in Nat /\ acked \in Nat /\ cache.ver \in Nat
            /\ \A c \in Callers : resp[c] \in Nat /\ floor[c] \in Nat
BY VersionAssumption DEF TypeOK, Versions, Stamps, Caches

(* A call that begins notes the changes acknowledged so far and has no       *)
(* answer of the signer yet.                                                 *)
LEMMA BeginFloor ==
  ASSUME TypeOK, NEW c \in Callers, BeginCall(c)
  PROVE  /\ UNCHANGED <<sdk, signerVars, cacheVars, acked>>
         /\ floor' = [floor EXCEPT ![c] = acked]
         /\ ~Fetched(c)'
         /\ \A d \in Callers \ {c} : Apart(d) /\ torn'[d] = torn[d]
         /\ Answered(c)' => (Cached \/ cache.keys # {}) /\ out'[c].ver = cache.ver
<1>1. PICK o \in Ops, a \in Addr, l \in Landings,
           r \in Results :
              /\ Begin(c, o, a, l) /\ out' = [out EXCEPT ![c] = r]
              /\ o \notin ByRevision \/ r.kind = "none"
              /\ l = "copy" => ~AtOnce /\ cache.keys # {} /\ o \notin ByRevision
              /\ r.kind \in {"keys", "found", "missing"} =>
                   r.ver = cache.ver /\ (Cached \/ cache.keys # {})
  BY BeginApart
<1>2. /\ floor' = [floor EXCEPT ![c] = acked]
      /\ \A d \in Callers \ {c} : Apart(d) /\ torn'[d] = torn[d]
  BY <1>1 DEF Begin, TypeOK, Apart
<1>3. pc'[c] = l /\ out'[c] = r /\ l \notin {"install", "unlabel", "rebuild", "installed"}
  BY <1>1 DEF Begin, TypeOK, Landings
<1> QED BY <1>1, <1>2, <1>3, BeginApart DEF Fetched, Answered

(* A step of a call under way keeps its floor. *)
LEMMA StepFloor ==
  ASSUME TypeOK, NEW c \in Callers, Step(c)
  PROVE  /\ floor' = floor
         /\ sdk' = sdk /\ op' = op
         /\ \A d \in Callers \ {c} : Apart(d)
<1>1. floor' = floor
  BY DEF Step, AccountLookup, RequestFails, GetStatus, CheckRevision, CompareRevision, UseCache,
    FetchKeys, InstallGo, InstallTypeScript, InstallPython, DropLabel, RebuildKey, RebuildFails,
    RebuildDone, FinishByRevision, FinishList, FinishInfo, MutationRefused, MutationApplied,
    MutationAcked
<1> QED BY <1>1, StepApart

(* What has gone wrong with the cache is not forgotten while a call lasts. *)
LEMMA AccidentsStay ==
  ASSUME TypeOK, [Next]_vars
  PROVE  /\ raced => raced'
         /\ overtaken => overtaken'
         /\ \A c, d \in Callers : Step(c) /\ torn[d] => torn'[d]
<1> DEFINE Goal == /\ raced => raced'
                   /\ overtaken => overtaken'
<1>1. ASSUME UNCHANGED <<raced, overtaken>> PROVE Goal
  BY <1>1
<1>2. ASSUME NEW c \in Callers, NoteInstall(c) \/ NoteClear(c)
      PROVE  Goal
  <2>1. CASE NoteInstall(c)
    BY <2>1, Zenon DEF NoteInstall
  <2>2. CASE NoteClear(c)
    <3>1. raced => raced'
      BY <2>2, Zenon DEF NoteClear
    <3>2. overtaken' = overtaken
      BY <2>2 DEF NoteClear
    <3> QED BY <3>1, <3>2, Zenon
  <2> QED BY <1>2, <2>1, <2>2
<1>3. ASSUME NEW c \in Callers, BeginCall(c) PROVE UNCHANGED <<raced, overtaken>>
  BY <1>3, BeginFloor DEF cacheVars
<1>4. ASSUME NEW c \in Callers, Step(c)
      PROVE  UNCHANGED <<raced, overtaken, torn>> \/ NoteInstall(c) \/ NoteClear(c)
  BY <1>4 DEF Step, cacheVars, AccountLookup, RequestFails, GetStatus, CheckRevision,
      CompareRevision, UseCache, FetchKeys, InstallGo, InstallTypeScript, InstallPython, DropLabel,
      RebuildKey, RebuildFails, RebuildDone, FinishByRevision, FinishList, FinishInfo,
      MutationRefused, MutationApplied, MutationAcked
<1>5. Goal
  BY <1>1, <1>2, <1>3, <1>4
  DEF Next, vars, cacheVars, SignerChange, SignerPublish, SignerToggleLock
<1>6. ASSUME NEW c \in Callers, NEW d \in Callers, Step(c), torn[d] PROVE torn'[d]
  BY <1>4, <1>6 DEF NoteInstall, NoteClear, NoteTorn
<1> QED BY <1>5, <1>6

LEMMA AckStep ==
  ASSUME IInv, AckOrdered, FetchedAfterFloor, [Next]_vars
  PROVE  AckOrdered' /\ FetchedAfterFloor'
<1> USE DEF AckOrdered, FetchedAfterFloor
<1>1. TypeOK /\ TypeOK'
  BY NextTyping DEF IInv
<1>2. /\ version \in Nat /\ acked \in Nat /\ version' \in Nat
      /\ \A c \in Callers : resp[c] \in Nat /\ floor[c] \in Nat
  BY <1>1, StampNat, VersionAssumption DEF TypeOK, Versions
<1>3. CASE SignerChange \/ SignerPublish \/ SignerToggleLock \/ UNCHANGED vars
  <2>1. UNCHANGED <<callVars, acked>> /\ version' \in {version, version + 1}
    BY <1>3 DEF SignerChange, ChangeKeyset, SignerPublish, SignerToggleLock, vars, signerVars
  <2> QED BY <1>2, <2>1 DEF callVars, Fetched
<1>4. ASSUME NEW c \in Callers, BeginCall(c) PROVE AckOrdered' /\ FetchedAfterFloor'
  <2>1. \A d \in Callers : floor'[d] = IF d = c THEN acked ELSE floor[d]
    BY <1>1, <1>4, BeginFloor DEF TypeOK
  <2> QED BY <1>1, <1>2, <1>4, <2>1, BeginFloor DEF signerVars, Fetched, Apart
<1>5. ASSUME NEW c \in Callers, Step(c) PROVE AckOrdered' /\ FetchedAfterFloor'
  <2>1. AckOrdered'
    <3>1. CASE MutationAcked(c)
      <4>1. resp[c] <= version
        BY DEF IInv, Ordered
      <4>2. acked' \in {acked, resp[c]} /\ acked' >= acked /\ version' = version
        BY <1>2, <3>1 DEF MutationAcked, signerVars
      <4> QED BY <1>1, <1>2, <1>5, <4>1, <4>2, StepFloor
    <3>2. CASE acked' = acked
      <4>1. version' \in {version, version + 1}
        BY <1>5 DEF Step, AccountLookup, RequestFails, GetStatus, CheckRevision, CompareRevision,
          UseCache, FetchKeys, InstallGo, InstallTypeScript, InstallPython, DropLabel, RebuildKey,
          RebuildFails, RebuildDone, FinishByRevision, FinishList, FinishInfo, MutationRefused,
          MutationApplied, MutationAcked, ChangeKeyset, signerVars
      <4> QED BY <1>1, <1>2, <1>5, <3>2, <4>1, StepFloor
    <3> QED BY <1>5, <3>1, <3>2 DEF Step, AccountLookup, RequestFails, GetStatus, CheckRevision,
          CompareRevision, UseCache, FetchKeys, InstallGo, InstallTypeScript, InstallPython,
          DropLabel, RebuildKey, RebuildFails, RebuildDone, FinishByRevision, FinishList,
          FinishInfo, MutationRefused, MutationApplied
  <2>2. Fetched(c)' => floor'[c] <= resp'[c]
    <3> USE DEF Fetched
    <3>0. floor' = floor
      BY <1>1, <1>5, StepFloor
    <3>1. CASE \E r : Return(c, r)
      BY <1>1, <3>1 DEF Return, TypeOK
    <3>2. CASE FetchKeys(c)
      BY <1>1, <1>2, <3>0, <3>1, <3>2 DEF FetchKeys, TypeOK
    <3>3. CASE AccountLookup(c) \/ GetStatus(c) \/ CheckRevision(c) \/ CompareRevision(c)
               \/ MutationApplied(c) \/ MutationAcked(c)
      BY <1>1, <3>1, <3>3 DEF AccountLookup, GetStatus, CheckRevision, CompareRevision,
        MutationApplied, MutationAcked, Goto, TypeOK
    <3>4. CASE InstallGo(c) \/ InstallTypeScript(c) \/ InstallPython(c) \/ DropLabel(c)
      BY <1>1, <3>0, <3>1, <3>4
      DEF InstallGo, InstallTypeScript, InstallPython, DropLabel, Goto, TypeOK
    <3>5. CASE RebuildKey(c) \/ RebuildDone(c)
      BY <1>1, <3>0, <3>5 DEF RebuildKey, RebuildDone, TypeOK
    <3> QED BY <1>5, <3>1, <3>2, <3>3, <3>4, <3>5 DEF Step, UseCache, RequestFails, RebuildFails,
          FinishByRevision, FinishList, FinishInfo, MutationRefused
  <2>3. FetchedAfterFloor'
    BY <1>1, <1>5, <2>2, StepFloor DEF Fetched, Apart
  <2> QED BY <2>1, <2>3
<1> QED BY <1>3, <1>4, <1>5 DEF Next

(* The cache is emptied by an acknowledgment, and whatever goes into it      *)
(* afterwards was not overtaken by it.                                       *)
LEMMA CurrentStep ==
  ASSUME IInv, CacheAfterAck, [Next]_vars
  PROVE  CacheAfterAck'
<1> SUFFICES ASSUME ~raced', ~overtaken' PROVE (cache = EmptyCache \/ acked <= cache.ver)'
  BY DEF CacheAfterAck
<1>1. TypeOK /\ ~raced /\ ~overtaken
  BY AccidentsStay DEF IInv
<1>2. /\ cache = EmptyCache \/ acked <= cache.ver
      /\ acked \in Nat /\ \A c \in Callers : resp[c] \in Nat
  BY <1>1, StampNat DEF CacheAfterAck
<1>3. CASE UNCHANGED <<cache, acked>>
  BY <1>2, <1>3
<1>4. ASSUME NEW c \in Callers, InstallGo(c) \/ InstallTypeScript(c) \/ InstallPython(c)
      PROVE  (cache = EmptyCache \/ acked <= cache.ver)'
  <2>1. NoteInstall(c) /\ cache'.ver = resp[c] /\ acked' = acked
    BY <1>4 DEF InstallGo, InstallTypeScript, InstallPython
  <2>2. ~(resp[c] < acked)
    BY <2>1, Zenon DEF NoteInstall
  <2> QED BY <1>2, <2>1, <2>2
<1>5. ASSUME NEW c \in Callers, RebuildKey(c)
      PROVE  (cache = EmptyCache \/ acked <= cache.ver)'
  <2>1. Filling(c) /\ acked' = acked /\ cache'.ver = cache.ver
    BY <1>1, <1>5 DEF RebuildKey, Filling, TypeOK, Caches
  <2>2. cache.ver = resp[c] /\ resp[c] \in Versions
    BY <1>1, <2>1 DEF IInv, FillingExact, FetchedKnown, Fetched, Filling
  <2>3. cache # EmptyCache
    BY <2>2 DEF EmptyCache, Versions
  <2> QED BY <1>2, <2>1, <2>3
<1>6. ASSUME NEW c \in Callers, MutationAcked(c)
      PROVE  (cache = EmptyCache \/ acked <= cache.ver)'
  BY <1>6 DEF MutationAcked, InvalidateCache, EmptyCache
<1>7. ASSUME NEW c \in Callers, BeginCall(c) PROVE UNCHANGED <<cache, acked>>
  BY <1>1, <1>7, BeginFloor DEF cacheVars
<1>8. ASSUME NEW c \in Callers, Step(c)
      PROVE  (cache = EmptyCache \/ acked <= cache.ver)'
  BY <1>3, <1>4, <1>5, <1>6, <1>8 DEF Step, cacheVars, AccountLookup, RequestFails, GetStatus,
      CheckRevision, CompareRevision, UseCache, FetchKeys, DropLabel, RebuildFails, RebuildDone,
      FinishByRevision, FinishList, FinishInfo, MutationRefused, MutationApplied
<1> QED BY <1>3, <1>7, <1>8
  DEF Next, vars, cacheVars, SignerChange, SignerPublish, SignerToggleLock

(* A call answers from the cache or from its own /keys request, and neither  *)
(* is older than the changes acknowledged when it began.                     *)
LEMMA ReadStep ==
  ASSUME IInv, WriteInv, [Next]_vars
  PROVE  ReadYourWrites'
<1> DEFINE Excused(d) == Emptied(d) \/ (sdk = "python" /\ torn[d])
<1> SUFFICES ASSUME ~raced', ~overtaken', NEW d \in Callers, Answered(d)'
             PROVE  out'[d].ver >= floor'[d] \/ Excused(d)'
  BY DEF ReadYourWrites
<1>1. TypeOK /\ ~raced /\ ~overtaken
  BY AccidentsStay DEF IInv
<1>2. /\ acked \in Nat /\ cache.ver \in Nat /\ floor[d] \in Nat /\ resp[d] \in Nat
      /\ floor[d] <= acked
  BY <1>1, StampNat DEF WriteInv, AckOrdered
<1>3. cache = EmptyCache \/ acked <= cache.ver
  BY <1>1 DEF WriteInv, CacheAfterAck
<1>4. Cached \/ cache.keys # {} => acked <= cache.ver
  BY <1>3 DEF Cached, EmptyCache
<1>5. ASSUME Apart(d), floor'[d] = floor[d], sdk' = sdk, torn[d] => torn'[d]
      PROVE  out'[d].ver >= floor'[d] \/ Excused(d)'
  BY <1>1, <1>5 DEF WriteInv, ReadYourWrites, Answered, Emptied, Apart
<1>6. CASE SignerChange \/ SignerPublish \/ SignerToggleLock \/ UNCHANGED vars
  BY <1>5, <1>6 DEF SignerChange, SignerPublish, SignerToggleLock, vars, callVars, Apart
<1>7. ASSUME NEW c \in Callers, BeginCall(c)
      PROVE  out'[d].ver >= floor'[d] \/ Excused(d)'
  <2>1. CASE d = c
    <3>1. floor'[d] = acked
      BY <1>1, <1>7, <2>1, BeginFloor DEF TypeOK
    <3>2. out'[d].ver = cache.ver /\ acked <= cache.ver
      BY <1>1, <1>4, <1>7, <2>1, BeginFloor
    <3> QED BY <1>2, <3>1, <3>2
  <2>2. CASE d # c
    <3>1. floor'[d] = floor[d]
      BY <1>1, <1>7, <2>2, BeginFloor DEF TypeOK
    <3> QED BY <1>1, <1>5, <1>7, <2>2, <3>1, BeginFloor
  <2> QED BY <2>1, <2>2
<1>8. ASSUME NEW c \in Callers, Step(c)
      PROVE  out'[d].ver >= floor'[d] \/ Excused(d)'
  <2>1. CASE d # c
    <3>1. torn[d] => torn'[d]
      BY <1>1, <1>8, AccidentsStay
    <3> QED BY <1>1, <1>5, <1>8, <2>1, <3>1, StepFloor
  <2>2. CASE d = c
    <3>1. floor'[d] = floor[d] /\ op' = op /\ sdk' = sdk
      BY <1>1, <1>8, StepFloor
    <3>2. CASE CheckRevision(c)
      <4>1. CacheHit(srev[c]) /\ out'[d] = Answer(c, cache.ver, cache.keys)
        BY <1>1, <2>2, <3>2 DEF CheckRevision, Return, Goto, Answered, TypeOK
      <4>2. out'[d].ver = cache.ver /\ acked <= cache.ver
        BY <1>4, <4>1, AnswerVersion DEF CacheHit
      <4> QED BY <1>2, <3>1, <4>2
    <3>11. CASE UseCache(c)
      <4>1. Looking(d) /\ torn'[d] = torn[d]
        BY <2>2, <3>11 DEF UseCache, Looking
      <4>2. out'[d] = IF op[c] = "info" THEN Entry(arg[c]) ELSE Answer(c, cache.ver, cache.keys)
        BY <1>1, <2>2, <3>11 DEF UseCache, Return, TypeOK
      <4>3. out'[d].ver = cache.ver
        BY <4>2, AnswerVersion DEF Entry, Result
      <4>4. sdk = "python" /\ (torn[d] \/ Cached)
        BY <4>1 DEF IInv, LookedExact
      <4> QED BY <1>2, <1>4, <3>1, <4>1, <4>3, <4>4
    <3>3. CASE FinishByRevision(c) \/ FinishList(c)
      <4>1. out'[d].ver = resp[c]
        BY <1>1, <2>2, <3>3, AnswerVersion DEF FinishByRevision, FinishList, Return, Result, TypeOK
      <4>2. floor[c] <= resp[c]
        BY <3>3 DEF FinishByRevision, FinishList, WriteInv, FetchedAfterFloor, Fetched
      <4> QED BY <1>2, <2>2, <3>1, <4>1, <4>2
    <3>4. CASE FinishInfo(c)
      <4>1. op'[d] = "info" /\ out'[d] = Entry(arg[c])
        BY <1>1, <2>2, <3>4 DEF FinishInfo, Return, TypeOK
      <4>2. CASE acked <= cache.ver
        BY <1>2, <3>1, <4>1, <4>2 DEF Entry, Result
      <4>3. CASE cache = EmptyCache
        BY <4>1, <4>3 DEF Entry, Result, EmptyCache, Emptied
      <4> QED BY <1>3, <4>2, <4>3
    <3>5. CASE \E r : Return(c, r) /\ r.kind \in {"error", "ok"}
      BY <1>1, <2>2, <3>5 DEF Return, Answered, TypeOK
    <3>6. Failed.kind = "error" /\ Result("ok", resp[c], {}).kind = "ok"
      BY DEF Failed, Result
    <3>7. CASE pc'[c] # "idle"
      BY <2>2, <3>7 DEF Answered
    <3>8. CASE RequestFails(c) \/ RebuildFails(c) \/ MutationRefused(c)
      BY <3>5, <3>6, <3>8 DEF RequestFails, RebuildFails, MutationRefused
    <3>9. CASE AccountLookup(c) \/ GetStatus(c) \/ FetchKeys(c) \/ InstallTypeScript(c)
      <4>1. Return(c, Failed) \/ pc'[c] # "idle"
        BY <1>1, <3>9 DEF AccountLookup, GetStatus, FetchKeys, InstallTypeScript, TypeOK
      <4> QED BY <3>5, <3>6, <3>7, <4>1
    <3>12. CASE DropLabel(c) \/ MutationAcked(c) \/ CompareRevision(c)
      <4>1. Return(c, Result("ok", resp[c], {})) \/ pc'[c] # "idle"
        BY <1>1, <3>12 DEF DropLabel, MutationAcked, CompareRevision, Goto, TypeOK
      <4> QED BY <3>5, <3>6, <3>7, <4>1
    <3>10. CASE InstallGo(c) \/ InstallPython(c) \/ RebuildKey(c) \/ RebuildDone(c)
                \/ MutationApplied(c)
      BY <1>1, <3>7, <3>10
      DEF InstallGo, InstallPython, RebuildKey, RebuildDone, MutationApplied, TypeOK
    <3> QED BY <1>8, <3>2, <3>3, <3>4, <3>8, <3>9, <3>10, <3>11, <3>12 DEF Step
  <2> QED BY <2>1, <2>2
<1> QED BY <1>6, <1>7, <1>8 DEF Next

(* Once GenerateKey or DeleteKey has reported success, no call that begins   *)
(* later answers from an older inventory, whichever callers filled the cache *)
(* in the meantime, unless an answer overtaken by the change was installed   *)
(* or two installations crossed (the invalidation at the end of both calls), *)
(* or, in Python, another thread wrote between the call's look and its use.  *)
THEOREM WriteTheorem == Spec => []ReadYourWrites
<1>1. Init => WriteInv
  BY DEF Init, WriteInv, AckOrdered, FetchedAfterFloor, CacheAfterAck, ReadYourWrites, Answered,
         Fetched, Pending, Result
<1>2. IInv /\ WriteInv /\ [Next]_vars => WriteInv'
  <2> SUFFICES ASSUME IInv, WriteInv, [Next]_vars PROVE WriteInv'
    OBVIOUS
  <2>1. AckOrdered' /\ FetchedAfterFloor'
    BY AckStep DEF WriteInv
  <2>2. CacheAfterAck'
    BY CurrentStep DEF WriteInv
  <2>3. ReadYourWrites'
    BY ReadStep
  <2> QED BY <2>1, <2>2, <2>3 DEF WriteInv
<1>3. WriteInv => ReadYourWrites
  BY DEF WriteInv
<1> QED BY <1>1, <1>2, <1>3, InitInv, NextInv, PTL DEF Spec
=============================================================================
