------------------------------ MODULE KeyCache ------------------------------
(***************************************************************************)
(* The key inventory cache of a SignerClient, in the three SDKs.           *)
(*                                                                         *)
(* A client keeps the last /keys answer and, next to it, the               *)
(* keyset_revision it believes that answer belongs to.  Callers (goroutines*)
(* of a Go program, threads of a Python one, pending promises of a         *)
(* TypeScript one) share the cache; each request to the signer is a point  *)
(* where the others may run.                                               *)
(*                                                                         *)
(* The signer is not part of the repository.  It is modelled from what the *)
(* clients and the integration tests rely on: /keys answers the keyset of  *)
(* the moment, and /status reports a keyset_revision that grows some time  *)
(* after the keyset changed (the tests poll for it).                       *)
(***************************************************************************)
EXTENDS Naturals

CONSTANTS Sdks,        \* whose client: a subset of "go", "python", "typescript"
          Callers,     \* the concurrent callers of one client
          Addr,        \* key addresses
          Spendable,   \* the addresses whose is_spending_account is not false
          MaxVersion   \* bound: number of keysets the signer ever has

ASSUME SdkAssumption == Sdks \subseteq {"go", "python", "typescript"}
ASSUME SpendableAssumption == Spendable \subseteq Addr
ASSUME VersionAssumption == MaxVersion \in Nat \ {0}

VARIABLES
  sdk,        \* the SDK the client belongs to; never changes
  keysets,    \* keysets[v]: the v-th keyset the signer has had (history)
  version,    \* the signer's current keyset is keysets[version]
  revision,   \* the keyset_revision /status reports: a version, perhaps an old one
  locked,     \* the signer is locked
  cache,      \* the client's key cache: set, keys, and the version it came from (history)
  label,      \* keyCacheRevision; NoLabel when unknown
  acked,      \* newest version a generate or delete call reported as done (history)
  raced,      \* two callers' writes to the cache have crossed (history)
  overtaken,  \* an answer older than an acknowledged change went into the cache (history)
  pc,         \* where each caller is
  op,         \* the call each caller makes, or made last
  arg,        \* its address argument
  srev,       \* the keyset_revision its /status answer carried
  resp,       \* the version its /keys answer carried
  todo,       \* the keys of that answer not yet put in the cache
  floor,      \* acked when the call began (history)
  torn,       \* the cache changed between this call's look at it and its use (history)
  out         \* what the call returned

signerVars == <<keysets, version, revision, locked>>
cacheVars  == <<cache, label, raced, overtaken>>
callVars   == <<pc, op, arg, srev, resp, todo, floor, torn, out>>
vars == <<sdk, signerVars, cacheVars, acked, callVars>>

-----------------------------------------------------------------------------
Versions == 1..MaxVersion
Stamps   == 0..MaxVersion   \* a version, or 0 for none
NoLabel  == 0
Ops == {"none", "list", "info", "changed", "resolve", "generate", "delete"}
Mutations == {"generate", "delete"}
PCs == {"idle", "lookup", "status", "decide", "compare", "copy", "fetch", "install",
        "unlabel", "rebuild", "installed", "mutate", "ack", "forget"}

EmptyCache == [set |-> FALSE, keys |-> {}, ver |-> 0]
Result(k, v, K) == [kind |-> k, ver |-> v, keys |-> K]
Failed  == Result("error", 0, {})
Pending == Result("none", 0, {})

(* The calls that consult the revision before they trust the cache. *)
ByRevision == {"changed", "resolve"}

Caches  == [set : BOOLEAN, keys : SUBSET Addr, ver : Stamps]
Results == [kind : {"none", "error", "keys", "found", "missing", "ok"},
            ver : Stamps, keys : SUBSET Addr]

TypeOK ==
  /\ sdk \in Sdks
  /\ keysets \in [Versions -> SUBSET Addr]
  /\ version \in Versions
  /\ revision \in Versions
  /\ locked \in BOOLEAN
  /\ cache \in Caches
  /\ label \in Stamps
  /\ acked \in Stamps
  /\ raced \in BOOLEAN
  /\ overtaken \in BOOLEAN
  /\ pc \in [Callers -> PCs]
  /\ op \in [Callers -> Ops]
  /\ arg \in [Callers -> Addr]
  /\ srev \in [Callers -> Stamps]
  /\ resp \in [Callers -> Stamps]
  /\ todo \in [Callers -> SUBSET Addr]
  /\ floor \in [Callers -> Stamps]
  /\ torn \in [Callers -> BOOLEAN]
  /\ out \in [Callers -> Results]

Init ==
  /\ sdk \in Sdks
  /\ keysets \in {[v \in Versions |-> IF v = 1 THEN K ELSE {}] : K \in SUBSET Addr}
  /\ version = 1
  /\ revision = 1
  /\ locked = FALSE
  /\ cache = EmptyCache
  /\ label = NoLabel
  /\ acked = 0
  /\ raced = FALSE
  /\ overtaken = FALSE
  /\ pc = [c \in Callers |-> "idle"]
  /\ op = [c \in Callers |-> "none"]
  /\ arg \in {[c \in Callers |-> a] : a \in Addr}
  /\ srev = [c \in Callers |-> 0]
  /\ resp = [c \in Callers |-> 0]
  /\ todo = [c \in Callers |-> {}]
  /\ floor = [c \in Callers |-> 0]
  /\ torn = [c \in Callers |-> FALSE]
  /\ out = [c \in Callers |-> Pending]

-----------------------------------------------------------------------------
(* The signer: other administrators, its lock and its revision counter. *)

ChangeKeyset(K) ==
  /\ version < MaxVersion
  /\ version' = version + 1
  /\ keysets' = [keysets EXCEPT ![version + 1] = K]

SignerChange ==
  /\ \E a \in Addr : ChangeKeyset(IF a \in keysets[version]
                                  THEN keysets[version] \ {a}
                                  ELSE keysets[version] \union {a})
  /\ UNCHANGED <<sdk, revision, locked, cacheVars, acked, callVars>>

SignerPublish ==
  /\ revision < version
  /\ revision' = version
  /\ UNCHANGED <<sdk, keysets, version, locked, cacheVars, acked, callVars>>

SignerToggleLock ==
  /\ locked' = ~locked
  /\ UNCHANGED <<sdk, keysets, version, revision, cacheVars, acked, callVars>>

-----------------------------------------------------------------------------
(* Calls begin. *)

(* A new call of caller c: what the last one left behind is dropped. *)
Begin(c, o, a, l) ==
  /\ pc[c] = "idle"
  /\ op' = [op EXCEPT ![c] = o]
  /\ arg' = [arg EXCEPT ![c] = a]
  /\ floor' = [floor EXCEPT ![c] = acked]
  /\ torn' = [torn EXCEPT ![c] = FALSE]
  /\ srev' = [srev EXCEPT ![c] = 0]
  /\ resp' = [resp EXCEPT ![c] = 0]
  /\ todo' = [todo EXCEPT ![c] = {}]
  /\ pc' = [pc EXCEPT ![c] = l]

(* The call of caller c returns r; its locals are gone. *)
Return(c, r) ==
  /\ pc' = [pc EXCEPT ![c] = "idle"]
  /\ out' = [out EXCEPT ![c] = r]
  /\ resp' = [resp EXCEPT ![c] = 0]
  /\ todo' = [todo EXCEPT ![c] = {}]

(* cachedKeys: Go has a nil map for "nothing cached"; Python and TypeScript *)
(* take an empty cache for a missing one.                                   *)
Cached == IF sdk = "go" THEN cache.set ELSE cache.keys # {}

(* Go looks at the cache and copies it under keyMu, TypeScript without an     *)
(* await; in Python another thread may run between the two statements.        *)
AtOnce == sdk # "python"

(* A call begins and finds what it wants in the cache. *)
BeginFound(c, o, a, r) ==
  /\ Begin(c, o, a, IF AtOnce THEN "idle" ELSE "copy")
  /\ out' = [out EXCEPT ![c] = IF AtOnce THEN r ELSE Pending]

(* ListKeys(refresh = false) with something cached. *)
ListKeysCached(c) ==
  /\ Cached
  /\ BeginFound(c, "list", arg[c], Result("keys", cache.ver, cache.keys))
  /\ UNCHANGED <<sdk, signerVars, cacheVars, acked>>

(* ListKeys(refresh), and ListKeys without a cache. *)
ListKeysFetch(c) ==
  /\ \E refresh \in BOOLEAN : refresh \/ ~Cached
  /\ Begin(c, "list", arg[c], "fetch")
  /\ out' = [out EXCEPT ![c] = Pending]
  /\ UNCHANGED <<sdk, signerVars, cacheVars, acked>>

(* The entry of an address in the shared cache, or none. *)
Entry(a) ==
  IF a \in cache.keys THEN Result("found", cache.ver, {a}) ELSE Result("missing", cache.ver, {})

(* GetKeyInfo(address): the cached entry whatever its age, else a refresh. *)
GetKeyInfo(c, a) ==
  /\ \/ a \in cache.keys /\ BeginFound(c, "info", a, Entry(a))
     \/ a \notin cache.keys /\ Begin(c, "info", a, "fetch") /\ out' = [out EXCEPT ![c] = Pending]
  /\ UNCHANGED <<sdk, signerVars, cacheVars, acked>>

(* ListKeysIfKeysetChanged. *)
ListKeysIfKeysetChanged(c) ==
  /\ Begin(c, "changed", arg[c], "status")
  /\ out' = [out EXCEPT ![c] = Pending]
  /\ UNCHANGED <<sdk, signerVars, cacheVars, acked>>

(* ResolveAuthAddress, and the preparation helpers built on it: first the   *)
(* account lookup, which names the effective signer: the account itself, or *)
(* the address it is rekeyed to.                                            *)
ResolveAuthAddress(c) ==
  /\ Begin(c, "resolve", arg[c], "lookup")
  /\ out' = [out EXCEPT ![c] = Pending]
  /\ UNCHANGED <<sdk, signerVars, cacheVars, acked>>

AccountLookup(c) ==
  /\ pc[c] = "lookup"
  /\ \/ /\ \E a \in Addr : arg' = [arg EXCEPT ![c] = a]
        /\ pc' = [pc EXCEPT ![c] = "status"]
        /\ UNCHANGED <<resp, todo, out>>
     \/ /\ Return(c, Failed)
        /\ UNCHANGED arg
  /\ UNCHANGED <<sdk, signerVars, cacheVars, acked, op, srev, floor, torn>>

(* GenerateKey and DeleteKey. *)
MutateKeys(c, o, a) ==
  /\ Begin(c, o, a, "mutate")
  /\ out' = [out EXCEPT ![c] = Pending]
  /\ UNCHANGED <<sdk, signerVars, cacheVars, acked>>

-----------------------------------------------------------------------------
(* Requests fail: refused, timed out or disconnected.  What the signer did  *)
(* is not undone, and the cache is left as it is.                           *)

RequestFails(c) ==
  /\ pc[c] \in {"status", "fetch", "mutate", "ack"}
  /\ Return(c, Failed)
  /\ UNCHANGED <<sdk, signerVars, cacheVars, acked, op, arg, srev, floor, torn>>

(* GetStatus, then the locked check of ListKeysIfKeysetChanged. *)
GetStatus(c) ==
  /\ pc[c] = "status"
  /\ IF locked
     THEN Return(c, Failed) /\ UNCHANGED srev
     ELSE /\ srev' = [srev EXCEPT ![c] = revision]
          /\ pc' = [pc EXCEPT ![c] = "decide"]
          /\ UNCHANGED <<resp, todo, out>>
  /\ UNCHANGED <<sdk, signerVars, cacheVars, acked, op, arg, floor, torn>>

(* What ListKeysIfKeysetChanged or ResolveAuthAddress makes of an inventory. *)
Answer(c, v, K) ==
  IF op[c] # "resolve" THEN Result("keys", v, K)
  ELSE IF arg[c] \in K \intersect Spendable THEN Result("found", v, {arg[c]})
  ELSE Result("missing", v, {})

(* cachedKeysForRevision: is the cache, if there is one, what the signer reports? *)
LabelIs(r) == label # NoLabel /\ label = r
CacheHit(r) == Cached /\ LabelIs(r)

Goto(c, l) == pc' = [pc EXCEPT ![c] = l] /\ UNCHANGED <<resp, todo, out>>

CheckRevision(c) ==
  /\ pc[c] = "decide"
  /\ \/ AtOnce /\ CacheHit(srev[c]) /\ Return(c, Answer(c, cache.ver, cache.keys))
     \/ AtOnce /\ ~CacheHit(srev[c]) /\ Goto(c, "fetch")
     \/ ~AtOnce /\ Goto(c, IF Cached THEN "compare" ELSE "fetch")
  /\ UNCHANGED <<sdk, signerVars, cacheVars, acked, op, arg, srev, floor, torn>>

(* Python reads the label after it has seen that something is cached, *)
CompareRevision(c) ==
  /\ pc[c] = "compare"
  /\ Goto(c, IF LabelIs(srev[c]) THEN "copy" ELSE "fetch")
  /\ UNCHANGED <<sdk, signerVars, cacheVars, acked, op, arg, srev, floor, torn>>

(* and answers from whatever the cache holds by then. *)
UseCache(c) ==
  /\ pc[c] = "copy"
  /\ Return(c, IF op[c] = "info" THEN Entry(arg[c]) ELSE Answer(c, cache.ver, cache.keys))
  /\ UNCHANGED <<sdk, signerVars, cacheVars, acked, op, arg, srev, floor, torn>>

(* The signer answers /keys: refused while locked, else the current keyset. *)
FetchKeys(c) ==
  /\ pc[c] = "fetch"
  /\ IF locked
     THEN Return(c, Failed)
     ELSE /\ resp' = [resp EXCEPT ![c] = version]
          /\ pc' = [pc EXCEPT ![c] = "install"]
          /\ UNCHANGED <<todo, out>>
  /\ UNCHANGED <<sdk, signerVars, cacheVars, acked, op, arg, srev, floor, torn>>

-----------------------------------------------------------------------------
(* A /keys answer goes into the cache, and the label is dropped. *)

(* A caller fills the cache, or has filled it and will label it, *)
Filling(c)    == pc[c] \in {"unlabel", "rebuild"}
Unlabelled(c) == pc[c] = "installed" /\ op[c] \in ByRevision

(* or has looked at it and will answer from it. *)
Looking(c) == pc[c] \in {"compare", "copy"}

(* The histories of a write to the cache by caller c. *)
NoteTorn(c) == torn' = [d \in Callers |-> torn[d] \/ (d # c /\ Looking(d))]
NoteInstall(c) ==
  /\ raced' = (raced \/ \E d \in Callers \ {c} : Filling(d) \/ Unlabelled(d))
  /\ overtaken' = (overtaken \/ resp[c] < acked)
  /\ NoteTorn(c)
NoteClear(c) ==
  /\ raced' = (raced \/ \E d \in Callers \ {c} : Filling(d))
  /\ UNCHANGED overtaken
  /\ NoteTorn(c)

(* Go: decode everything, then swap the map and drop the label under keyMu. *)
InstallGo(c) ==
  /\ sdk = "go"
  /\ pc[c] = "install"
  /\ NoteInstall(c)
  /\ cache' = [set |-> TRUE, keys |-> keysets[resp[c]], ver |-> resp[c]]
  /\ label' = NoLabel
  /\ pc' = [pc EXCEPT ![c] = "installed"]
  /\ UNCHANGED <<sdk, signerVars, acked, op, arg, srev, resp, todo, floor, out>>

(* TypeScript: clear and refill without an await in between, entry by entry; *)
(* an entry that cannot be mapped throws and leaves the ones before it.      *)
InstallTypeScript(c) ==
  /\ sdk = "typescript"
  /\ pc[c] = "install"
  /\ NoteInstall(c)
  /\ label' = NoLabel
  /\ \/ /\ cache' = [set |-> TRUE, keys |-> keysets[resp[c]], ver |-> resp[c]]
        /\ pc' = [pc EXCEPT ![c] = "installed"]
        /\ UNCHANGED <<resp, todo, out>>
     \/ /\ \E bad \in keysets[resp[c]] : \E K \in SUBSET (keysets[resp[c]] \ {bad}) :
             cache' = [set |-> TRUE, keys |-> K, ver |-> resp[c]]
        /\ Return(c, Failed)
  /\ UNCHANGED <<sdk, signerVars, acked, op, arg, srev, floor>>

(* Python: clear the cache, drop the label, then one entry at a time; another *)
(* thread may run between any two of them.                                    *)
InstallPython(c) ==
  /\ sdk = "python"
  /\ pc[c] = "install"
  /\ NoteInstall(c)
  /\ cache' = [set |-> TRUE, keys |-> {}, ver |-> resp[c]]
  /\ todo' = [todo EXCEPT ![c] = keysets[resp[c]]]
  /\ pc' = [pc EXCEPT ![c] = "unlabel"]
  /\ UNCHANGED <<sdk, signerVars, label, acked, op, arg, srev, resp, floor, out>>

(* ... which is also how GenerateKey and DeleteKey end. *)
DropLabel(c) ==
  /\ label' = NoLabel
  /\ \/ pc[c] = "unlabel" /\ Goto(c, "rebuild")
     \/ pc[c] = "forget" /\ Return(c, Result("ok", resp[c], {}))
  /\ UNCHANGED <<sdk, signerVars, cache, raced, overtaken, acked, op, arg, srev, floor, torn>>

RebuildKey(c) ==
  /\ pc[c] = "rebuild"
  /\ \E a \in todo[c] : /\ todo' = [todo EXCEPT ![c] = @ \ {a}]
                        /\ cache' = [cache EXCEPT !.keys = @ \union {a}]
  /\ UNCHANGED <<sdk, signerVars, label, raced, overtaken, acked, pc, op, arg, srev, resp, floor, torn, out>>

(* An entry that cannot be parsed: list_keys raises, the cache stays partial. *)
RebuildFails(c) ==
  /\ pc[c] = "rebuild"
  /\ todo[c] # {}
  /\ Return(c, Failed)
  /\ UNCHANGED <<sdk, signerVars, cacheVars, acked, op, arg, srev, floor, torn>>

RebuildDone(c) ==
  /\ pc[c] = "rebuild"
  /\ todo[c] = {}
  /\ pc' = [pc EXCEPT ![c] = "installed"]
  /\ UNCHANGED <<sdk, signerVars, cacheVars, acked, op, arg, srev, resp, todo, floor, torn, out>>

(* Bug: label the cache with the revision of the moment. *)
LabelLatest(c) == label' = revision

(* Bug: one past the revision that was read. *)
LabelNext(c) == label' = srev[c] + 1

(* cacheKeysRevision: label the cache with the revision read BEFORE /keys. *)
Label(c) == label' = srev[c]

FinishByRevision(c) ==
  /\ pc[c] = "installed"
  /\ op[c] \in ByRevision
  /\ Label(c)
  /\ Return(c, Answer(c, resp[c], keysets[resp[c]]))
  /\ UNCHANGED <<sdk, signerVars, cache, raced, overtaken, acked, op, arg, srev, floor, torn>>

FinishList(c) ==
  /\ pc[c] = "installed"
  /\ op[c] = "list"
  /\ Return(c, Result("keys", resp[c], keysets[resp[c]]))
  /\ UNCHANGED <<sdk, signerVars, cacheVars, acked, op, arg, srev, floor, torn>>

(* GetKeyInfo looks the address up again in the shared cache. *)
FinishInfo(c) ==
  /\ pc[c] = "installed"
  /\ op[c] = "info"
  /\ Return(c, Entry(arg[c]))
  /\ UNCHANGED <<sdk, signerVars, cacheVars, acked, op, arg, srev, floor, torn>>

-----------------------------------------------------------------------------
(* GenerateKey and DeleteKey reach the signer ... *)

(* ... which refuses while locked, and answers 404 to an unknown address. *)
MutationRefused(c) ==
  /\ pc[c] = "mutate"
  /\ locked \/ (op[c] = "delete" /\ arg[c] \notin keysets[version])
  /\ Return(c, Failed)
  /\ UNCHANGED <<sdk, signerVars, cacheVars, acked, op, arg, srev, floor, torn>>

MutationApplied(c) ==
  /\ pc[c] = "mutate"
  /\ ~locked
  /\ \/ op[c] = "delete" /\ arg[c] \in keysets[version]
                         /\ ChangeKeyset(keysets[version] \ {arg[c]})
     \/ op[c] = "generate" /\ arg[c] \notin keysets[version]
                           /\ ChangeKeyset(keysets[version] \union {arg[c]})
  /\ resp' = [resp EXCEPT ![c] = version + 1]
  /\ pc' = [pc EXCEPT ![c] = "ack"]
  /\ UNCHANGED <<sdk, revision, locked, cacheVars, acked, op, arg, srev, todo, floor, torn, out>>

(* Bug: only the label is dropped. *)
InvalidateLabelOnly == cache' = cache /\ label' = NoLabel

(* ... and the answer invalidates the cache: Python clears it first and drops *)
(* the label in a statement of its own.                                       *)
InvalidateCache == cache' = EmptyCache /\ label' = IF AtOnce THEN NoLabel ELSE label

MutationAcked(c) ==
  /\ pc[c] = "ack"
  /\ InvalidateCache
  /\ NoteClear(c)
  /\ acked' = IF resp[c] > acked THEN resp[c] ELSE acked
  /\ \/ AtOnce /\ Return(c, Result("ok", resp[c], {}))
     \/ ~AtOnce /\ Goto(c, "forget")
  /\ UNCHANGED <<sdk, signerVars, op, arg, srev, floor>>

-----------------------------------------------------------------------------
BeginCall(c) ==
  \/ ListKeysCached(c)
  \/ ListKeysFetch(c)
  \/ ListKeysIfKeysetChanged(c)
  \/ ResolveAuthAddress(c)
  \/ \E a \in Addr : GetKeyInfo(c, a)
  \/ \E a \in Addr, o \in Mutations : MutateKeys(c, o, a)

Step(c) ==
  \/ AccountLookup(c)
  \/ RequestFails(c)
  \/ GetStatus(c)
  \/ CheckRevision(c)
  \/ CompareRevision(c)
  \/ UseCache(c)
  \/ FetchKeys(c)
  \/ InstallGo(c)
  \/ InstallTypeScript(c)
  \/ InstallPython(c)
  \/ DropLabel(c)
  \/ RebuildKey(c)
  \/ RebuildFails(c)
  \/ RebuildDone(c)
  \/ FinishByRevision(c)
  \/ FinishList(c)
  \/ FinishInfo(c)
  \/ MutationRefused(c)
  \/ MutationApplied(c)
  \/ MutationAcked(c)

Next ==
  \/ SignerChange
  \/ SignerPublish
  \/ SignerToggleLock
  \/ \E c \in Callers : BeginCall(c) \/ Step(c)

Spec == Init /\ [][Next]_vars

-----------------------------------------------------------------------------
Answered(c) == pc[c] = "idle" /\ out[c].kind \in {"keys", "found", "missing"}

(* The answer of caller c is at least as new as the keyset_revision its own   *)
(* /status request read, whether it came from the cache or from /keys.        *)
Fresh(c) == Answered(c) /\ op[c] \in ByRevision => out[c].ver >= srev[c]

(* ListKeysIfKeysetChanged and ResolveAuthAddress decide from no older an     *)
(* inventory than the revision they went by.                                  *)
FreshReply == \A c \in Callers : Fresh(c)

(* A labelled cache is a whole keyset, no older than the label says: the     *)
(* fact cachedKeysForRevision relies on when it answers from the cache.      *)
LabelSound ==
  Cached /\ label # NoLabel => /\ label <= cache.ver
                               /\ cache.keys = keysets[cache.ver]

(* With any number of callers, an answer older than the revision its caller  *)
(* read takes one of two accidents.  Another caller's /keys answer went into  *)
(* the cache between an installation and the cacheKeysRevision that belongs   *)
(* to it (or, in Python, while another thread was still filling the cache):   *)
(* then the label may be wrong for good.  Or, in Python only, the cache was   *)
(* cleared between this very call's look at it and its use.                   *)
FreshUnlessRaced ==
  ~raced => LabelSound /\ \A c \in Callers : Fresh(c) \/ (sdk = "python" /\ torn[c])

(* Every call that answers does so from exactly one keyset the signer had:   *)
(* ListKeys returns no mixture and no fragment of keysets, and the address   *)
(* GetKeyInfo or ResolveAuthAddress finds or misses was in it or not.        *)
WholeInventory ==
  \A c \in Callers : Answered(c) =>
    \/ out[c].kind = "keys"  /\ out[c].ver > 0 /\ out[c].keys = keysets[out[c].ver]
    \/ out[c].kind = "found" /\ out[c].ver > 0 /\ arg[c] \in keysets[out[c].ver]
    \/ out[c].kind = "missing" /\ out[c].ver > 0 /\ arg[c] \notin keysets[out[c].ver]
    \/ out[c].kind = "missing" /\ op[c] = "resolve" /\ arg[c] \notin Spendable
    \/ out[c].kind = "missing" /\ op[c] = "info" /\ out[c].ver = 0

(* GetKeyInfo found the cache invalidated after its own refresh. *)
Emptied(c) == op[c] = "info" /\ out[c].kind = "missing" /\ out[c].ver = 0

(* Once the answer to a GenerateKey or DeleteKey has invalidated the cache, no *)
(* call that begins later answers from an inventory older than that change,    *)
(* the change of another thread included.  It takes an install that was        *)
(* overtaken by the change to break it, or, in Python and for one call only,   *)
(* a write of another thread between its look at the cache and its use.        *)
ReadYourWrites ==
  ~raced /\ ~overtaken =>
    \A c \in Callers : Answered(c) =>
      out[c].ver >= floor[c] \/ Emptied(c) \/ (sdk = "python" /\ torn[c])

-----------------------------------------------------------------------------
(* The inductive invariant behind FreshUnlessRaced. *)

(* A caller on its way to install a /keys answer, or done with it, has one, *)
Fetched(c) == pc[c] \in {"install", "unlabel", "rebuild", "installed"}
FetchedKnown == \A c \in Callers : Fetched(c) => resp[c] \in Versions

(* no stamp runs ahead of the signer, *)
Ordered ==
  /\ revision <= version
  /\ cache.ver <= version
  /\ \A c \in Callers : srev[c] <= revision /\ resp[c] <= version

(* /keys was asked after /status, *)
AnswerNotOlder == \A c \in Callers : Fetched(c) => srev[c] <= resp[c]

(* a cache being filled belongs to the one caller that fills it, *)
FillingExact ==
  ~raced => \A c \in Callers : Filling(c) =>
    /\ IF pc[c] = "unlabel" THEN cache.keys = {} ELSE label = NoLabel
    /\ cache.ver = resp[c]
    /\ cache.keys \union todo[c] = keysets[resp[c]]
    /\ \A d \in Callers \ {c} : ~Filling(d) /\ ~Unlabelled(d)

(* a caller about to label the cache finds its own answer there, or none,      *)
InstalledExact ==
  ~raced => \A c \in Callers : Unlabelled(c) /\ Cached =>
    cache.ver = resp[c] /\ cache.keys = keysets[resp[c]]

(* and a Python thread that has looked at the cache finds it as it saw it,     *)
(* unless torn: something cached, and no older than the label it read.         *)
LookedExact ==
  \A c \in Callers : Looking(c) =>
    /\ sdk = "python"
    /\ ~torn[c] => /\ Cached
                   /\ ~raced /\ op[c] \in ByRevision /\ pc[c] = "copy" => srev[c] <= cache.ver

IInv ==
  /\ TypeOK /\ FetchedKnown /\ Ordered /\ AnswerNotOlder
  /\ FillingExact /\ InstalledExact /\ LookedExact /\ FreshUnlessRaced

(* What ReadYourWrites needs on top of it: no acknowledged change runs ahead *)
(* of the signer, and no call began after a change yet to be acknowledged,   *)
AckOrdered ==
  /\ acked <= version
  /\ \A c \in Callers : floor[c] <= acked

(* a /keys answer is no older than the changes acknowledged when its call    *)
(* began,                                                                    *)
FetchedAfterFloor == \A c \in Callers : Fetched(c) => floor[c] <= resp[c]

(* and what the cache holds is no older than any of them.                    *)
CacheAfterAck ==
  ~raced /\ ~overtaken => cache = EmptyCache \/ acked <= cache.ver

WriteInv == AckOrdered /\ FetchedAfterFloor /\ CacheAfterAck /\ ReadYourWrites
=============================================================================
