# TLA+ models of the aplane SDKs

The repository holds three client libraries (Go, Python, TypeScript) for
`apsigner`, a remote signer for Algorand transactions that may ask an operator
before it signs. This directory models the parts of the clients that keep state
or run concurrently, checks them with TLC on small instances, and proves the
central properties with TLAPS for every value of the constants.

The signer, the network, AlgoKit and the operator are not in the repository.
They are modelled from how the clients use them, as permissive as that allows.

## The system

| Component | State it keeps | Operations | What is hard about it |
|---|---|---|---|
| Key inventory cache | the last `/keys` answer, the `keyset_revision` it is labelled with | ListKeys, GetKeyInfo, ListKeysIfKeysetChanged, ResolveAuthAddress, GenerateKey, DeleteKey | callers share it across requests; the label is written after the install; the refill may fail half way |
| Signing request | request context or timer, watcher goroutine and `sync.Once` (Go), the approval at the signer | SignGroup, SignRequests, RequestComponents, CancelSignRequest | deadline racing the answer; lost, late and overtaking messages; one cancel from two goroutines |
| Approval wait | cached `approval_wait_seconds`, time of the fetch | GetStatus, discovery, sizing of deadlines | checked and used at two moments; three unlocked writes in Python; broken `/status` answers |
| AlgoKit adapter | `_current_request_id` under a lock (Python) | signer callback, `cancel()` | overlapping calls; cancel after the lock is released; re-grouped answers |
| Guarded and bounded cosigner signing | local to a call: components collected so far | user components, cosigner components, passthrough signing, assembly | order of disclosure; answers that do not match what was signed; one of several requests failing |
| Request, plan and answer validation | none | pure checks | limits, indices, duplicated targets |
| SSH tunnel | SSH connection, setup timer, listener, accept loop and forwarding threads | start, forward, stop | the timer's thread racing completion and the prompt; stop from another thread; leaks on failed setup |
| known_hosts | a file shared by processes | verify, save on first use | read-modify-write without a lock; a save empties the file first |
| Enrollment | one SSH session | request, prompt, wait, parse the decision | a deadline that stops at the prompt; cleanup |
| Endpoint registry, configuration | files read at start | load, resolve | a cosigner must not become the default |
| Preparation and simulation | the slots prepared so far | the `prepare_` functions, group checks, merging, simulating, submitting | balances, holdings, authority and keys are read early and used late; sums over a group |
| Encoding, errors, wire types | none | conversions, classification of errors | nothing stateful |

A `SignerClient` owns one key cache and one approval wait, which all its calls
share; every signing call goes through the approval wait to get its deadline and
then lives on its own. The AlgoKit adapter, the guarded flow and the bounded flow
are built from those calls. Calls are concurrent: goroutines, Python threads, or
pending promises. Every request to the signer is a point where others run; in
Python every statement is.

For each component the properties that make it correct:

- key cache: an answer is one whole keyset, not older than the revision its call
  saw and not older than the caller's own acknowledged changes;
- signing request: at most one automatic cancel, only when the wait was cut
  short; no approval left behind without an excuse; every call returns;
- approval wait: a used value is recent; the operator gets the full wait; a failed
  discovery does not fail the request (finding 3);
- AlgoKit adapter: one call at a time, never stuck, cancel hits the right call,
  signatures are over the group AlgoKit submits;
- guarded flow: the cosigner is asked only with the user's component in hand, and
  the group released has every signature; the planner changes only what it may; no
  request the flow builds is one its own validators refuse;
- SSH, known_hosts, enrollment: a setup ends in time, and its timer never ends a
  session; what stays open is known; no pin is lost and no host trusted under two keys
  while the processes keep out of each other's way;
- preparation: what passed the preflight checks is not refused by the ledger for a
  reason they look at, unless the world moved; nothing incomplete is submitted.

## Modules

| Module | Models |
|---|---|
| `KeyCache` | the key cache of one client, its `Callers`, and the signer's keysets |
| `KeyCacheProofs` | theorems about it |
| `SignCall` | abstract: what one approval-bearing call promises |
| `SignRequest` | one signing request in each SDK; implements `SignCall` |
| `SignRequestProofs` | theorems about it, the refinement among them |
| `ApprovalWait` | discovery, caching and use of the approval wait |
| `ApprovalWaitProofs` | theorems about it |
| `AlgoKitAccount` | the AlgoKit account shared by threads |
| `AlgoKitAccountProofs` | theorems about it |
| `PlanValidation` | the checks on a `/plan` answer, as operators, and what they are measured by |
| `GuardedSign` | one call of the guarded or bounded cosigner flow, from dispatch to the released group |
| `GuardedSignProofs` | theorems about both |
| `Endpoints` | which `endpoints.yaml` loads and where a call is routed, as operators |
| `SshSession` | tunnels and enrollments of several Python processes over one known_hosts |
| `SshSessionProofs` | theorems about both |
| `Ledger` | external: accounts, and what executing a group does to them |
| `LedgerProofs` | lemmas about it: sums over a group, and what holds along its execution |
| `SignEntries` | the checks on a `/sign` request and its answer, and the merge of answers, as operators |
| `Preparation` | one group from intent to ledger (Python), composing the two |
| `PreparationProofs` | theorems about it |
| `MC_*` | the instances TLC checks |

In `KeyCache`, `SignRequest`, `ApprovalWait` and `GuardedSign` the initial state chooses the SDK
(`sdk`, from the constant `Sdks`), so one run covers the three; where they differ an
action is guarded by `sdk`. `AlgoKitAccount` takes it as a constant. `SshSession` and
`Preparation` model the Python SDK.

Operators whose comment begins with "Bug:" are deliberately wrong variants of
the definition that follows them; the specifications do not use them. Each
property of a passing run is violated when one of them takes the place of the
definition (`mutants` in `PROJECT.json`).

### KeyCache

`cache` is the map and `label` the revision beside it (`keyCache`,
`keyCacheRevision`). `cache.ver` is history: the version of the keyset the map
came from. A call goes through `/status` (`GetStatus`), the comparison
(`CheckRevision`), `/keys` (`FetchKeys`), the install, and the labelling
(`FinishByRevision`). Looking at the cache and answering from it is one step in Go, which
holds the mutex, and in TypeScript, which does not await; in Python it is two or three
statements (`ListKeysCached` or `CheckRevision`, `CompareRevision`, `UseCache`), and other
threads run in between. The installs differ as the code does: Go decodes first and
swaps under a mutex; TypeScript clears and refills without an await, and may throw
half way; Python clears, drops the label (`DropLabel`) and then adds one entry at a time. An empty cache counts
as a cache in Go only. `raced` is history: another caller's install fell between an
install and its labelling, or into a refill. `overtaken` is history too: a `/keys`
answer older than an acknowledged change went into the cache. `torn` is the history of a
single Python call: another thread wrote to the cache between that call's look at it and
its use. `raced` and `overtaken` excuse every later answer, because the cache itself is
wrong from then on; `torn` excuses that one call.

The signer's `keyset_revision` is modelled as the version of a keyset, published
some time after the change, as the integration tests expect.

### SignRequest

`pc` is the calling thread, `watch` Go's watcher goroutine, `once` the `sync.Once`
(in the other SDKs the single best-effort cancel), `ctx` the request context or
timer. `wire`, `answer` and `cancelMsgs` are messages, which may be lost or overtake
each other; `sig` is the request at the signer. Three kinds of request are covered:
`/sign`, component requests with approval, and cosigner component requests, which
have neither watcher nor cancel. Requests of one client share nothing but the
approval wait, so one request is modelled. A request whose context has ended is not
sent: Go's transport and `fetch` check first; a context that ends after that check
is covered, because the message is under way from then on.

### ApprovalWait

Time is a counter, durations are constants. `log` records which waits the signer
had at which time. `secs`, `fetched` and `known` are the three fields of the client,
written together in Go and TypeScript and one by one in Python. An answered status
request is processed within `StatusTimeout`. For Go and TypeScript their deadline
guarantees that; Python's `requests` applies its timeout to each read, so for Python it is
an assumption that `/status` does not trickle in.

### AlgoKitAccount

`current` is `_current_request_id`. `CheckedFields` are the names of the mutation
fields the adapter tests; `Mutations` are the names the wire has.

### PlanValidation

A transaction is its body, its fee and its group ID. The group ID is the hash of the
group without IDs; it is modelled as that sequence itself, that is, as a hash without
collisions. A body stands for all other fields; of a budget dummy it holds the fields
`validateGuardedDummies` looks at, so nothing is said of a dummy's validity window or
lease. Fees are natural numbers: Go adds the fee increases in a `uint64`, and the wrap
of sums beyond it is outside the model.

`PlanAcceptable` is `validateBoundedComponentPlan`, which both flows use, and
`DecodesCanonically` is `decodeCanonicalGroup`. They look at a mutation report the
signer wrote. `Permitted` and `Honest` say what a plan may do and what a truthful
planner answers, in terms of the two groups alone; soundness and completeness of the
checks relate the two.

### GuardedSign

| Action | Code |
|---|---|
| `Dispatch` | choice of the flow from the keys' signing flows; Go keeps the keys it found, the others look them up again |
| `Build`, `InputRefused` | classification into targets and ordinary positions |
| `Plan`, `PlanFails` | `/plan` and its checks; from here on the group is frozen |
| `RequestUserComponents`, `UserRefuses` | `/sign/component` at the user's signer: one request per account in the guarded flow, one for all in the bounded flow |
| `SignPrimary` | `/sign` for the ordinary positions, targets and dummies sent along |
| `ResolveCosigners`, `RequestCosignerComponents` | who cosigns, settled for all targets first; then a request to each, in a map's order in Go |
| `Assemble`, `AssembleFails` | `/sign/assemble` and the comparison of what it returns |

`Init` is the dispatching entry point or the bounded one. `kinds` is what the last
lookup said; a position that carries its key (`held`) keeps it, any other may change
between two lookups. The signers are external: they refuse, fail, or answer any set
of components, signatures over other transactions, or another group. Targets and
ordinary positions are the two lists the classification loop fills, dummies the range
`contiguousIndices` returns; `ComponentRequest` and `ForIndices` build the wire's request from
them, and `ComponentRequestValid` is the validator with all its conditions on positions,
kinds, addresses, keys and forbidden fields. What it asks of request IDs, LogicSig
resources and hexadecimal strings is left out. `shown`,
`refused`, `misjudged` and `strange` are history. `result = "invalid"` is the SDK's own
validator refusing a request the flow has built. Deadlines, cancels and lost messages
of the single requests are the subject of `SignRequest`; here a request fails.

Two checks differ between the SDKs, and the properties say so: Go compares the
assembled group with the frozen one in both flows, Python and TypeScript in the
bounded flow only (`Verifies`); TypeScript's guarded flow does not compare the
ordinary signatures with the frozen transactions (`ComparesSigned`).

### SshSession

A process makes one call, `SignerClient.from_env` (a tunnel) or
`request_enrollment_from_env`, and ends it in `done`; `pc` is its calling thread.

| Action | Code |
|---|---|
| `Begin`, `BeginRefused` | routing (`Endpoints`), checks before any connection; enrollment loads known_hosts here |
| `Dial`, `ArmTimer`, `Attach`, `TooLate` | the socket, the timer, the transport that takes the socket over, and the time running out in between |
| `KeyExchange`, `Authenticate`, `NetworkFails`, `AuthenticationRefused` | `_SSHTunnel.start`, `client.connect` |
| `VerifyKnown` ... `VerifyUnknownUnsaved`, `Prompt` | `_verify_host_key`, AutoAddPolicy, the prompting policy |
| `PromptYes`, `PromptNo`, `Reload` | the operator's decision, with the deadline stopped and resumed |
| `SaveTruncate`, `SaveFlush`, `SaveFails` | `HostKeys.save`, in the two halves another process can see |
| `Lapse`, `TimerFires`, `ExpireSetup` | time, the timer's thread, `expire_setup` under the lock |
| `CommitSetup`, `DetachTimer` | completion under the lock; cancelling the timer after it |
| `Listen`, `ListenFails`, `Health`, `Close`, `StopListener`, `StopTransport` | the tunnel's life |
| `Accept`, `OpenChannel`, `ForwardChannel`, `ForwardLocal`, `AcceptLoopEnds` | the tunnel's threads: two for a connection, one reading the SSH channel and one the local client |
| `LocalConnect`, `LocalCloses` | the local client, whose pool may keep its end open |
| `Enroll` | the command and its reply |
| `Killed` | the process dies at any step |

`lapsed` is the deadline's clock and `timer` the thread that acts on it: a timer that
has woken up (`firing`) cannot be cancelled. `link` tells a bare socket, which only the
function that dialled knows, from one a transport owns: `start` closes either, enrollment's
handlers only the `SSHClient`, which has no transport yet. `conn` is a local connection with
the forwarding threads that are left of its two, and `held` whether the local client keeps
its end open. A thread's `close()` of both sockets ends a peer that reads the SSH channel, and
does not end one blocked in `recv()` on the local socket. A known_hosts file holds at most one key
for a host, because paramiko replaces an entry of the same host and key type; servers
offer keys of one type. `trusted` and `disturbed` are history: the pins sessions have
relied on, and whether accesses to the file crossed, a save failed or was cut short,
or a key was accepted with no file to save it to. What paramiko does is modelled
from how the code uses it: without a file at first, enrollment's `load_host_keys` keeps no
name and AutoAddPolicy saves nothing.

### Preparation

`req` is a group some caller asks for: one intent, a group of payments, transfers or
both, a payment with an app call, or a group the caller puts together with another
party's slots. Each item is prepared in up to four steps (`ReadSender`, `CheckItem`,
`Resolve`, `RekeyTarget`), because each is a request to algod or the signer; then
come `GroupCheck`, `Sign`, the answer (`Signed`, `SignFails`), `AssembleGroup`, and `Send` or
`Simulate`. Beside it other programs use the ledger (`LedgerMoves`), the signer's
inventory changes (`KeysMove`) and other threads clear the shared cache
(`CacheCleared`) or put an older inventory under the current label (`CacheMislabelled`, the
outcome of finding 1). Amounts are in units of the minimum fee. The ledger refuses a group
for the first reason in `Objections`; the properties compare that verdict with what the
preflight checks had looked at. `ShapeOps` are the operations each kind of group may hold.
A group the caller makes may rekey the sender of one of its own later slots, which
`AuthorityCurrent` excuses. `raised` is what the signer's dummies added to the first
fee. Resolution (`ListKeysIfKeysetChanged`) answers from the cache whenever there is one
with the right label, whoever put it there; how threads get it there is `KeyCache`'s
subject. A key is an ordinary one, a rotating account, one of an unknown flow, or a witness
key, which has no signing flow and is no spending account. What an error says is left out:
an exception ends the call.

## Runs

| Run | Bounds | Shows |
|---|---|---|
| `keycache` | 3 SDKs, 2 callers, 1 key, 2 keysets | freshness unless raced; read-your-writes unless overtaken; in Python each unless torn |
| `keycache_label_race` | Go, 2 callers | finding: an old inventory under a new label |
| `keycache_partial` | Python, 1 caller, 2 keys | finding: a fragment served as the inventory |
| `signrequest` | 3 SDKs, one request | cancels, orphans, termination, refinement of `SignCall` |
| `approvalwait` | 3 SDKs, 2 callers, 2 waits, 5 instants | recency; full wait unless the value expires between check and use |
| `approvalwait_malformed` | Python | finding: a broken `/status` fails a sign call |
| `algokit_python` | 2 threads, 3 calls | claim, cancel, usable signatures |
| `algokit_regrouped` | TypeScript, 1 thread | finding: re-grouped signatures are returned |
| `guarded` | 3 SDKs, groups of up to 2, frozen groups of up to 3, 2 accounts, 2 cosigners | disclosure order, soundness and completeness of the plan checks, the flow's own requests, release |
| `guarded_regrouped` | Go | finding: an existing group ID changed for no reason |
| `ssh` | 2 processes (a tunnel, an enrollment), 2 hosts, 2 host keys, 5 endpoint files | deadline against completion and prompt; the two leaks; pins; routing; a setup ends; stop leaves nothing behind but threads that wait on a local client |
| `prepare` | 3 accounts, groups of up to 3, 9 ledgers, 3 inventories, one move of the ledger | funds, holdings and authority as checked are as the ledger wants; rekey targets; complete groups |

Why the bounds are enough. The freshness hazards need two callers and one change of
the keyset between two requests of one of them; two keysets and one key tell an
old inventory from a new one. The run on fragments has two keys, so that a fragment
differs from both the empty and the whole inventory.
Two threads and three calls let one call end, another begin and a third overlap it
between the two halves of `cancel()`. Five instants hold the longest chain: answer,
two latencies, a refresh interval, and the use. With a latency of one status
request instead of two, `approvalwait` fails for Python, so the bound it states is tight.
In `guarded` two positions give every mix of two key flows, of one or two accounts and
of one or two cosigners; groups of one and of two are the two cases of the group ID;
plans add up to two dummies, so that their order matters and the limit of three is
both reached and exceeded. The prepared groups have no ID, their own, or that of a
larger group. Plans are wrong in at most one original position and one suffix, and
reports in the fee list, the flag or one number; fees are 0, 1 and 2 around an original
fee and a ceiling of 1.
In `ssh` two processes are what a lost update needs, and they may meet at one server or
write about two; the first server may change its key, so that trusting it twice would
show. One session for each suffices because nothing of a session outlives it but
known_hosts, and the second process sees the file the first has left in every state.
The endpoint files are one that loads and one for each way of being refused.
In `prepare` the balances (4, 5 or 6 units with a minimum of 1 to 3) make one of the
payments fit and both not; groups of two give one sender or two, and three slots with
another party's give every mix of modes. One move of the ledger is enough to make each
check stale, and the properties excuse any.
Callers are interchangeable, and symmetry is used in the runs that check invariants
only.

Deadlock is not checked for `SignRequest`, `GuardedSign`, `SshSession` and `Preparation`,
where calls end; the other specifications never stop.

Fairness (`FairSpec` of `SignRequest`): a runnable goroutine or thread goes on, and
deadlines arrive. Every request has a timeout and so has the cancel. Nothing is
assumed of the network, the signer or the operator, and a disconnect is never
forced. In TypeScript the timer is detached once the headers are in; that reading
the body ends is then the HTTP library's promise.

`FairSpec` of `SshSession`: the threads of a process run and time passes; a wait on the
network ends when the connection is closed under it, and a dial when its timeout is
over; a forwarding thread goes on when the channel it reads is closed, or when the local
client it reads has closed its end. Nothing is assumed of the server, the operator, the
local client or paramiko's own timeouts, so
`SetupEnds` rests on the timer alone, and says nothing of the prompt and of the
enrollment command, whose exit status the code awaits without a limit.

## Proofs

The theorems hold for every value of the constants that the named assumptions admit.
Each rests on an inductive invariant, and every invariant named here was checked by TLC
on the run's instance before it was proved.

- `KeyCacheProofs`: `TypeCorrect`, `FreshTheorem` (`FreshUnlessRaced`), `OneCallerFresh` and
  `WriteTheorem` (`ReadYourWrites`). `FreshReply` is not inductive: an answer from the cache
  is fresh only because the label is sound, the label is sound because the caller that
  writes it finds its own answer in the cache, and that answer is not older than the
  revision because `/keys` was asked after `/status`. `IInv` adds these facts
  (`FetchedKnown`, `Ordered`, `AnswerNotOlder`, `FillingExact`, `InstalledExact`), and that a
  Python thread which has looked at the cache finds it so when it answers, or is torn
  (`LookedExact`). `WriteInv`
  does the same for acknowledged changes: they do not run ahead of the signer
  (`AckOrdered`), a `/keys` answer has those its call began after (`FetchedAfterFloor`), and
  so has the cache (`CacheAfterAck`).
  Assumed: `Spendable` is a set of addresses and there is at least one keyset.
- `SignRequestProofs`: `TypeTheorem`, `CancelTheorem`, `LapseTheorem`, `SpuriousTheorem`,
  `OrphanTheorem` and `RefinementTheorem`. `IInv` relates the `sync.Once` to the number of
  cancels, the failure to its reason, and the watcher's position to the context;
  `FailedFirst` says that without a watcher a request has failed before it is cancelled;
  `OrphanInv` adds how messages, cancel and signer agree. The refinement maps a request to
  idle, open or closed; sending the cancel is the abstract `Cancel`, and a deadline or
  disconnect the abstract `Lapse`.
- `ApprovalWaitProofs`: `TypeTheorem`, `RecentTheorem` (`UsedWasRecent`) and `FullWaitTheorem`
  (`FullWaitUnlessStraddled`), for any number of threads and all durations. The value and the time beside it may come from two calls of
  Python's, so no call's own history explains the cache. `Origin(o)` does: some moment `o`
  at which the cached value was current has neither the time of caching nor any stamp
  still to be written far ahead of it. A thread that writes the value moves `o` to the
  moment its answer was sent; one that writes only the time leaves `o`, because its stamp was
  bounded (`AnswerRecent`). From this follows the bound of two status latencies.
  Assumed: durations and waits are natural numbers.
- `AlgoKitAccountProofs`: `TypeTheorem`, `ClaimTheorem`, `CancelTheorem` and `UsableTheorem`,
  from fresh request IDs, the claim under the lock and what a call that returned had
  accepted (`Delivered`). `UsableTheorem` is about Python; for TypeScript
  it is false (finding 4).
- `GuardedSignProofs`: `TypeTheorem`, `CosignerLastTheorem`, `FrozenPermittedTheorem`,
  `HonestPlanAcceptedTheorem`, `OwnRequestsValidTheorem` and `ReleaseTheorem`, for every set of prepared groups, every answer of the planner
  and every number of cosigners.
  `AcceptedIsPermitted` and `HonestIsAccepted` are the two halves about the plan checks,
  without any state. The disclosure property is not inductive: a cosigner is shown the
  group in `RequestCosignerComponents`, long after the last thing it needs was
  collected. `IInv` records what each program point knows: the classification stands
  once the plan is requested (`ClassifiedInv`), a group is frozen after it
  (`FrozenInv`), the components in hand are those asked for and complete when the
  ordinary positions are signed (`UserInv`), and cosigner components are those of the
  cosigners shown the group (`CosignInv`). That the flow never builds an invalid request
  rests on the two lists of the classification being disjoint and complete, on
  `FrozenPermitted` (the frozen group is at least as long as the caller's, so that the dummies
  are exactly what is behind it), on each request having one account's or one cosigner's
  targets, and on there being a least account left to ask (`LeastNat`). Assumed: prepared groups are
  sequences of transactions, plan answers have the shape of the wire's, accounts are
  ordered like numbers.
- `SshSessionProofs`: `TypeTheorem`, `DeadlineTheorem`, `TimeoutTheorem`, `LeakTheorem`,
  `PinsTheorem`, `OneKeyTheorem` and `DefaultTheorem`, for any number of processes, hosts and
  keys. `PinsSurvive` is not inductive: between emptying the file and filling it the pins are
  in one process's memory only. `PinInv` says that while nothing has crossed there is at
  most one such process and that it holds every pin relied on; `SnapInv` that what it
  writes has one key for a host; `TimerInv` that no timer is armed at the prompt and that
  one past cancelling has run out or was outrun by completion; `OpenInv` where a connection
  can be open, bare or with a transport. Assumed: the calls, hosts and keys a process may use are of the shape the
  code accepts, and endpoint files name aliases.
- `PreparationProofs`: `TypeTheorem`, `SentTheorem`, `RekeyTheorem`, `FundsTheorem`,
  `HoldingsTheorem` and `AuthorityTheorem`, for every request, ledger and inventory, groups of
  every length and every answer of the signer and the other party. `SlotsInv` has an item
  left while a slot is being prepared, `TargetInv` that, undisturbed, a cache
  that would answer is the inventory, and so is the one a rekey target is judged by, `SentInv` where the parties' signatures are
  from the answer on. The three properties of the ledger's verdict say nothing before the
  last step, so `LedgerInv` carries what the steps before had established: while nothing
  moved, every slot is what its item becomes on the ledger as it is, and its checks hold
  there (`FreshInv`); from the group's checks on, these held (`AcceptedInv`). The rest is
  about the ledger alone, in `LedgerProofs`.
  Assumed: requests are not empty, consist of the operations their shape allows, and name
  accounts and natural amounts; the ledgers at the start give every account a
  balance, a holding or none, and an authority; moves are transactions.
- `LedgerProofs`: along the execution of a group an account has at least what it had less
  what its own transactions take (`FundsAlong`, `HoldingsAlong`), and its authority until
  one of them is a rekey (`AuthAlong`); `RefusalFacts` and `VerdictFacts` lead from a refusal
  back to the position and the account it is about. These are inductions over the group.
  The library's induction theorems take an operator, which the provers cannot
  instantiate; here the set of counterexamples is the parameter, and a set of numbers
  that is not empty has a least member (`LeastNumber`, `SubsetInduction` for sums over
  sets of positions). Recursive functions and sums over groups are so reached at every
  length.

Only model-checked, because liveness under fairness is out of the proof system's reach:
`EveryCallReturns`, `SetupEnds` and `StopDrains`. The runs that end in a violation are
counterexamples and have nothing to prove.

## Findings

Each is a run that must end in a violation; `findings` in `PROJECT.json` quotes the
text the code departs from.

1. The revision label can be attached to another caller's older inventory (all SDKs).
2. A `/keys` answer with an entry that does not parse leaves a fragment in the cache
   (Python, TypeScript).
3. A malformed `/status` answer fails a Python sign call.
4. The TypeScript AlgoKit adapter does not notice a re-grouped answer.
5. A plan may change an existing group ID without changing a fee or the membership, if
   it lists an unchanged fee among the modified ones (all SDKs).

Also worth knowing:

- Go's watcher can still cancel a request that succeeded at its deadline: it may have
  looked at `done` for the second time (`src/go/client.go:1026`) when the answer comes in,
  although the comment at `src/go/client.go:1012` rules that out. `SpuriousOnlyInGo` says that
  this is the only such case.
- An approval wait that is fresh when `needsApprovalWaitDiscovery` looks can be stale when
  the deadline is computed, and the request then gets the fallback deadline though
  nothing failed. `FullWaitUnlessStraddled` says that this, a failed discovery and a change
  of the signer's configuration are the only ways an operator loses part of the wait.
- Two Python threads that share a client can lose each other's inventory: `list_keys` tests
  the cache and copies it in two statements (`src/python/aplanesdk/signer.py`, 3022-3023), and
  so do `list_keys_if_keyset_changed` (3091-3096) and `get_key_info` (3112-3114). A clear by
  another thread in between makes the answer empty, a refill makes it a part of an
  inventory or an older one. `FreshUnlessRaced` and `ReadYourWrites` hold for Python but for
  such calls (`torn`).
- If the local port of a tunnel is taken between finding and binding it, the SSH
  connection stays open. If the time of an enrollment is up between the dial and the
  transport (6286-6301), the socket stays open until it is collected: the handlers close only
  the `SSHClient`. `LeakOnlyKnown` says that there is no third case.
- `stop()` does not wake the thread that waits in `client_sock.recv()`, and `SignerClient.close`
  (2881-2895) does not close the `requests` session whose pool keeps the other end open: a
  thread and a local connection may stay behind until the pool is collected. `StopDrains` is
  about all the others.
- `prepare_rekey` takes a witness key of the signer for a target: such a key has no signing
  flow, and the empty flow passes `_rekey_target_flow_check` (3435-3437). The documentation
  excludes these keys as targets (`src/python/README.md:420`). `RekeyTargetUsable` names it as
  its one exception beside a disturbed inventory.
- AutoAddPolicy saves nothing when there was no known_hosts file, and two processes that
  save at the same time lose one entry. Both are excuses of `PinsSurvive`.
- The checks of an opt-in and a close look at `params.fee`, which is 0 unless a fee was
  given, and not at the minimum balance; the check of a sweep's payments ignores the
  fees of the same sender's transfers; a receiver's minimum balance is never looked at.
  `FundsCovered` is stated for the payments the checks do cover.
- Each slot of a caller-made group is resolved by itself, on the ledger before the group
  runs: a slot that follows a rekey of its own sender is signed with the old authority and
  refused. `AuthorityCurrent` names the case.
- `assemble_group` documents (`src/python/aplanesdk/signer.py`, lines 5974-5995) that
  `sign_transactions_list` gives empty strings for other parties' slots; `_sign_request`
  refuses such slots (4452-4461), so only `sign_requests` yields lists to merge.

## Not modelled, and the plan

Modelled so far, in this order: the key cache, the signing request, the approval wait,
the AlgoKit adapter, plan validation and the cosigner flows, SSH sessions with
known_hosts, enrollment and endpoint routing, and preparation up to submission. Left:

1. The SSH, enrollment, endpoint and preparation code of Go and TypeScript, which has
   the same shape over other libraries; Go's tunnel closes its channel from two places.
2. The guarded flow called directly, with frozen bytes and passthrough entries of the
   caller's own, where the request validators are the only line of defence.
3. An abstract specification of a cosigned release (plan, user, cosigners, release)
   and its refinement by `GuardedSign`.
4. The proof of that refinement.
5. A run that ends in a violation for Go's spurious cancel, beside `SpuriousOnlyInGo`.

Not modelled because there is nothing in them for these methods: hexadecimal and
MessagePack encoding, ABI arguments, error texts, wire types and generated declarations, YAML and
path handling, key type listings and the example programs. They keep no state and
are covered by the repository's unit tests.
