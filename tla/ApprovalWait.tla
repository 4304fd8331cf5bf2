---------------------------- MODULE ApprovalWait ----------------------------
(***************************************************************************)
(* How a SignerClient sizes the deadline of an approval-bearing request.   *)
(*                                                                         *)
(* The signer lets an operator think for approval_wait_seconds; the client *)
(* learns that value from /status, keeps it for a refresh interval, and    *)
(* gives /sign the value plus some slack.  The cached value is shared by   *)
(* the client's concurrent calls and is read again after it was judged     *)
(* fresh.  Time is a counter; the SDK's durations are constants.           *)
(***************************************************************************)
EXTENDS Integers

CONSTANTS Sdks,              \* a subset of "go", "python", "typescript"
          Callers,           \* concurrent calls of one client
          Waits,             \* the values approval_wait_seconds may take
          MaxDiscoveredWait, \* MAX_DISCOVERED_APPROVAL_WAIT
          Refresh,           \* APPROVAL_WAIT_REFRESH
          Slack,             \* SIGN_APPROVAL_SLACK
          DefaultTimeout,    \* DEFAULT_SIGN_REQUEST_TIMEOUT
          ComponentTimeout,  \* COMPONENT_SIGN_TIMEOUT
          StatusTimeout,     \* STATUS_TIMEOUT
          Explicit,          \* the timeout the client was built with; 0 for none
          MaxTime            \* bound on the clock

ASSUME SdkAssumption == Sdks \subseteq {"go", "python", "typescript"}
ASSUME DurationAssumption ==
  /\ Waits \subseteq Nat
  /\ {MaxDiscoveredWait, Refresh, Slack, DefaultTimeout, ComponentTimeout,
      StatusTimeout, Explicit, MaxTime} \subseteq Nat

VARIABLES
  sdk,      \* the SDK of the client; never changes
  now,      \* the clock
  wait,     \* the signer's approval_wait_seconds
  log,      \* log[t]: the values it had during t (history)
  secs,     \* approvalWaitSeconds; 0 when unusable
  fetched,  \* approvalWaitFetched
  known,    \* approvalWaitKnown
  pc,       \* where each caller is
  op,       \* what it calls
  answer,   \* the value its /status answer carried
  sentAt,   \* when the signer sent that answer
  used,     \* the discovered wait it sized its request with; 0 for none
  timeout,  \* the deadline it gave its request
  sizedAt,  \* when (history)
  excuse    \* what went wrong with this call's discovery (history)

cacheVars == <<secs, fetched, known>>
callVars  == <<pc, op, answer, sentAt, used, timeout, sizedAt, excuse>>
vars == <<sdk, now, wait, log, cacheVars, callVars>>

Times == 0..MaxTime
Ops   == {"none", "status", "sign", "component"}
PCs   == {"idle", "status", "cache", "stamp", "mark", "size", "sent", "failed"}

(* A usable wait is positive and within MAX_DISCOVERED_APPROVAL_WAIT. *)
Usable(w) == w > 0 /\ w <= MaxDiscoveredWait

TypeOK ==
  /\ sdk \in Sdks
  /\ now \in Times
  /\ wait \in Waits
  /\ log \in [Times -> SUBSET Waits]
  /\ secs \in {0} \union {w \in Waits : Usable(w)}
  /\ fetched \in Times
  /\ known \in BOOLEAN
  /\ pc \in [Callers -> PCs]
  /\ op \in [Callers -> Ops]
  /\ answer \in [Callers -> {0} \union Waits]
  /\ sentAt \in [Callers -> Times]
  /\ used \in [Callers -> {0} \union {w \in Waits : Usable(w)}]
  /\ timeout \in [Callers -> Nat]
  /\ sizedAt \in [Callers -> Times]
  /\ excuse \in [Callers -> {"none", "failed", "straddled"}]

Init ==
  /\ sdk \in Sdks
  /\ now = 0
  /\ wait \in Waits
  /\ log = [t \in Times |-> IF t = 0 THEN {wait} ELSE {}]
  /\ secs = 0
  /\ fetched = 0
  /\ known = FALSE
  /\ pc = [c \in Callers |-> "idle"]
  /\ op = [c \in Callers |-> "none"]
  /\ answer = [c \in Callers |-> 0]
  /\ sentAt = [c \in Callers |-> 0]
  /\ used = [c \in Callers |-> 0]
  /\ timeout = [c \in Callers |-> 0]
  /\ sizedAt = [c \in Callers |-> 0]
  /\ excuse = [c \in Callers |-> "none"]

-----------------------------------------------------------------------------
(* Time passes.  An answered /status request is over, and its answer cached, *)
(* within STATUS_TIMEOUT.                                                    *)
Caching(c) == pc[c] \in {"cache", "stamp", "mark"}

Tick ==
  /\ now < MaxTime
  /\ \A c \in Callers : Caching(c) => now - sentAt[c] < StatusTimeout
  /\ now' = now + 1
  /\ log' = [log EXCEPT ![now + 1] = {wait}]
  /\ UNCHANGED <<sdk, wait, cacheVars, callVars>>

(* The signer is reconfigured; bound: once in a unit of time. *)
SignerSetsWait ==
  /\ log[now] = {wait}
  /\ \E w \in Waits \ {wait} : /\ wait' = w
                               /\ log' = [log EXCEPT ![now] = @ \union {w}]
  /\ UNCHANGED <<sdk, now, cacheVars, callVars>>

-----------------------------------------------------------------------------
(* Is the last discovery too old? *)
Stale == now - fetched > Refresh

(* needsApprovalWaitDiscovery *)
NeedsDiscovery == ~known \/ Stale

(* Bug: the cached value never expires. *)
CachedWaitForever == IF known THEN secs ELSE 0

(* cachedApprovalWait: the value, or 0. *)
CachedWait == IF ~known \/ Stale THEN 0 ELSE secs

(* timeoutFor: an explicit shorter timeout wins. *)
TimeoutFor(t) == IF Explicit > 0 /\ Explicit < t THEN Explicit ELSE t

(* Bug: the slack is forgotten. *)
SignRequestTimeoutNoSlack(w) == TimeoutFor(IF w > 0 THEN w ELSE DefaultTimeout)

(* signRequestTimeout *)
SignRequestTimeout(w) == TimeoutFor(IF w > 0 THEN w + Slack ELSE DefaultTimeout)

(* componentRequestTimeout: never below the component deadline. *)
ComponentRequestTimeout(w) ==
  LET t == TimeoutFor(ComponentTimeout)
  IN  IF SignRequestTimeout(w) > t THEN SignRequestTimeout(w) ELSE t

(* The application asks for the status, or signs; signing asks for the      *)
(* status first when the cache is not fresh.                                *)
Start(c, o) ==
  /\ pc[c] \in {"idle", "sent", "failed"}
  /\ op' = [op EXCEPT ![c] = o]
  /\ pc' = [pc EXCEPT ![c] = IF o = "status" \/ NeedsDiscovery THEN "status" ELSE "size"]
  /\ used' = [used EXCEPT ![c] = 0]
  /\ timeout' = [timeout EXCEPT ![c] = 0]
  /\ sizedAt' = [sizedAt EXCEPT ![c] = 0]
  /\ excuse' = [excuse EXCEPT ![c] = "none"]
  /\ UNCHANGED <<sdk, now, wait, log, cacheVars, answer, sentAt>>

(* The signer answers /status. *)
StatusAnswers(c) ==
  /\ pc[c] = "status"
  /\ answer' = [answer EXCEPT ![c] = wait]
  /\ sentAt' = [sentAt EXCEPT ![c] = now]
  /\ pc' = [pc EXCEPT ![c] = "cache"]
  /\ UNCHANGED <<sdk, now, wait, log, cacheVars, op, used, timeout, sizedAt, excuse>>

(* The status request of c is over: a discovery goes on to the deadline. *)
AfterStatus(c) == IF op[c] = "status" THEN "idle" ELSE "size"

Drop(c) ==
  /\ pc' = [pc EXCEPT ![c] = AfterStatus(c)]
  /\ answer' = [answer EXCEPT ![c] = 0]
  /\ sentAt' = [sentAt EXCEPT ![c] = 0]

(* The status request is refused or times out: swallowed when it was only   *)
(* a discovery.                                                              *)
StatusFails(c) ==
  /\ pc[c] = "status"
  /\ pc' = [pc EXCEPT ![c] = AfterStatus(c)]
  /\ excuse' = [excuse EXCEPT ![c] = "failed"]
  /\ UNCHANGED <<sdk, now, wait, log, cacheVars, op, answer, sentAt, used, timeout, sizedAt>>

(* The answer is no status document.  Go and TypeScript swallow whatever     *)
(* GetStatus reports; Python swallows SignerError only, and resp.json() does *)
(* not raise one.                                                            *)
StatusMalformed(c) ==
  /\ pc[c] = "status"
  /\ pc' = [pc EXCEPT ![c] = IF sdk = "python" THEN "failed" ELSE AfterStatus(c)]
  /\ excuse' = [excuse EXCEPT ![c] = "failed"]
  /\ UNCHANGED <<sdk, now, wait, log, cacheVars, op, answer, sentAt, used, timeout, sizedAt>>

(* Bug: the value is cached as it came. *)
CacheApprovalWaitUnclamped(c) ==
  /\ sdk # "python"
  /\ pc[c] = "cache"
  /\ secs' = answer[c]
  /\ fetched' = now
  /\ known' = TRUE
  /\ Drop(c)
  /\ UNCHANGED <<sdk, now, wait, log, op, used, timeout, sizedAt, excuse>>

(* cacheApprovalWait: one critical section in Go, no await in TypeScript. *)
CacheApprovalWait(c) ==
  /\ sdk # "python"
  /\ pc[c] = "cache"
  /\ secs' = IF Usable(answer[c]) THEN answer[c] ELSE 0
  /\ fetched' = now
  /\ known' = TRUE
  /\ Drop(c)
  /\ UNCHANGED <<sdk, now, wait, log, op, used, timeout, sizedAt, excuse>>

(* In Python, three assignments another thread may run between. *)
CacheSeconds(c) ==
  /\ sdk = "python"
  /\ pc[c] = "cache"
  /\ secs' = IF Usable(answer[c]) THEN answer[c] ELSE 0
  /\ pc' = [pc EXCEPT ![c] = "stamp"]
  /\ UNCHANGED <<sdk, now, wait, log, fetched, known, op, answer, sentAt, used, timeout,
                 sizedAt, excuse>>

CacheFetchedAt(c) ==
  /\ pc[c] = "stamp"
  /\ fetched' = now
  /\ pc' = [pc EXCEPT ![c] = "mark"]
  /\ UNCHANGED <<sdk, now, wait, log, secs, known, op, answer, sentAt, used, timeout,
                 sizedAt, excuse>>

CacheKnown(c) ==
  /\ pc[c] = "mark"
  /\ known' = TRUE
  /\ Drop(c)
  /\ UNCHANGED <<sdk, now, wait, log, secs, fetched, op, used, timeout, sizedAt, excuse>>

(* The request is given its deadline, from what the cache holds now. *)
SizeRequest(c) ==
  /\ pc[c] = "size"
  /\ used' = [used EXCEPT ![c] = CachedWait]
  /\ timeout' = [timeout EXCEPT ![c] =
                   IF op[c] = "sign" THEN SignRequestTimeout(CachedWait)
                   ELSE ComponentRequestTimeout(CachedWait)]
  /\ sizedAt' = [sizedAt EXCEPT ![c] = now]
  /\ excuse' = [excuse EXCEPT ![c] = IF @ = "none" /\ NeedsDiscovery THEN "straddled" ELSE @]
  /\ pc' = [pc EXCEPT ![c] = "sent"]
  /\ UNCHANGED <<sdk, now, wait, log, cacheVars, op, answer, sentAt>>

Next ==
  \/ Tick
  \/ SignerSetsWait
  \/ \E c \in Callers :
       \/ \E o \in {"status", "sign", "component"} : Start(c, o)
       \/ StatusAnswers(c) \/ StatusFails(c) \/ StatusMalformed(c)
       \/ CacheApprovalWait(c) \/ CacheSeconds(c) \/ CacheFetchedAt(c) \/ CacheKnown(c)
       \/ SizeRequest(c)

Spec == Init /\ [][Next]_vars

-----------------------------------------------------------------------------
(* How long a value may lie about before it is cached with the time of       *)
(* caching: one status request, or two when Python's assignments cross.      *)
Latency == IF sdk = "python" THEN 2 * StatusTimeout ELSE StatusTimeout

(* A request is never sized with a wait the signer has not used for longer   *)
(* than the refresh interval and the latency of /status, whichever callers   *)
(* filled and read the cache.                                                *)
UsedWasRecent ==
  \A c \in Callers : pc[c] = "sent" /\ used[c] > 0 =>
    \E t \in Times : /\ sizedAt[c] - (Refresh + Latency) <= t
                     /\ t <= sizedAt[c]
                     /\ used[c] \in log[t]

(* The wait w has been in force for as long as the cache may remember. *)
Settled(c, w) ==
  \A t \in Times : sizedAt[c] - (Refresh + Latency) <= t /\ t <= sizedAt[c] => log[t] = {w}

(* A client without a shorter timeout of its own gives the operator the full *)
(* wait and the slack, if discovery worked.                                  *)
GivesFullWait(c) ==
  Explicit = 0 => \A w \in Waits : Usable(w) /\ Settled(c, w) => timeout[c] >= w + Slack

(* A sized request leaves the operator the signer's full wait unless the     *)
(* discovery failed, or the cache went stale between the freshness check and *)
(* its use.                                                                  *)
FullWaitUnlessStraddled ==
  \A c \in Callers : pc[c] = "sent" /\ excuse[c] = "none" => GivesFullWait(c)

(* "/status discovery failure must not fail /sign; use fallback." *)
DiscoveryNeverFailsSign ==
  \A c \in Callers : pc[c] = "failed" => op[c] = "status"
=============================================================================
