------------------------- MODULE ApprovalWaitProofs -------------------------
(***************************************************************************)
(* Proofs about the discovery of the approval wait: for any number of      *)
(* concurrent calls, any durations and any reconfigurations of the signer, *)
(* a deadline is sized from a wait the signer used recently, and it covers *)
(* the whole wait unless the discovery failed or straddled a refresh.      *)
(*                                                                         *)
(* The invariant follows the age of the cached value.  It was current at   *)
(* some instant, its origin, and the cached time of caching runs ahead of  *)
(* the origin by no more than the latency: by one /status request when the *)
(* value and the time are written together, and in Python, where a thread  *)
(* may stamp over the value of another, by two.                            *)
(***************************************************************************)
EXTENDS ApprovalWait, TLAPS

(* The cached form of an answer. *)
Clamp(w) == IF Usable(w) THEN w ELSE 0

(* Go and TypeScript never are between two writes of the cache, and a call  *)
(* of theirs never fails for its discovery.                                 *)
AtomicElsewhere ==
  sdk # "python" => \A c \in Callers : pc[c] \notin {"stamp", "mark", "failed"}

(* An answer on its way into the cache was current when it was sent, and    *)
(* that is at most one status request ago.                                  *)
AnswerRecent ==
  \A c \in Callers : Caching(c) =>
    /\ sentAt[c] <= now
    /\ now <= sentAt[c] + StatusTimeout
    /\ answer[c] \in log[sentAt[c]]

(* Some call has written the cached value. *)
Written == known \/ \E c \in Callers : pc[c] \in {"stamp", "mark"}

(* The cached value was current at o; the time of caching, and every stamp  *)
(* still to be written over it, are not far ahead of o.                     *)
Origin(o) ==
  /\ o <= now
  /\ fetched <= o + Latency
  /\ \A c \in Callers : pc[c] = "stamp" => sentAt[c] <= o + StatusTimeout
  /\ Written => \E v \in log[o] : secs = Clamp(v)
  /\ ~Written => secs = 0

(* A request was sized at a time that has come. *)
SizedRecent ==
  \A c \in Callers : pc[c] = "sent" => sizedAt[c] <= now

IInv ==
  /\ TypeOK
  /\ wait \in log[now]
  /\ fetched <= now
  /\ AtomicElsewhere
  /\ AnswerRecent
  /\ \E o \in Times : Origin(o)
  /\ SizedRecent
  /\ UsedWasRecent
  /\ FullWaitUnlessStraddled

-----------------------------------------------------------------------------
(* Typing. *)

(* The durations are natural numbers. *)
LEMMA Durations ==
  /\ Waits \subseteq Nat
  /\ MaxDiscoveredWait \in Nat /\ Refresh \in Nat /\ Slack \in Nat
  /\ DefaultTimeout \in Nat /\ ComponentTimeout \in Nat /\ StatusTimeout \in Nat
  /\ Explicit \in Nat /\ MaxTime \in Nat
BY DurationAssumption

(* What the cache answers is what it may hold (cachedApprovalWait). *)
LEMMA CachedWaitType ==
  TypeOK => /\ CachedWait \in {0} \union {w \in Waits : Usable(w)}
            /\ CachedWait \in Nat
BY Durations DEF TypeOK, CachedWait, Usable

(* The deadlines are natural numbers (signRequestTimeout,                    *)
(* componentRequestTimeout).                                                 *)
LEMMA TimeoutType ==
  ASSUME NEW w \in Nat
  PROVE  SignRequestTimeout(w) \in Nat /\ ComponentRequestTimeout(w) \in Nat
BY Durations DEF SignRequestTimeout, ComponentRequestTimeout, TimeoutFor

(* Without a timeout of its own, the client's deadline for a usable wait     *)
(* covers it and the slack.                                                  *)
LEMMA FullTimeout ==
  ASSUME NEW w \in Nat, w > 0, Explicit = 0
  PROVE  SignRequestTimeout(w) >= w + Slack /\ ComponentRequestTimeout(w) >= w + Slack
BY Durations DEF SignRequestTimeout, ComponentRequestTimeout, TimeoutFor

(* Every step keeps the state well typed. *)
LEMMA TypeStep == TypeOK /\ [Next]_vars => TypeOK'
<1> SUFFICES ASSUME TypeOK, [Next]_vars PROVE TypeOK'
  OBVIOUS
<1> USE Durations
<1>1. CASE UNCHANGED vars
  BY <1>1 DEF TypeOK, vars, cacheVars, callVars, Usable
<1>2. CASE Tick
  BY <1>2 DEF TypeOK, Tick, Times, cacheVars, callVars, Usable
<1>3. CASE SignerSetsWait
  BY <1>3 DEF TypeOK, SignerSetsWait, cacheVars, callVars, Usable
<1>4. ASSUME NEW c \in Callers, NEW o \in {"status", "sign", "component"}, Start(c, o)
      PROVE  TypeOK'
  BY <1>4 DEF TypeOK, Start, cacheVars, PCs, Ops, Times, Usable
<1>5. ASSUME NEW c \in Callers, StatusAnswers(c)
      PROVE  TypeOK'
  BY <1>5 DEF TypeOK, StatusAnswers, cacheVars, PCs, Usable
<1>6. ASSUME NEW c \in Callers, StatusFails(c) \/ StatusMalformed(c)
      PROVE  TypeOK'
  <2>1. pc' \in [Callers -> PCs] /\ excuse' \in [Callers -> {"none", "failed", "straddled"}]
    BY <1>6 DEF TypeOK, StatusFails, StatusMalformed, AfterStatus, PCs
  <2> QED
    BY <1>6, <2>1 DEF TypeOK, StatusFails, StatusMalformed, cacheVars, Usable
<1>7. ASSUME NEW c \in Callers, CacheApprovalWait(c)
      PROVE  TypeOK'
  BY <1>7 DEF TypeOK, CacheApprovalWait, Drop, AfterStatus, PCs, Times, Usable
<1>8. ASSUME NEW c \in Callers, CacheSeconds(c) \/ CacheFetchedAt(c) \/ CacheKnown(c)
      PROVE  TypeOK'
  <2>1. CASE CacheSeconds(c)
    BY <2>1 DEF TypeOK, CacheSeconds, PCs, Usable
  <2>2. CASE CacheFetchedAt(c)
    BY <2>2 DEF TypeOK, CacheFetchedAt, PCs, Usable
  <2>3. CASE CacheKnown(c)
    BY <2>3 DEF TypeOK, CacheKnown, Drop, AfterStatus, PCs, Times, Usable
  <2> QED
    BY <1>8, <2>1, <2>2, <2>3
<1>9. ASSUME NEW c \in Callers, SizeRequest(c)
      PROVE  TypeOK'
  <2>1. CachedWait \in {0} \union {w \in Waits : Usable(w)} /\ CachedWait \in Nat
    BY CachedWaitType, Zenon
  <2>2. timeout' \in [Callers -> Nat]
    BY <1>9, <2>1, TimeoutType DEF TypeOK, SizeRequest
  <2> QED
    BY <1>9, <2>1, <2>2 DEF TypeOK, SizeRequest, cacheVars, PCs, Usable
<1> QED
  BY <1>1, <1>2, <1>3, <1>4, <1>5, <1>6, <1>7, <1>8, <1>9 DEF Next

-----------------------------------------------------------------------------
(* What a step may do to the clock and to the record of the signer's waits.  *)

(* Time does not run back, a past instant keeps its waits, and the present   *)
(* one can only get another: the instant is settled no more.                 *)
LEMMA HistoryStep ==
  ASSUME TypeOK, wait \in log[now], [Next]_vars
  PROVE  /\ now <= now'
         /\ wait' \in log'[now']
         /\ \A t \in Times : t <= now => log[t] \subseteq log'[t]
         /\ \A t \in Times : \A w : t <= now /\ log'[t] = {w} => log[t] = {w}
<1> USE Durations
<1>1. CASE Tick
  BY <1>1 DEF TypeOK, Tick, Times
<1>2. CASE SignerSetsWait
  <2>1. PICK w \in Waits \ {wait} : /\ wait' = w
                                    /\ log' = [log EXCEPT ![now] = @ \union {w}]
    BY <1>2 DEF SignerSetsWait
  <2>2. log[now] = {wait} /\ now' = now
    BY <1>2 DEF SignerSetsWait
  <2>3. log'[now] = {wait, w} /\ \A t \in Times : t # now => log'[t] = log[t]
    BY <2>1, <2>2 DEF TypeOK
  <2>4. \A t \in Times : \A x : t <= now /\ log'[t] = {x} => log[t] = {x}
    BY <2>1, <2>3
  <2>5. \A t \in Times : log[t] \subseteq log'[t]
    BY <2>2, <2>3
  <2>6. now <= now' /\ wait' \in log'[now']
    BY <2>1, <2>2, <2>3 DEF TypeOK, Times
  <2> QED
    BY <2>4, <2>5, <2>6
<1>3. ASSUME UNCHANGED <<now, wait, log>>
      PROVE  /\ now <= now'
             /\ wait' \in log'[now']
             /\ \A t \in Times : t <= now => log[t] \subseteq log'[t]
             /\ \A t \in Times : \A w : t <= now /\ log'[t] = {w} => log[t] = {w}
  BY <1>3 DEF TypeOK, Times
<1>4. Tick \/ SignerSetsWait \/ UNCHANGED <<now, wait, log>>
  BY DEF Next, vars, Start, StatusAnswers, StatusFails, StatusMalformed, CacheApprovalWait,
         CacheSeconds, CacheFetchedAt, CacheKnown, SizeRequest
<1> QED
  BY <1>1, <1>2, <1>3, <1>4

-----------------------------------------------------------------------------
(* The cache and the answers on their way into it. *)

(* Go and TypeScript write the cache in one step and swallow every failure   *)
(* of the discovery.                                                         *)
LEMMA AtomicStep ==
  ASSUME TypeOK, AtomicElsewhere, [Next]_vars
  PROVE  AtomicElsewhere'
<1>1. CASE UNCHANGED <<sdk, pc>>
  BY <1>1 DEF AtomicElsewhere
<1>3. ASSUME NEW c \in Callers, NEW o \in {"status", "sign", "component"}, Start(c, o)
      PROVE  AtomicElsewhere'
  BY <1>3 DEF AtomicElsewhere, TypeOK, Start
<1>4. ASSUME NEW c \in Callers,
             \/ StatusAnswers(c) \/ StatusFails(c) \/ StatusMalformed(c)
             \/ CacheApprovalWait(c) \/ CacheSeconds(c) \/ CacheFetchedAt(c) \/ CacheKnown(c)
             \/ SizeRequest(c)
      PROVE  AtomicElsewhere'
  BY <1>4 DEF AtomicElsewhere, TypeOK, StatusAnswers, StatusFails, StatusMalformed, AfterStatus,
              CacheApprovalWait, CacheSeconds, CacheFetchedAt, CacheKnown, Drop, SizeRequest
<1> QED
  BY <1>1, <1>3, <1>4 DEF Next, Tick, SignerSetsWait, vars, callVars

(* The time of caching is a time that has come. *)
LEMMA FetchedStep ==
  ASSUME TypeOK, fetched <= now, [Next]_vars
  PROVE  fetched' <= now'
<1>1. fetched \in Nat /\ now \in Nat
  BY Durations DEF TypeOK, Times
<1>2. \/ fetched' = fetched /\ now' \in {now, now + 1}
      \/ fetched' = now /\ now' = now
  BY DEF Next, Tick, SignerSetsWait, vars, cacheVars, Start, StatusAnswers, StatusFails,
         StatusMalformed, CacheApprovalWait, CacheSeconds, CacheFetchedAt, CacheKnown, SizeRequest
<1> QED
  BY <1>1, <1>2

(* An answer on its way into the cache stays recent: Tick waits for it.      *)
LEMMA AnswerStep ==
  ASSUME TypeOK, wait \in log[now], AnswerRecent, [Next]_vars
  PROVE  AnswerRecent'
<1> SUFFICES ASSUME NEW c \in Callers, Caching(c)'
             PROVE  /\ sentAt'[c] <= now'
                    /\ now' <= sentAt'[c] + StatusTimeout
                    /\ answer'[c] \in log'[sentAt'[c]]
  BY DEF AnswerRecent
<1>1. now \in Nat /\ sentAt[c] \in Times /\ sentAt[c] \in Nat /\ now \in Times
  BY Durations DEF TypeOK, Times
<1>2. CASE ~Caching(c)
  <2>1. StatusAnswers(c)
    BY <1>2 DEF Next, Tick, SignerSetsWait, vars, callVars, Start, StatusAnswers, StatusFails,
         StatusMalformed, CacheApprovalWait, CacheSeconds, CacheFetchedAt, CacheKnown,
         SizeRequest, Caching, AfterStatus, Drop, TypeOK
  <2> QED
    BY <1>1, <2>1, Durations DEF StatusAnswers, TypeOK
<1>3. CASE Caching(c)
  <2>1. sentAt[c] <= now /\ now <= sentAt[c] + StatusTimeout /\ answer[c] \in log[sentAt[c]]
    BY <1>3 DEF AnswerRecent
  <2>2. sentAt'[c] = sentAt[c] /\ answer'[c] = answer[c]
    BY <1>3 DEF Next, Tick, SignerSetsWait, vars, callVars, Start, StatusAnswers, StatusFails,
         StatusMalformed, CacheApprovalWait, CacheSeconds, CacheFetchedAt, CacheKnown,
         SizeRequest, Caching, AfterStatus, Drop, TypeOK
  <2>3. answer[c] \in log'[sentAt[c]] /\ now <= now'
    BY <1>1, <2>1, HistoryStep
  <2>4. now' <= sentAt[c] + StatusTimeout
    <3>1. now' = now \/ (now' = now + 1 /\ now - sentAt[c] < StatusTimeout)
      BY <1>3 DEF Next, Tick, SignerSetsWait, vars, Start, StatusAnswers, StatusFails,
         StatusMalformed, CacheApprovalWait, CacheSeconds, CacheFetchedAt, CacheKnown, SizeRequest
    <3> QED
      BY <1>1, <2>1, <3>1, Durations
  <2>5. now' \in Nat
    BY TypeStep, Durations DEF TypeOK, Times
  <2> QED
    BY <1>1, <2>1, <2>2, <2>3, <2>4, <2>5
<1> QED
  BY <1>2, <1>3

(* A call that writes the value gives the cache a new origin: the time its   *)
(* answer was sent (cacheApprovalWait, and the first of Python's writes).    *)
LEMMA OriginOfWrite ==
  ASSUME TypeOK, fetched <= now, AtomicElsewhere, AnswerRecent,
         NEW c \in Callers, CacheApprovalWait(c) \/ CacheSeconds(c),
         NEW o \in Times, o = sentAt[c]
  PROVE  Origin(o)'
<1>1. o \in Nat /\ now \in Nat /\ fetched \in Nat
  BY Durations DEF TypeOK, Times
<1>2. o <= now /\ now <= o + StatusTimeout /\ answer[c] \in log[o]
  BY DEF AnswerRecent, Caching, CacheApprovalWait, CacheSeconds
<1>3. now' = now /\ log' = log /\ sdk' = sdk /\ secs' = Clamp(answer[c]) /\ fetched' <= now
  BY <1>1 DEF CacheApprovalWait, CacheSeconds, Clamp
<1>4. fetched' <= o + Latency'
  <2>1. fetched' = now \/ fetched' = fetched
    BY DEF CacheApprovalWait, CacheSeconds
  <2> QED
    BY <1>1, <1>2, <1>3, <2>1, Durations DEF Latency
<1>5. ASSUME NEW d \in Callers, pc'[d] = "stamp"
      PROVE  sentAt'[d] <= o + StatusTimeout
  <2>1. CASE CacheApprovalWait(c)
    BY <1>5, <2>1 DEF AtomicElsewhere, CacheApprovalWait, Drop, AfterStatus, TypeOK
  <2>2. CASE CacheSeconds(c)
    <3>1. sentAt' = sentAt /\ sentAt[d] \in Nat /\ (d = c \/ pc[d] = "stamp")
      BY <1>5, <2>2, Durations DEF CacheSeconds, TypeOK, Times
    <3>2. d = c \/ sentAt[d] <= now
      BY <3>1 DEF AnswerRecent, Caching
    <3> QED
      BY <1>1, <1>2, <3>1, <3>2, Durations
  <2> QED
    BY <2>1, <2>2
<1>6. Written'
  BY DEF Written, CacheApprovalWait, CacheSeconds, TypeOK
<1> QED
  BY <1>1, <1>2, <1>3, <1>4, <1>5, <1>6 DEF Origin

(* Every other step leaves the origin where it is: a stamp written over the  *)
(* value is that of a call that was under way when the value was written.    *)
LEMMA OriginKept ==
  ASSUME TypeOK, wait \in log[now], AtomicElsewhere, AnswerRecent, [Next]_vars,
         \A c \in Callers : ~CacheApprovalWait(c) /\ ~CacheSeconds(c),
         NEW o \in Times, Origin(o)
  PROVE  Origin(o)'
<1>1. o \in Nat /\ now \in Nat /\ now' \in Nat
  BY TypeStep, Durations DEF TypeOK, Times
<1>2. secs' = secs /\ sdk' = sdk
  BY DEF Next, Tick, SignerSetsWait, vars, cacheVars, Start, StatusAnswers, StatusFails,
         StatusMalformed, CacheFetchedAt, CacheKnown, SizeRequest
<1>3. o <= now' /\ log[o] \subseteq log'[o]
  BY <1>1, HistoryStep DEF Origin
<1>4. fetched' <= o + Latency'
  <2>1. CASE fetched' = fetched
    BY <1>2, <2>1 DEF Origin, Latency
  <2>2. ASSUME NEW c \in Callers, CacheFetchedAt(c)
        PROVE  fetched' <= o + Latency'
    <3>1. fetched' = now /\ sdk = "python" /\ sentAt[c] <= o + StatusTimeout
      BY <2>2 DEF CacheFetchedAt, AtomicElsewhere, Origin
    <3>2. now <= sentAt[c] + StatusTimeout /\ sentAt[c] \in Nat
      BY <2>2, Durations DEF CacheFetchedAt, AnswerRecent, Caching, TypeOK, Times
    <3> QED
      BY <1>1, <1>2, <3>1, <3>2, Durations DEF Latency
  <2> QED
    BY <2>1, <2>2 DEF Next, Tick, SignerSetsWait, vars, cacheVars, Start, StatusAnswers,
         StatusFails, StatusMalformed, CacheKnown, SizeRequest
<1>5. ASSUME NEW d \in Callers, pc'[d] = "stamp"
      PROVE  sentAt'[d] <= o + StatusTimeout
  <2>1. pc[d] = "stamp" /\ sentAt'[d] = sentAt[d]
    BY <1>5 DEF Next, Tick, SignerSetsWait, vars, callVars, Start, StatusAnswers, StatusFails,
         StatusMalformed, CacheFetchedAt, CacheKnown, SizeRequest, AfterStatus, Drop, TypeOK
  <2> QED
    BY <2>1 DEF Origin
<1>6. Written' <=> Written
  BY DEF Written, Next, Tick, SignerSetsWait, vars, cacheVars, callVars, Start, StatusAnswers,
         StatusFails, StatusMalformed, CacheFetchedAt, CacheKnown, SizeRequest, AfterStatus, Drop,
         TypeOK
<1> QED
  BY <1>2, <1>3, <1>4, <1>5, <1>6 DEF Origin

-----------------------------------------------------------------------------
(* The sized requests. *)

(* A cache that is judged fresh holds what the signer used within the        *)
(* refresh interval and the latency (cachedApprovalWait).                    *)
LEMMA FreshCache ==
  ASSUME IInv, ~NeedsDiscovery
  PROVE  \E o \in Times : /\ now - (Refresh + Latency) <= o
                          /\ o <= now
                          /\ \E v \in log[o] : CachedWait = Clamp(v)
<1>1. PICK o \in Times : Origin(o)
  BY DEF IInv
<1>2. known /\ now - fetched <= Refresh /\ CachedWait = secs
  BY Durations DEF NeedsDiscovery, Stale, CachedWait, IInv, TypeOK, Times
<1>3. o <= now /\ \E v \in log[o] : CachedWait = Clamp(v)
  BY <1>1, <1>2 DEF Origin, Written
<1>4. now - (Refresh + Latency) <= o
  BY <1>1, <1>2, Durations DEF Origin, Latency, IInv, TypeOK, Times
<1> QED
  BY <1>3, <1>4

(* A call that sizes its request now. *)
LEMMA SizedNow ==
  ASSUME IInv, NEW c \in Callers, SizeRequest(c)
  PROVE  /\ sizedAt'[c] <= now'
         /\ used'[c] > 0 =>
              \E t \in Times : /\ sizedAt'[c] - (Refresh + Latency') <= t
                              /\ t <= sizedAt'[c]
                              /\ used'[c] \in log'[t]
         /\ excuse'[c] = "none" => GivesFullWait(c)'
<1>1. now \in Nat /\ Latency \in Nat /\ CachedWait \in Nat
  BY CachedWaitType, Durations DEF IInv, TypeOK, Times, Latency
<1>2. /\ now' = now /\ log' = log /\ Latency' = Latency
      /\ used'[c] = CachedWait /\ sizedAt'[c] = now
  BY DEF SizeRequest, IInv, TypeOK, Latency
<1>3. ASSUME used'[c] > 0
      PROVE  \E t \in Times : /\ sizedAt'[c] - (Refresh + Latency') <= t
                              /\ t <= sizedAt'[c]
                              /\ used'[c] \in log'[t]
  <2>1. ~NeedsDiscovery
    BY <1>2, <1>3 DEF NeedsDiscovery, CachedWait
  <2>2. PICK o \in Times : /\ now - (Refresh + Latency) <= o
                           /\ o <= now
                           /\ \E v \in log[o] : CachedWait = Clamp(v)
    BY <2>1, FreshCache
  <2>3. CachedWait \in log[o]
    BY <1>2, <1>3, <2>2 DEF Clamp
  <2> QED
    BY <1>2, <2>2, <2>3
<1>4. ASSUME excuse'[c] = "none"
      PROVE  GivesFullWait(c)'
  <2> SUFFICES ASSUME Explicit = 0, NEW w \in Waits, Usable(w),
                      \A t \in Times : now - (Refresh + Latency) <= t /\ t <= now => log[t] = {w}
               PROVE  timeout'[c] >= w + Slack
    BY <1>2 DEF GivesFullWait, Settled, Usable
  <2>1. ~NeedsDiscovery
    BY <1>4 DEF SizeRequest, IInv, TypeOK
  <2>2. PICK o \in Times : /\ now - (Refresh + Latency) <= o
                           /\ o <= now
                           /\ \E v \in log[o] : CachedWait = Clamp(v)
    BY <2>1, FreshCache
  <2>3. CachedWait = w
    BY <2>2 DEF Clamp
  <2>4. SignRequestTimeout(w) >= w + Slack /\ ComponentRequestTimeout(w) >= w + Slack
    BY FullTimeout, Durations DEF Usable
  <2>5. timeout'[c] \in {SignRequestTimeout(w), ComponentRequestTimeout(w)}
    BY <2>3 DEF SizeRequest, IInv, TypeOK
  <2> QED
    BY <2>4, <2>5
<1>5. sizedAt'[c] <= now'
  BY <1>1, <1>2
<1> QED
  BY <1>3, <1>4, <1>5

(* A call that sized its request before: what it was sized with is part of   *)
(* the past, and a later reconfiguration only unsettles the present instant. *)
LEMMA SizedBefore ==
  ASSUME IInv, [Next]_vars, NEW c \in Callers, pc'[c] = "sent", ~SizeRequest(c)
  PROVE  /\ sizedAt'[c] <= now'
         /\ used'[c] > 0 =>
              \E t \in Times : /\ sizedAt'[c] - (Refresh + Latency') <= t
                              /\ t <= sizedAt'[c]
                              /\ used'[c] \in log'[t]
         /\ excuse'[c] = "none" => GivesFullWait(c)'
<1>1. /\ pc[c] = "sent" /\ used'[c] = used[c] /\ timeout'[c] = timeout[c]
      /\ sizedAt'[c] = sizedAt[c] /\ excuse'[c] = excuse[c]
  BY DEF IInv, TypeOK, Next, Tick, SignerSetsWait, vars, callVars, Start, StatusAnswers,
         StatusFails, StatusMalformed, CacheApprovalWait, CacheSeconds, CacheFetchedAt,
         CacheKnown, SizeRequest, AfterStatus, Drop
<1>2. sdk' = sdk
  BY DEF Next, Tick, SignerSetsWait, vars, Start, StatusAnswers, StatusFails, StatusMalformed,
         CacheApprovalWait, CacheSeconds, CacheFetchedAt, CacheKnown, SizeRequest
<1>3. Latency' = Latency
  BY <1>2 DEF Latency
<1>4. /\ now <= now'
      /\ \A t \in Times : t <= now => log[t] \subseteq log'[t]
      /\ \A t \in Times : \A w : t <= now /\ log'[t] = {w} => log[t] = {w}
  BY HistoryStep DEF IInv
<1>5. sizedAt[c] <= now /\ sizedAt[c] \in Nat /\ now \in Nat /\ now' \in Nat
  BY <1>1, TypeStep, Durations DEF IInv, SizedRecent, TypeOK, Times
<1>6. \A t \in Times : t <= sizedAt[c] => t <= now
  BY <1>5, Durations DEF Times
<1>7. ASSUME used[c] > 0
      PROVE  \E t \in Times : /\ sizedAt[c] - (Refresh + Latency) <= t
                              /\ t <= sizedAt[c]
                              /\ used[c] \in log'[t]
  BY <1>1, <1>4, <1>6, <1>7 DEF IInv, UsedWasRecent
<1>8. ASSUME excuse[c] = "none"
      PROVE  GivesFullWait(c)'
  <2>1. GivesFullWait(c)
    BY <1>1, <1>8 DEF IInv, FullWaitUnlessStraddled
  <2> SUFFICES ASSUME Explicit = 0, NEW w \in Waits, Usable(w), Settled(c, w)'
               PROVE  timeout'[c] >= w + Slack
    BY DEF GivesFullWait, Usable
  <2>2. Settled(c, w)
    BY <1>1, <1>3, <1>4, <1>6 DEF Settled
  <2> QED
    BY <1>1, <2>1, <2>2 DEF GivesFullWait
<1> QED
  BY <1>1, <1>3, <1>4, <1>5, <1>7, <1>8

-----------------------------------------------------------------------------
(* The invariant. *)

LEMMA InitIInv == Init => IInv
<1> SUFFICES ASSUME Init PROVE IInv
  OBVIOUS
<1> USE Durations
<1>1. TypeOK
  <2>1. log \in [Times -> SUBSET Waits]
    BY DEF Init
  <2>2. pc \in [Callers -> PCs] /\ op \in [Callers -> Ops]
        /\ excuse \in [Callers -> {"none", "failed", "straddled"}]
    BY DEF Init, PCs, Ops
  <2>3. /\ answer \in [Callers -> {0} \union Waits] /\ timeout \in [Callers -> Nat]
        /\ sentAt \in [Callers -> Times] /\ sizedAt \in [Callers -> Times]
    BY DEF Init, Times
  <2>4. used \in [Callers -> {0} \union {w \in Waits : Usable(w)}]
    <3>1. \A S : 0 \in S => [c \in Callers |-> 0] \in [Callers -> S]
      OBVIOUS
    <3>2. 0 \in {0} \union {w \in Waits : Usable(w)}
      OBVIOUS
    <3>3. used = [c \in Callers |-> 0]
      BY DEF Init
    <3> QED
      BY <3>1, <3>2, <3>3
  <2>5. /\ sdk \in Sdks /\ now \in Times /\ wait \in Waits /\ fetched \in Times
        /\ secs = 0
    BY DEF Init, Times
  <2>6. known \in BOOLEAN
    BY Zenon DEF Init
  <2>7. secs \in {0} \union {w \in Waits : Usable(w)}
    BY <2>5
  <2> QED
    BY <2>1, <2>2, <2>3, <2>4, <2>5, <2>6, <2>7 DEF TypeOK
<1>2. wait \in log[now] /\ fetched <= now
  BY DEF Init, Times
<1>3. AtomicElsewhere /\ AnswerRecent /\ SizedRecent /\ UsedWasRecent
      /\ FullWaitUnlessStraddled
  BY DEF Init, AtomicElsewhere, AnswerRecent, SizedRecent, UsedWasRecent,
         FullWaitUnlessStraddled, Caching
<1>4. 0 \in Times /\ Origin(0)
  BY DEF Init, Origin, Written, Latency, Times
<1> QED
  BY <1>1, <1>2, <1>3, <1>4 DEF IInv

LEMMA NextIInv == IInv /\ [Next]_vars => IInv'
<1> SUFFICES ASSUME IInv, [Next]_vars PROVE IInv'
  OBVIOUS
<1>1. TypeOK /\ wait \in log[now] /\ fetched <= now /\ AtomicElsewhere /\ AnswerRecent
  BY DEF IInv
<1>2. TypeOK'
  BY <1>1, TypeStep
<1>3. (wait \in log[now])'
  BY <1>1, HistoryStep
<1>4. (fetched <= now)' /\ AtomicElsewhere' /\ AnswerRecent'
  BY <1>1, FetchedStep, AtomicStep, AnswerStep
<1>5. \E o \in Times : Origin(o)'
  <2>1. CASE \E c \in Callers : CacheApprovalWait(c) \/ CacheSeconds(c)
    <3>1. PICK c \in Callers : CacheApprovalWait(c) \/ CacheSeconds(c)
      BY <2>1
    <3>2. PICK o \in Times : o = sentAt[c]
      BY <1>1 DEF TypeOK
    <3> QED
      BY <1>1, <3>1, <3>2, OriginOfWrite
  <2>2. CASE \A c \in Callers : ~CacheApprovalWait(c) /\ ~CacheSeconds(c)
    <3>1. PICK o \in Times : Origin(o)
      BY DEF IInv
    <3> QED
      BY <1>1, <2>2, <3>1, OriginKept
  <2> QED
    BY <2>1, <2>2
<1>6. SizedRecent'
  BY SizedNow, SizedBefore DEF SizedRecent
<1>7. UsedWasRecent'
  BY SizedNow, SizedBefore DEF UsedWasRecent
<1>8. FullWaitUnlessStraddled'
  BY SizedNow, SizedBefore DEF FullWaitUnlessStraddled
<1> QED
  BY <1>2, <1>3, <1>4, <1>5, <1>6, <1>7, <1>8 DEF IInv

LEMMA Invariance == Spec => []IInv
BY InitIInv, NextIInv, PTL DEF Spec

(* The state of the clients and of the cache stays in its sets; above all,   *)
(* the cache never holds a wait beyond MAX_DISCOVERED_APPROVAL_WAIT.         *)
THEOREM TypeTheorem == Spec => []TypeOK
<1>1. IInv => TypeOK
  BY DEF IInv
<1> QED
  BY <1>1, Invariance, PTL

(* Whichever calls filled and read the cache, a request is sized with a wait *)
(* the signer used within the refresh interval and the latency of /status:   *)
(* one status request for Go and TypeScript, two for Python                  *)
(* (cachedApprovalWait, cacheApprovalWait).                                  *)
THEOREM RecentTheorem == Spec => []UsedWasRecent
<1>1. IInv => UsedWasRecent
  BY DEF IInv
<1> QED
  BY <1>1, Invariance, PTL

(* A request leaves the operator the signer's full wait unless the discovery *)
(* failed or the cache went stale between the check and its use              *)
(* (signRequestTimeout, componentRequestTimeout).                            *)
THEOREM FullWaitTheorem == Spec => []FullWaitUnlessStraddled
<1>1. IInv => FullWaitUnlessStraddled
  BY DEF IInv
<1> QED
  BY <1>1, Invariance, PTL
=============================================================================
