---------------------------- MODULE SignRequest ----------------------------
(***************************************************************************)
(* One signing request of a SignerClient, from the call to its return: the *)
(* /sign and /sign/component requests, their deadline, the operator's      *)
(* approval, and the /sign/cancel the SDK sends when it stops waiting.     *)
(*                                                                         *)
(* Go runs the request in the calling goroutine and a watcher goroutine    *)
(* beside it; both may send the cancel, through one sync.Once.  Python and *)
(* TypeScript send it from the calling thread after the request failed.    *)
(* Requests of one client share no state here (see ApprovalWait for the    *)
(* timeout they share), so the module follows one.                         *)
(*                                                                         *)
(* The signer and the network are external: messages may be lost, overtake *)
(* each other, or arrive after the client has stopped waiting.             *)
(***************************************************************************)
EXTENDS Naturals

CONSTANT Sdks   \* a subset of "go", "python", "typescript"

ASSUME SdkAssumption == Sdks \subseteq {"go", "python", "typescript"}

VARIABLES
  sdk,       \* the SDK of the client; never changes
  kind,      \* "sign", "component" (user or bounded part) or "cosigner"
  pc,        \* the caller
  ctx,       \* the request's context or timer: "live" or "ended"
  expired,   \* it ended while the call was running, not by the call's return
  why,       \* why the HTTP request failed
  done,      \* Go: the done channel is closed
  watch,     \* Go: the watcher goroutine
  once,      \* the one automatic cancel: "unused", "running", "used"
  autos,     \* automatic cancels sent (history)
  result,    \* what the call returned
  wire,      \* the request on its way
  answer,    \* the answer on its way
  cancelMsgs,\* cancels on their way
  appSent,   \* the application called CancelSignRequest itself
  sig,       \* the request at the signer
  fault      \* accidents that excuse an abandoned approval (history)

clientVars == <<kind, pc, ctx, expired, why, done, watch, once, autos, result>>
netVars    == <<wire, answer, cancelMsgs, appSent>>
vars == <<sdk, clientVars, netVars, sig, fault>>

Kinds == {"sign", "component", "cosigner"}

(* Cosigner components are signed without an operator. *)
ApprovalBearing == kind # "cosigner"

TypeOK ==
  /\ sdk \in Sdks
  /\ kind \in Kinds
  /\ pc \in {"idle", "discover", "ready", "do", "got", "failed", "check", "cancel",
             "canceling", "answer", "returned"}
  /\ ctx \in {"live", "ended"}
  /\ expired \in BOOLEAN
  /\ why \in {"none", "timeout", "disconnect"}
  /\ done \in BOOLEAN
  /\ watch \in {"none", "wait", "check", "send", "sending", "exit"}
  /\ once \in {"unused", "running", "used"}
  /\ autos \in 0..1
  /\ result \in {"none", "invalid", "signed", "refused", "error"}
  /\ wire \in {"none", "flying", "arrived", "lost"}
  /\ answer \in {"none", "flying", "read", "lost"}
  /\ cancelMsgs \in SUBSET {"auto", "app"}
  /\ appSent \in BOOLEAN
  /\ sig \in {"unseen", "pending", "signed", "refused", "canceled"}
  /\ fault \in SUBSET {"lost", "overtaken"}

Init ==
  /\ sdk \in Sdks
  /\ kind \in Kinds
  /\ pc = "idle"
  /\ ctx = "live"
  /\ expired = FALSE
  /\ why = "none"
  /\ done = FALSE
  /\ watch = "none"
  /\ once = "unused"
  /\ autos = 0
  /\ result = "none"
  /\ wire = "none"
  /\ answer = "none"
  /\ cancelMsgs = {}
  /\ appSent = FALSE
  /\ sig = "unseen"
  /\ fault = {}

-----------------------------------------------------------------------------
(* The call. *)

(* The call returns; in Go the deferred cancel() ends the context. *)
Return(r) ==
  /\ pc' = "returned"
  /\ result' = r
  /\ ctx' = IF sdk = "go" THEN "ended" ELSE ctx

(* A request that does not validate is refused before anything is sent. *)
Invalid ==
  /\ pc = "idle"
  /\ pc' = "returned"
  /\ result' = "invalid"
  /\ UNCHANGED <<sdk, kind, ctx, expired, why, done, watch, once, autos, netVars, sig, fault>>

Begin ==
  /\ pc = "idle"
  /\ pc' = "discover"
  /\ UNCHANGED <<sdk, kind, ctx, expired, why, done, watch, once, autos, result, netVars, sig, fault>>

(* discoverApprovalWait has come back, with or without a /status answer; Go *)
(* starts the watcher.                                                      *)
Discover ==
  /\ pc = "discover"
  /\ pc' = "ready"
  /\ watch' = IF sdk = "go" /\ ApprovalBearing THEN "wait" ELSE "none"
  /\ UNCHANGED <<sdk, kind, ctx, expired, why, done, once, autos, result, netVars, sig, fault>>

(* The deadline passes or the caller gives up.  A Go context covers the call *)
(* to its end; a TypeScript signal and timer are detached once the headers   *)
(* are in; Python's timeout is the HTTP library's.                           *)
Watched ==
  CASE sdk = "go"         -> pc \notin {"idle", "returned"}
    [] sdk = "typescript" -> pc \in {"discover", "ready", "do"}
    [] sdk = "python"     -> pc = "do"

Expire ==
  /\ Watched
  /\ ctx = "live"
  /\ ctx' = "ended"
  /\ expired' = TRUE
  /\ UNCHANGED <<sdk, kind, pc, why, done, watch, once, autos, result, netVars, sig, fault>>

(* http.NewRequest refuses the URL after the watcher was started. *)
NewRequestFails ==
  /\ sdk = "go"
  /\ pc = "ready"
  /\ done' = TRUE
  /\ Return("error")
  /\ UNCHANGED <<sdk, kind, expired, why, watch, once, autos, netVars, sig, fault>>

(* A request whose context has already ended is not sent. *)
Send ==
  /\ pc = "ready"
  /\ ctx = "live"
  /\ pc' = "do"
  /\ wire' = "flying"
  /\ UNCHANGED <<sdk, kind, ctx, expired, why, done, watch, once, autos, result,
                 answer, cancelMsgs, appSent, sig, fault>>

DoOk ==
  /\ pc = "do"
  /\ answer = "flying"
  /\ answer' = "read"
  /\ pc' = "got"
  /\ UNCHANGED <<sdk, kind, ctx, expired, why, done, watch, once, autos, result,
                 wire, cancelMsgs, appSent, sig, fault>>

(* The HTTP request fails at its deadline, perhaps before it was sent, ... *)
DoTimesOut ==
  /\ pc \in {"ready", "do"}
  /\ ctx = "ended"
  /\ why' = "timeout"
  /\ pc' = "failed"
  /\ UNCHANGED <<sdk, kind, ctx, expired, done, watch, once, autos, result, netVars, sig, fault>>

(* ... or because the connection broke. *)
DoDisconnects ==
  /\ pc = "do"
  /\ why' = "disconnect"
  /\ pc' = "failed"
  /\ UNCHANGED <<sdk, kind, ctx, expired, done, watch, once, autos, result, netVars, sig, fault>>

(* Go closes done as soon as the request is back. *)
CloseDone ==
  /\ sdk = "go"
  /\ pc \in {"got", "failed"}
  /\ done' = TRUE
  /\ pc' = IF pc = "got" THEN "answer" ELSE "check"
  /\ UNCHANGED <<sdk, kind, ctx, expired, why, watch, once, autos, result, netVars, sig, fault>>

(* Bug: a timed-out caller leaves the cancel to the watcher. *)
CheckContextLeavesWatcher ==
  /\ pc = "check"
  /\ Return("error")
  /\ UNCHANGED <<sdk, kind, expired, why, done, watch, once, autos, netVars, sig, fault>>

(* Go cancels when the context ended, not when the connection broke. *)
CheckContext ==
  /\ pc = "check"
  /\ IF ctx = "ended" /\ ApprovalBearing
     THEN pc' = "cancel" /\ UNCHANGED <<result, ctx>>
     ELSE Return("error")
  /\ UNCHANGED <<sdk, kind, expired, why, done, watch, once, autos, netVars, sig, fault>>

(* Bug: a request that failed is reported and not cancelled. *)
ResumeSilently ==
  /\ sdk # "go"
  /\ \/ pc = "got" /\ pc' = "answer" /\ UNCHANGED <<result, ctx>>
     \/ pc = "failed" /\ Return("error")
  /\ UNCHANGED <<sdk, kind, expired, why, done, watch, once, autos, netVars, sig, fault>>

(* Bug: only a timeout is cancelled, as in Go. *)
ResumeTimeoutOnly ==
  /\ sdk # "go"
  /\ \/ pc = "got" /\ pc' = "answer" /\ UNCHANGED <<result, ctx>>
     \/ pc = "failed" /\ why = "timeout" /\ ApprovalBearing /\ pc' = "cancel"
                      /\ UNCHANGED <<result, ctx>>
     \/ pc = "failed" /\ (why = "disconnect" \/ ~ApprovalBearing) /\ Return("error")
  /\ UNCHANGED <<sdk, kind, expired, why, done, watch, once, autos, netVars, sig, fault>>

(* Python and TypeScript go on at once: to the answer, or to the cancel. *)
Resume ==
  /\ sdk # "go"
  /\ \/ pc = "got" /\ pc' = "answer" /\ UNCHANGED <<result, ctx>>
     \/ pc = "failed" /\ ApprovalBearing /\ pc' = "cancel" /\ UNCHANGED <<result, ctx>>
     \/ pc = "failed" /\ ~ApprovalBearing /\ Return("error")
  /\ UNCHANGED <<sdk, kind, expired, why, done, watch, once, autos, netVars, sig, fault>>

(* Bug: no sync.Once. *)
SendCancelTwice ==
  /\ once' = "running"
  /\ cancelMsgs' = cancelMsgs \union {"auto"}
  /\ autos' = autos + 1

(* sendCancel: cancelOnce.Do, or the one bestEffortCancelSignRequest. *)
SendCancel ==
  /\ once = "unused"
  /\ once' = "running"
  /\ cancelMsgs' = cancelMsgs \union {"auto"}
  /\ autos' = autos + 1

CallerCancel ==
  /\ pc = "cancel"
  /\ \/ SendCancel /\ pc' = "canceling" /\ UNCHANGED <<result, ctx>>
     \/ once = "used" /\ Return("error") /\ UNCHANGED <<once, cancelMsgs, autos>>
  /\ UNCHANGED <<sdk, kind, expired, why, done, watch, wire, answer, appSent, sig, fault>>

(* The cancel is answered, fails or times out: all the same to the caller. *)
CallerCancelReturns ==
  /\ pc = "canceling"
  /\ once' = "used"
  /\ Return("error")
  /\ UNCHANGED <<sdk, kind, expired, why, done, watch, autos, netVars, sig, fault>>

(* Bug: the cancel is sent in a finally block. *)
ReadAnswerCancels ==
  /\ pc = "answer"
  /\ \/ sig = "signed" /\ Return("signed")
     \/ sig \in {"refused", "canceled"} /\ Return("refused")
     \/ Return("error")
  /\ autos' = 1
  /\ UNCHANGED <<sdk, kind, expired, why, done, watch, once, netVars, sig, fault>>

(* The answer is read: a signature list that passes                          *)
(* validateGroupSignResponse, a refusal, or something unusable (a truncated  *)
(* body, a context that ended under the decoder, empty slots).               *)
ReadAnswer ==
  /\ pc = "answer"
  /\ \/ sig = "signed" /\ Return("signed")
     \/ sig \in {"refused", "canceled"} /\ Return("refused")
     \/ Return("error")
  /\ UNCHANGED <<sdk, kind, expired, why, done, watch, once, autos, netVars, sig, fault>>

-----------------------------------------------------------------------------
(* Go's watcher goroutine. *)

(* The first select: when both channels are ready, either may be taken. *)
WatchWake ==
  /\ watch = "wait"
  /\ \/ done /\ watch' = "exit"
     \/ ctx = "ended" /\ watch' = "check"
  /\ UNCHANGED <<sdk, kind, pc, ctx, expired, why, done, once, autos, result, netVars, sig, fault>>

(* Bug: no second select. *)
WatchNoCheck ==
  /\ watch = "check"
  /\ watch' = "send"
  /\ UNCHANGED <<sdk, kind, pc, ctx, expired, why, done, once, autos, result, netVars, sig, fault>>

(* The second select: the request may have finished in the same instant. *)
WatchCheck ==
  /\ watch = "check"
  /\ watch' = IF done THEN "exit" ELSE "send"
  /\ UNCHANGED <<sdk, kind, pc, ctx, expired, why, done, once, autos, result, netVars, sig, fault>>

WatchSend ==
  /\ watch = "send"
  /\ \/ SendCancel /\ watch' = "sending"
     \/ once = "used" /\ watch' = "exit" /\ UNCHANGED <<once, cancelMsgs, autos>>
  /\ UNCHANGED <<sdk, kind, pc, ctx, expired, why, done, result, wire, answer, appSent, sig, fault>>

(* Bug: the Once is never released to the caller that waits for it. *)
WatchNeverReleases ==
  /\ watch = "sending"
  /\ watch' = "exit"
  /\ UNCHANGED <<sdk, kind, pc, ctx, expired, why, done, once, autos, result, netVars, sig, fault>>

WatchSendReturns ==
  /\ watch = "sending"
  /\ once' = "used"
  /\ watch' = "exit"
  /\ UNCHANGED <<sdk, kind, pc, ctx, expired, why, done, autos, result, netVars, sig, fault>>

-----------------------------------------------------------------------------
(* The application, the network and the signer. *)

(* CancelSignRequest with the request's ID, from another thread. *)
AppCancel ==
  /\ pc \notin {"idle", "returned"}
  /\ ~appSent
  /\ appSent' = TRUE
  /\ cancelMsgs' = cancelMsgs \union {"app"}
  /\ UNCHANGED <<sdk, clientVars, wire, answer, sig, fault>>

(* /sign reaches the signer: queued for the operator, or signed by policy. *)
SignArrives ==
  /\ wire = "flying"
  /\ wire' = "arrived"
  /\ \/ ApprovalBearing /\ sig' = "pending" /\ UNCHANGED answer
     \/ sig' = "signed" /\ answer' = "flying"
  /\ UNCHANGED <<sdk, clientVars, cancelMsgs, appSent, fault>>

WireLost ==
  /\ wire = "flying"
  /\ wire' = "lost"
  /\ UNCHANGED <<sdk, clientVars, answer, cancelMsgs, appSent, sig, fault>>

(* The operator decides, or the signer's own approval wait runs out. *)
OperatorDecides ==
  /\ sig = "pending"
  /\ sig' \in {"signed", "refused"}
  /\ answer' = "flying"
  /\ UNCHANGED <<sdk, clientVars, wire, cancelMsgs, appSent, fault>>

(* /sign/cancel reaches the signer: "canceled", or "not_found". *)
CancelArrives(m) ==
  /\ m \in cancelMsgs
  /\ cancelMsgs' = cancelMsgs \ {m}
  /\ IF sig = "pending"
     THEN sig' = "canceled" /\ answer' = "flying"
     ELSE UNCHANGED <<sig, answer>>
  /\ fault' = fault \union IF m = "auto" /\ wire = "flying" THEN {"overtaken"} ELSE {}
  /\ UNCHANGED <<sdk, clientVars, wire, appSent>>

CancelLost(m) ==
  /\ m \in cancelMsgs
  /\ cancelMsgs' = cancelMsgs \ {m}
  /\ fault' = fault \union IF m = "auto" THEN {"lost"} ELSE {}
  /\ UNCHANGED <<sdk, clientVars, wire, answer, appSent, sig>>

AnswerLost ==
  /\ answer = "flying"
  /\ answer' = "lost"
  /\ UNCHANGED <<sdk, clientVars, wire, cancelMsgs, appSent, sig, fault>>

-----------------------------------------------------------------------------
Caller ==
  \/ Begin \/ Discover \/ Send \/ DoOk \/ DoTimesOut \/ CloseDone \/ CheckContext \/ Resume
  \/ CallerCancel \/ CallerCancelReturns \/ ReadAnswer

Watcher == WatchWake \/ WatchCheck \/ WatchSend \/ WatchSendReturns

Network ==
  \/ AppCancel \/ SignArrives \/ WireLost \/ OperatorDecides \/ AnswerLost
  \/ \E m \in {"auto", "app"} : CancelArrives(m) \/ CancelLost(m)

Next ==
  \/ Invalid \/ NewRequestFails \/ Expire \/ DoDisconnects
  \/ Caller \/ Watcher \/ Network

Spec == Init /\ [][Next]_vars

(* A running goroutine or thread goes on, a deadline arrives, and a request *)
(* whose deadline has passed returns: every request has a timeout, and so   *)
(* has the cancel.  Nothing is assumed of the network, the signer or the    *)
(* operator.                                                                *)
FairSpec == Spec /\ WF_vars(Expire) /\ WF_vars(Caller) /\ WF_vars(Watcher)

-----------------------------------------------------------------------------
(* An automatic cancel is sent only if the wait was cut short while the call *)
(* ran: by the deadline or the caller in Go, by a failed request elsewhere.  *)
(* The end of the context at the call's own return never causes one.         *)
CancelOnlyIfLapsed ==
  autos > 0 => expired \/ (sdk # "go" /\ why = "disconnect")

(* A call that gave up at its deadline has sent exactly one cancel, and has  *)
(* waited for it: in Go the caller blocks on the watcher's sync.Once.        *)
TimeoutCancelsOnce ==
  /\ autos <= 1
  /\ pc = "returned" /\ why = "timeout" /\ ApprovalBearing => autos = 1 /\ once = "used"

(* No automatic cancel for a request that returned signatures ("cannot fire  *)
(* a spurious cancel for a request the server already processed").           *)
NoSpuriousCancel == result = "signed" => autos = 0

(* Such a cancel is Go's alone, and only at the deadline: the watcher has    *)
(* looked at done for the second time when the answer comes in.              *)
SpuriousOnlyInGo == ~NoSpuriousCancel => sdk = "go" /\ expired

(* A request left waiting for an operator after its call returned has one of *)
(* four excuses: its cancel is under way, was lost, overtook the request, or *)
(* Go saw the connection break before the context ended.                     *)
NoOrphanApproval ==
  pc = "returned" /\ sig = "pending" =>
    \/ "auto" \in cancelMsgs
    \/ fault # {}
    \/ sdk = "go" /\ why = "disconnect"

(* Every call returns, whatever the network and the operator do. *)
EveryCallReturns == (pc # "idle") ~> (pc = "returned")

-----------------------------------------------------------------------------
(* The inductive invariant behind these. *)

(* The one automatic cancel is counted, and someone holds it while it runs; *)
OnceExact ==
  /\ once = "unused" <=> autos = 0
  /\ pc = "canceling" => once = "running" /\ watch # "sending"
  /\ watch = "sending" => once = "running"

(* only a request waiting for an operator has a watcher or a cancel, *)
OnlyApprovals ==
  /\ watch # "none" => sdk = "go" /\ ApprovalBearing /\ pc \notin {"idle", "discover"}
  /\ pc \in {"cancel", "canceling"} => ApprovalBearing
  /\ autos > 0 => pc \notin {"idle", "discover"}

(* a request failed for a reason, *)
ReasonKnown ==
  /\ pc \in {"idle", "discover", "ready", "do", "got", "answer"} => why = "none"
  /\ pc \in {"failed", "check", "cancel", "canceling"} => why # "none"
  /\ why = "timeout" => ctx = "ended" /\ expired
  /\ pc = "check" => sdk = "go"
  /\ sdk = "go" /\ pc \in {"cancel", "canceling"} => expired
  /\ result = "none" <=> pc # "returned"
  /\ result \in {"signed", "refused"} => why = "none"

(* and Go's context ended before its time wherever the watcher acts on it. *)
WatcherExact ==
  /\ ctx = "ended" => expired \/ pc = "returned"
  /\ sdk = "go" /\ pc \in {"answer", "check", "cancel", "canceling"} => done
  /\ pc = "returned" /\ watch # "none" => done
  /\ watch \in {"check", "send", "sending"} => ctx = "ended"
  /\ watch \in {"send", "sending"} => expired

IInv == TypeOK /\ OnceExact /\ OnlyApprovals /\ ReasonKnown /\ WatcherExact
        /\ CancelOnlyIfLapsed /\ TimeoutCancelsOnce

(* For SpuriousOnlyInGo: without a watcher only a failed request is cancelled. *)
FailedFirst == sdk # "go" /\ autos > 0 => why # "none"

(* For NoOrphanApproval: the request, its answer and its cancel agree with  *)
(* the signer's state,                                                      *)
MessagesExact ==
  /\ wire # "arrived" => sig = "unseen"
  /\ sig = "pending" => ApprovalBearing /\ answer = "none"
  /\ answer # "none" => sig \in {"signed", "refused", "canceled"}
  /\ pc \in {"got", "answer"} => answer = "read"
  /\ pc \in {"idle", "discover", "ready"} => wire = "none"
  /\ autos > 0 /\ pc = "ready" => ctx = "ended"
  /\ pc = "returned" /\ wire = "none" => sig = "unseen"

(* a cancel that did its work leaves nothing pending or on its way, *)
CancelExact ==
  autos > 0 /\ "auto" \notin cancelMsgs /\ fault = {} => sig # "pending" /\ wire # "flying"

(* and a call that returned with its request still open has cancelled. *)
OpenExact ==
  pc = "returned" /\ ApprovalBearing /\ (wire = "flying" \/ sig = "pending") =>
    autos > 0 \/ (sdk = "go" /\ why = "disconnect")

OrphanInv == IInv /\ MessagesExact /\ CancelExact /\ OpenExact

-----------------------------------------------------------------------------
(* The request implements the abstract call. *)
Outcome ==
  CASE result \in {"signed", "refused"} -> "answered"
    [] result = "none" -> "none"
    [] result = "error" /\ why = "timeout" -> "timedout"
    [] OTHER -> "failed"

Abstract == INSTANCE SignCall WITH
  cancellable <- ApprovalBearing,
  phase   <- IF pc = "idle" THEN "idle" ELSE IF pc = "returned" THEN "closed" ELSE "open",
  lapsed  <- expired \/ why = "disconnect",
  cancels <- autos,
  outcome <- Outcome

(* Every step of the request is a step the abstract call allows. *)
ImplementsSignCall == Abstract!Spec
=============================================================================
