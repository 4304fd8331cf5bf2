------------------------ MODULE SignRequestProofs ------------------------
(***************************************************************************)
(* Theorems about SignRequest: one automatic cancel, only for a wait that  *)
(* lapsed, and the refinement of SignCall, for each of the three SDKs.     *)
(***************************************************************************)
EXTENDS SignRequest, TLAPS

USE DEF clientVars, netVars

-----------------------------------------------------------------------------
(* The inductive invariant holds initially ... *)
LEMMA InitIInv == Init => IInv
<1> SUFFICES ASSUME Init PROVE IInv
  OBVIOUS
<1>a. autos \in 0..1
  BY DEF Init
<1>b. expired \in BOOLEAN /\ done \in BOOLEAN /\ appSent \in BOOLEAN
  BY DEF Init
<1>1. TypeOK
  BY <1>a, <1>b DEF Init, TypeOK
<1>2. OnceExact /\ OnlyApprovals /\ ReasonKnown /\ WatcherExact
  BY DEF Init, OnceExact, OnlyApprovals, ReasonKnown, WatcherExact
<1>3. CancelOnlyIfLapsed /\ TimeoutCancelsOnce
  BY DEF Init, CancelOnlyIfLapsed, TimeoutCancelsOnce
<1> QED BY <1>1, <1>2, <1>3 DEF IInv

(* ... and every step keeps it. *)
LEMMA CallerKeeps ==
  ASSUME IInv, Caller
  PROVE  IInv'
<1>1. CASE Begin
  BY <1>1 DEF Begin, IInv, TypeOK, OnceExact, OnlyApprovals, ReasonKnown, WatcherExact,
         CancelOnlyIfLapsed, TimeoutCancelsOnce, Kinds, ApprovalBearing
<1>2. CASE Discover
  BY <1>2 DEF Discover, IInv, TypeOK, OnceExact, OnlyApprovals, ReasonKnown, WatcherExact,
         CancelOnlyIfLapsed, TimeoutCancelsOnce, Kinds, ApprovalBearing
<1>3. CASE Send
  BY <1>3 DEF Send, IInv, TypeOK, OnceExact, OnlyApprovals, ReasonKnown, WatcherExact,
         CancelOnlyIfLapsed, TimeoutCancelsOnce, Kinds, ApprovalBearing
<1>4. CASE DoOk
  BY <1>4 DEF DoOk, IInv, TypeOK, OnceExact, OnlyApprovals, ReasonKnown, WatcherExact,
         CancelOnlyIfLapsed, TimeoutCancelsOnce, Kinds, ApprovalBearing
<1>5. CASE DoTimesOut
  BY <1>5 DEF DoTimesOut, IInv, TypeOK, OnceExact, OnlyApprovals, ReasonKnown, WatcherExact,
         CancelOnlyIfLapsed, TimeoutCancelsOnce, Kinds, ApprovalBearing
<1>6. CASE CloseDone
  BY <1>6 DEF CloseDone, IInv, TypeOK, OnceExact, OnlyApprovals, ReasonKnown, WatcherExact,
         CancelOnlyIfLapsed, TimeoutCancelsOnce, Kinds, ApprovalBearing
<1>7. CASE CheckContext
  BY <1>7 DEF CheckContext, Return, IInv, TypeOK, OnceExact, OnlyApprovals, ReasonKnown, WatcherExact,
         CancelOnlyIfLapsed, TimeoutCancelsOnce, Kinds, ApprovalBearing
<1>8. CASE Resume
  BY <1>8 DEF Resume, Return, IInv, TypeOK, OnceExact, OnlyApprovals, ReasonKnown, WatcherExact,
         CancelOnlyIfLapsed, TimeoutCancelsOnce, Kinds, ApprovalBearing
<1>9. CASE CallerCancel
  <2>1. cancelMsgs' \in SUBSET {"auto", "app"}
    BY <1>9 DEF CallerCancel, SendCancel, IInv, TypeOK
  <2>2. once' # "unused" /\ autos' = 1
    BY <1>9 DEF CallerCancel, SendCancel, IInv, TypeOK, OnceExact
  <2> QED BY <1>9, <2>1, <2>2 DEF CallerCancel, Return, SendCancel, IInv, TypeOK, OnceExact, OnlyApprovals, ReasonKnown, WatcherExact,
           CancelOnlyIfLapsed, TimeoutCancelsOnce, Kinds, ApprovalBearing
<1>10. CASE CallerCancelReturns
  BY <1>10 DEF CallerCancelReturns, Return, IInv, TypeOK, OnceExact, OnlyApprovals, ReasonKnown, WatcherExact,
         CancelOnlyIfLapsed, TimeoutCancelsOnce, Kinds, ApprovalBearing
<1>11. CASE ReadAnswer
  BY <1>11 DEF ReadAnswer, Return, IInv, TypeOK, OnceExact, OnlyApprovals, ReasonKnown, WatcherExact,
         CancelOnlyIfLapsed, TimeoutCancelsOnce, Kinds, ApprovalBearing
<1> QED BY <1>1, <1>2, <1>3, <1>4, <1>5, <1>6, <1>7, <1>8, <1>9, <1>10, <1>11 DEF Caller

LEMMA WatcherKeeps ==
  ASSUME IInv, Watcher
  PROVE  IInv'
<1>1. CASE WatchWake
  BY <1>1 DEF WatchWake, IInv, TypeOK, OnceExact, OnlyApprovals, ReasonKnown, WatcherExact,
         CancelOnlyIfLapsed, TimeoutCancelsOnce, Kinds, ApprovalBearing
<1>2. CASE WatchCheck
  BY <1>2 DEF WatchCheck, IInv, TypeOK, OnceExact, OnlyApprovals, ReasonKnown, WatcherExact,
         CancelOnlyIfLapsed, TimeoutCancelsOnce, Kinds, ApprovalBearing
<1>3. CASE WatchSend
  <2>1. cancelMsgs' \in SUBSET {"auto", "app"}
    BY <1>3 DEF WatchSend, SendCancel, IInv, TypeOK
  <2>2. once' # "unused" /\ autos' = 1
    BY <1>3 DEF WatchSend, SendCancel, IInv, TypeOK, OnceExact
  <2> QED BY <1>3, <2>1, <2>2 DEF WatchSend, SendCancel, IInv, TypeOK, OnceExact, OnlyApprovals, ReasonKnown, WatcherExact,
           CancelOnlyIfLapsed, TimeoutCancelsOnce, Kinds, ApprovalBearing
<1>4. CASE WatchSendReturns
  BY <1>4 DEF WatchSendReturns, IInv, TypeOK, OnceExact, OnlyApprovals, ReasonKnown, WatcherExact,
         CancelOnlyIfLapsed, TimeoutCancelsOnce, Kinds, ApprovalBearing
<1> QED BY <1>1, <1>2, <1>3, <1>4 DEF Watcher

LEMMA NetworkKeeps ==
  ASSUME IInv, Network
  PROVE  IInv'
<1>1. CASE AppCancel
  BY <1>1 DEF AppCancel, IInv, TypeOK, OnceExact, OnlyApprovals, ReasonKnown, WatcherExact,
         CancelOnlyIfLapsed, TimeoutCancelsOnce, Kinds, ApprovalBearing
<1>2. CASE SignArrives
  BY <1>2 DEF SignArrives, IInv, TypeOK, OnceExact, OnlyApprovals, ReasonKnown, WatcherExact,
         CancelOnlyIfLapsed, TimeoutCancelsOnce, Kinds, ApprovalBearing
<1>3. CASE WireLost
  BY <1>3 DEF WireLost, IInv, TypeOK, OnceExact, OnlyApprovals, ReasonKnown, WatcherExact,
         CancelOnlyIfLapsed, TimeoutCancelsOnce, Kinds, ApprovalBearing
<1>4. CASE OperatorDecides
  BY <1>4 DEF OperatorDecides, IInv, TypeOK, OnceExact, OnlyApprovals, ReasonKnown, WatcherExact,
         CancelOnlyIfLapsed, TimeoutCancelsOnce, Kinds, ApprovalBearing
<1>5. CASE AnswerLost
  BY <1>5 DEF AnswerLost, IInv, TypeOK, OnceExact, OnlyApprovals, ReasonKnown, WatcherExact,
         CancelOnlyIfLapsed, TimeoutCancelsOnce, Kinds, ApprovalBearing
<1>6. ASSUME NEW m \in {"auto", "app"}, CancelArrives(m)
      PROVE  IInv'
  BY <1>6 DEF CancelArrives, IInv, TypeOK, OnceExact, OnlyApprovals, ReasonKnown, WatcherExact,
         CancelOnlyIfLapsed, TimeoutCancelsOnce, Kinds, ApprovalBearing
<1>7. ASSUME NEW m \in {"auto", "app"}, CancelLost(m)
      PROVE  IInv'
  BY <1>7 DEF CancelLost, IInv, TypeOK, OnceExact, OnlyApprovals, ReasonKnown, WatcherExact,
         CancelOnlyIfLapsed, TimeoutCancelsOnce, Kinds, ApprovalBearing
<1> QED BY <1>1, <1>2, <1>3, <1>4, <1>5, <1>6, <1>7, Network DEF Network

LEMMA NextKeeps ==
  ASSUME IInv, [Next]_vars
  PROVE  IInv'
<1>1. CASE Invalid
  BY <1>1 DEF Invalid, IInv, TypeOK, OnceExact, OnlyApprovals, ReasonKnown, WatcherExact,
         CancelOnlyIfLapsed, TimeoutCancelsOnce, Kinds, ApprovalBearing
<1>2. CASE NewRequestFails
  BY <1>2 DEF NewRequestFails, Return, IInv, TypeOK, OnceExact, OnlyApprovals, ReasonKnown, WatcherExact,
         CancelOnlyIfLapsed, TimeoutCancelsOnce, Kinds, ApprovalBearing
<1>3. CASE Expire
  BY <1>3 DEF Expire, Watched, IInv, TypeOK, OnceExact, OnlyApprovals, ReasonKnown, WatcherExact,
         CancelOnlyIfLapsed, TimeoutCancelsOnce, Kinds, ApprovalBearing
<1>4. CASE DoDisconnects
  BY <1>4 DEF DoDisconnects, IInv, TypeOK, OnceExact, OnlyApprovals, ReasonKnown, WatcherExact,
         CancelOnlyIfLapsed, TimeoutCancelsOnce, Kinds, ApprovalBearing
<1>5. CASE UNCHANGED vars
  BY <1>5 DEF vars, IInv, TypeOK, OnceExact, OnlyApprovals, ReasonKnown, WatcherExact,
         CancelOnlyIfLapsed, TimeoutCancelsOnce, Kinds, ApprovalBearing
<1> QED BY <1>1, <1>2, <1>3, <1>4, <1>5, CallerKeeps, WatcherKeeps, NetworkKeeps DEF Next

-----------------------------------------------------------------------------
LEMMA Invariance == Spec => []IInv
<1>1. IInv /\ [Next]_vars => IInv'
  BY NextKeeps
<1> QED BY InitIInv, <1>1, PTL DEF Spec

-----------------------------------------------------------------------------
(* Every call: at most one automatic cancel, exactly one and waited for if   *)
(* the call gave up at its deadline.                                         *)
THEOREM CancelTheorem == Spec => []TimeoutCancelsOnce
<1>1. IInv => TimeoutCancelsOnce
  BY DEF IInv
<1> QED BY Invariance, <1>1, PTL

(* No cancel unless the wait was cut short while the call ran; in Go, not by *)
(* the deferred cancel() at the call's own return.                           *)
THEOREM LapseTheorem == Spec => []CancelOnlyIfLapsed
<1>1. IInv => CancelOnlyIfLapsed
  BY DEF IInv
<1> QED BY Invariance, <1>1, PTL

(* The state of the request, its messages and the signer keeps its types. *)
THEOREM TypeTheorem == Spec => []TypeOK
<1>1. IInv => TypeOK
  BY DEF IInv
<1> QED BY Invariance, <1>1, PTL

(* Only the calling thread and Go's watcher send the cancel, and without a    *)
(* watcher the request has failed by then.                                    *)
LEMMA FailedFirstKept ==
  ASSUME IInv, FailedFirst, [Next]_vars
  PROVE  FailedFirst'
<1> USE DEF FailedFirst
<1>1. CASE CallerCancel
  BY <1>1 DEF CallerCancel, IInv, ReasonKnown
<1>2. CASE WatchSend
  BY <1>2 DEF WatchSend, IInv, OnlyApprovals
<1>3. CASE Caller /\ ~CallerCancel
  BY <1>3 DEF Caller, Begin, Discover, Send, DoOk, DoTimesOut, CloseDone, CheckContext, Resume,
              CallerCancelReturns, ReadAnswer
<1>4. CASE Watcher /\ ~WatchSend
  BY <1>4 DEF Watcher, WatchWake, WatchCheck, WatchSendReturns
<1>5. CASE Network
  BY <1>5 DEF Network, AppCancel, SignArrives, WireLost, OperatorDecides, AnswerLost,
              CancelArrives, CancelLost
<1>6. CASE Invalid \/ NewRequestFails \/ Expire \/ DoDisconnects \/ UNCHANGED vars
  BY <1>6 DEF Invalid, NewRequestFails, Expire, DoDisconnects, vars
<1> QED BY <1>1, <1>2, <1>3, <1>4, <1>5, <1>6 DEF Next

(* A cancel for a request that returned signatures is Go's alone, and only for  *)
(* one whose deadline passed: the second look at done leaves no other gap.      *)
THEOREM SpuriousTheorem == Spec => []SpuriousOnlyInGo
<1>1. Init => FailedFirst
  BY DEF Init, FailedFirst
<1>2. IInv /\ FailedFirst /\ [Next]_vars => FailedFirst'
  BY FailedFirstKept
<1>3. IInv /\ FailedFirst => SpuriousOnlyInGo
  BY DEF IInv, FailedFirst, TypeOK, ReasonKnown, CancelOnlyIfLapsed, SpuriousOnlyInGo, NoSpuriousCancel
<1> QED BY Invariance, <1>1, <1>2, <1>3, PTL DEF Spec

-----------------------------------------------------------------------------
(* No approval is left behind without an excuse. *)

(* Initially nothing has been sent. *)
LEMMA InitOrphan == Init => OrphanInv
BY InitIInv DEF Init, OrphanInv, MessagesExact, CancelExact, OpenExact

(* Each step keeps the messages, the cancel and the signer in agreement. *)
LEMMA NextOrphan ==
  ASSUME OrphanInv, IInv', [Next]_vars
  PROVE  OrphanInv'
<1> SUFFICES (MessagesExact /\ CancelExact /\ OpenExact)'
  BY DEF OrphanInv
<1>1. CASE Begin
  BY <1>1 DEF Begin, OrphanInv, MessagesExact, CancelExact, OpenExact, IInv, TypeOK,
         OnceExact, OnlyApprovals, ReasonKnown, WatcherExact, TimeoutCancelsOnce, ApprovalBearing
<1>2. CASE Discover
  BY <1>2 DEF Discover, OrphanInv, MessagesExact, CancelExact, OpenExact, IInv, TypeOK,
         OnceExact, OnlyApprovals, ReasonKnown, WatcherExact, TimeoutCancelsOnce, ApprovalBearing
<1>3. CASE Send
  BY <1>3 DEF Send, OrphanInv, MessagesExact, CancelExact, OpenExact, IInv, TypeOK,
         OnceExact, OnlyApprovals, ReasonKnown, WatcherExact, TimeoutCancelsOnce, ApprovalBearing
<1>4. CASE DoOk
  BY <1>4 DEF DoOk, OrphanInv, MessagesExact, CancelExact, OpenExact, IInv, TypeOK,
         OnceExact, OnlyApprovals, ReasonKnown, WatcherExact, TimeoutCancelsOnce, ApprovalBearing
<1>5. CASE DoTimesOut
  BY <1>5 DEF DoTimesOut, OrphanInv, MessagesExact, CancelExact, OpenExact, IInv, TypeOK,
         OnceExact, OnlyApprovals, ReasonKnown, WatcherExact, TimeoutCancelsOnce, ApprovalBearing
<1>6. CASE CloseDone
  BY <1>6 DEF CloseDone, OrphanInv, MessagesExact, CancelExact, OpenExact, IInv, TypeOK,
         OnceExact, OnlyApprovals, ReasonKnown, WatcherExact, TimeoutCancelsOnce, ApprovalBearing
<1>7. CASE CheckContext
  BY <1>7, SdkAssumption DEF CheckContext, Return, OrphanInv, MessagesExact, CancelExact, OpenExact, IInv, TypeOK,
         OnceExact, OnlyApprovals, ReasonKnown, WatcherExact, TimeoutCancelsOnce, ApprovalBearing
<1>8. CASE Resume
  BY <1>8, SdkAssumption DEF Resume, Return, OrphanInv, MessagesExact, CancelExact, OpenExact, IInv, TypeOK,
         OnceExact, OnlyApprovals, ReasonKnown, WatcherExact, TimeoutCancelsOnce, ApprovalBearing
<1>9. CASE CallerCancel
  BY <1>9 DEF CallerCancel, Return, SendCancel, OrphanInv, MessagesExact, CancelExact, OpenExact, IInv, TypeOK,
         OnceExact, OnlyApprovals, ReasonKnown, WatcherExact, TimeoutCancelsOnce, ApprovalBearing
<1>10. CASE CallerCancelReturns
  BY <1>10 DEF CallerCancelReturns, Return, OrphanInv, MessagesExact, CancelExact, OpenExact, IInv, TypeOK,
         OnceExact, OnlyApprovals, ReasonKnown, WatcherExact, TimeoutCancelsOnce, ApprovalBearing
<1>11. CASE ReadAnswer
  BY <1>11 DEF ReadAnswer, Return, OrphanInv, MessagesExact, CancelExact, OpenExact, IInv, TypeOK,
         OnceExact, OnlyApprovals, ReasonKnown, WatcherExact, TimeoutCancelsOnce, ApprovalBearing
<1>12. CASE WatchWake
  BY <1>12 DEF WatchWake, OrphanInv, MessagesExact, CancelExact, OpenExact, IInv, TypeOK,
         OnceExact, OnlyApprovals, ReasonKnown, WatcherExact, TimeoutCancelsOnce, ApprovalBearing
<1>13. CASE WatchCheck
  BY <1>13 DEF WatchCheck, OrphanInv, MessagesExact, CancelExact, OpenExact, IInv, TypeOK,
         OnceExact, OnlyApprovals, ReasonKnown, WatcherExact, TimeoutCancelsOnce, ApprovalBearing
<1>14. CASE WatchSend
  BY <1>14 DEF WatchSend, SendCancel, OrphanInv, MessagesExact, CancelExact, OpenExact, IInv, TypeOK,
         OnceExact, OnlyApprovals, ReasonKnown, WatcherExact, TimeoutCancelsOnce, ApprovalBearing
<1>15. CASE WatchSendReturns
  BY <1>15 DEF WatchSendReturns, OrphanInv, MessagesExact, CancelExact, OpenExact, IInv, TypeOK,
         OnceExact, OnlyApprovals, ReasonKnown, WatcherExact, TimeoutCancelsOnce, ApprovalBearing
<1>16. CASE AppCancel
  BY <1>16 DEF AppCancel, OrphanInv, MessagesExact, CancelExact, OpenExact, IInv, TypeOK,
         OnceExact, OnlyApprovals, ReasonKnown, WatcherExact, TimeoutCancelsOnce, ApprovalBearing
<1>17. CASE SignArrives
  BY <1>17 DEF SignArrives, OrphanInv, MessagesExact, CancelExact, OpenExact, IInv, TypeOK,
         OnceExact, OnlyApprovals, ReasonKnown, WatcherExact, TimeoutCancelsOnce, ApprovalBearing
<1>18. CASE WireLost
  BY <1>18 DEF WireLost, OrphanInv, MessagesExact, CancelExact, OpenExact, IInv, TypeOK,
         OnceExact, OnlyApprovals, ReasonKnown, WatcherExact, TimeoutCancelsOnce, ApprovalBearing
<1>19. CASE OperatorDecides
  BY <1>19 DEF OperatorDecides, OrphanInv, MessagesExact, CancelExact, OpenExact, IInv, TypeOK,
         OnceExact, OnlyApprovals, ReasonKnown, WatcherExact, TimeoutCancelsOnce, ApprovalBearing
<1>20. CASE AnswerLost
  BY <1>20 DEF AnswerLost, OrphanInv, MessagesExact, CancelExact, OpenExact, IInv, TypeOK,
         OnceExact, OnlyApprovals, ReasonKnown, WatcherExact, TimeoutCancelsOnce, ApprovalBearing
<1>21. CASE Invalid
  BY <1>21 DEF Invalid, OrphanInv, MessagesExact, CancelExact, OpenExact, IInv, TypeOK,
         OnceExact, OnlyApprovals, ReasonKnown, WatcherExact, TimeoutCancelsOnce, ApprovalBearing
<1>22. CASE NewRequestFails
  BY <1>22 DEF NewRequestFails, Return, OrphanInv, MessagesExact, CancelExact, OpenExact, IInv, TypeOK,
         OnceExact, OnlyApprovals, ReasonKnown, WatcherExact, TimeoutCancelsOnce, ApprovalBearing
<1>23. CASE Expire
  BY <1>23, SdkAssumption DEF Expire, Watched, OrphanInv, MessagesExact, CancelExact, OpenExact, IInv, TypeOK,
         OnceExact, OnlyApprovals, ReasonKnown, WatcherExact, TimeoutCancelsOnce, ApprovalBearing
<1>24. CASE DoDisconnects
  BY <1>24 DEF DoDisconnects, OrphanInv, MessagesExact, CancelExact, OpenExact, IInv, TypeOK,
         OnceExact, OnlyApprovals, ReasonKnown, WatcherExact, TimeoutCancelsOnce, ApprovalBearing
<1>25. ASSUME NEW m \in {"auto", "app"}, CancelArrives(m)
      PROVE  (MessagesExact /\ CancelExact /\ OpenExact)'
  BY <1>25 DEF CancelArrives, OrphanInv, MessagesExact, CancelExact, OpenExact, IInv, TypeOK,
         OnceExact, OnlyApprovals, ReasonKnown, WatcherExact, TimeoutCancelsOnce, ApprovalBearing
<1>26. ASSUME NEW m \in {"auto", "app"}, CancelLost(m)
      PROVE  (MessagesExact /\ CancelExact /\ OpenExact)'
  BY <1>26 DEF CancelLost, OrphanInv, MessagesExact, CancelExact, OpenExact, IInv, TypeOK,
         OnceExact, OnlyApprovals, ReasonKnown, WatcherExact, TimeoutCancelsOnce, ApprovalBearing
<1>27. CASE UNCHANGED vars
  BY <1>27 DEF vars, OrphanInv, MessagesExact, CancelExact, OpenExact, IInv, TypeOK,
         OnceExact, OnlyApprovals, ReasonKnown, WatcherExact, TimeoutCancelsOnce, ApprovalBearing
<1> QED
  BY <1>1, <1>2, <1>3, <1>4, <1>5, <1>6, <1>7, <1>8, <1>9, <1>10, <1>11, <1>12, <1>13, <1>14, <1>15, <1>16, <1>17, <1>18, <1>19, <1>20, <1>21, <1>22, <1>23, <1>24, <1>25, <1>26, <1>27
  DEF Next, Caller, Watcher, Network

(* A call that has returned leaves a pending approval only with its cancel    *)
(* under way, lost or overtaking the request, or in Go after a disconnect.    *)
THEOREM OrphanTheorem == Spec => []NoOrphanApproval
<1>1. IInv /\ IInv' /\ OrphanInv /\ [Next]_vars => OrphanInv'
  BY NextOrphan
<1>2. OrphanInv => NoOrphanApproval
  BY DEF OrphanInv, MessagesExact, CancelExact, OpenExact, IInv, TypeOK, NoOrphanApproval
<1> QED BY Invariance, InitOrphan, <1>1, <1>2, PTL DEF Spec

-----------------------------------------------------------------------------
(* The refinement of SignCall, step by step.  The abstract state of a step:  *)
APhase  == IF pc = "idle" THEN "idle" ELSE IF pc = "returned" THEN "closed" ELSE "open"
ALapsed == expired \/ why = "disconnect"

LEMMA InitRefines == Init => Abstract!Init
BY DEF Init, Abstract!Init, ApprovalBearing, Kinds, Outcome

(* A step inside the call that neither lapses nor cancels is invisible. *)
LEMMA SilentRefines ==
  ASSUME IInv, kind' = kind, APhase' = APhase, ALapsed' = ALapsed, autos' = autos,
         result' = result, pc = "returned" => why' = why
  PROVE  UNCHANGED Abstract!vars
<1>1. Outcome' = Outcome
  BY DEF IInv, ReasonKnown, Outcome
<1> QED BY <1>1 DEF Abstract!vars, APhase, ALapsed, ApprovalBearing

(* A wait that lapses does so once. *)
LEMMA LapseRefines ==
  ASSUME IInv, kind' = kind, APhase = "open", APhase' = "open", ~ALapsed, ALapsed',
         autos' = autos, result' = result
  PROVE  Abstract!Lapse
<1>1. result = "none"
  BY DEF IInv, ReasonKnown, APhase
<1>2. Outcome = "none" /\ Outcome' = "none"
  BY <1>1 DEF Outcome
<1> QED BY <1>2 DEF Abstract!Lapse, APhase, ALapsed, ApprovalBearing

(* The automatic cancel, whoever sends it. *)
LEMMA CancelRefines ==
  ASSUME IInv, SendCancel, ApprovalBearing, ALapsed, APhase # "idle", kind' = kind,
         APhase' = APhase, ALapsed' = ALapsed, result' = result, why' = why
  PROVE  Abstract!Cancel
<1>1. autos = 0 /\ autos' = 1
  BY DEF SendCancel, IInv, OnceExact
<1>2. Outcome' = Outcome
  BY DEF Outcome
<1> QED BY <1>1, <1>2 DEF Abstract!Cancel, APhase, ALapsed, ApprovalBearing

(* A return closes the call with the outcome its result stands for. *)
LEMMA CloseRefines ==
  ASSUME IInv, NEW r \in {"signed", "refused", "error"}, Return(r), APhase = "open",
         kind' = kind, why' = why, expired' = expired, autos' = autos,
         r \in {"signed", "refused"} => why = "none",
         r = "error" /\ why = "timeout" /\ ApprovalBearing => autos = 1
  PROVE  Abstract!Next
<1>1. PICK o \in {"answered", "timedout", "failed"} :
        /\ Outcome' = o
        /\ o = "timedout" => r = "error" /\ why = "timeout"
  BY DEF Outcome, Return
<1>2. why = "timeout" => expired
  BY DEF IInv, ReasonKnown
<1>3. Abstract!Close(o)
  BY <1>1, <1>2 DEF Abstract!Close, APhase, ApprovalBearing, Return
<1> QED BY <1>1, <1>3 DEF Abstract!Next

LEMMA CallerRefines ==
  ASSUME IInv, Caller
  PROVE  [Abstract!Next]_(Abstract!vars)
<1>1. CASE Begin
  <2>1. Outcome' = Outcome
    BY <1>1 DEF Begin, Outcome
  <2>2. Abstract!Open
    BY <1>1, <2>1 DEF Begin, Abstract!Open, ApprovalBearing
  <2> QED BY <2>2 DEF Abstract!Next
<1>2. CASE Discover \/ Send \/ DoOk \/ DoTimesOut \/ CloseDone
  BY <1>2, SilentRefines DEF Discover, Send, DoOk, DoTimesOut, CloseDone, APhase, ALapsed,
                             IInv, ReasonKnown
<1>3. CASE CheckContext
  <2>1. CASE ctx = "ended" /\ ApprovalBearing
    BY <1>3, <2>1, SilentRefines DEF CheckContext, APhase, ALapsed
  <2>2. CASE ~(ctx = "ended" /\ ApprovalBearing)
    <3>1. why = "timeout" => ~ApprovalBearing
      BY <2>2 DEF IInv, ReasonKnown
    <3> QED BY <1>3, <2>2, <3>1, CloseRefines DEF CheckContext, APhase
  <2> QED BY <2>1, <2>2
<1>4. CASE Resume
  <2>1. CASE pc = "got" \/ ApprovalBearing
    BY <1>4, <2>1, SilentRefines DEF Resume, APhase, ALapsed
  <2>2. CASE ~(pc = "got" \/ ApprovalBearing)
    BY <1>4, <2>2, CloseRefines DEF Resume, APhase
  <2> QED BY <2>1, <2>2
<1>5. CASE CallerCancel
  <2>1. CASE SendCancel
    <3>1. pc' = "canceling" /\ UNCHANGED result
      BY <1>5, <2>1 DEF CallerCancel, SendCancel
    <3>2. ApprovalBearing /\ ALapsed
      BY <1>5 DEF CallerCancel, IInv, OnlyApprovals, ReasonKnown, TypeOK, ALapsed
    <3>3. Abstract!Cancel
      BY <1>5, <2>1, <3>1, <3>2, CancelRefines DEF CallerCancel, APhase, ALapsed
    <3> QED BY <3>3 DEF Abstract!Next
  <2>2. CASE once = "used"
    <3>1. autos = 1 /\ autos' = autos /\ Return("error")
      BY <1>5, <2>2 DEF CallerCancel, SendCancel, IInv, OnceExact, TypeOK
    <3> QED BY <1>5, <3>1, CloseRefines DEF CallerCancel, APhase
  <2> QED BY <1>5, <2>1, <2>2 DEF CallerCancel
<1>6. CASE CallerCancelReturns
  <2>1. autos = 1
    BY <1>6 DEF CallerCancelReturns, IInv, OnceExact, TypeOK
  <2> QED BY <1>6, <2>1, CloseRefines DEF CallerCancelReturns, APhase
<1>7. CASE ReadAnswer
  <2>1. why = "none" /\ APhase = "open"
    BY <1>7 DEF ReadAnswer, IInv, ReasonKnown, APhase
  <2>2. PICK r \in {"signed", "refused", "error"} : Return(r)
    BY <1>7 DEF ReadAnswer
  <2> QED BY <1>7, <2>1, <2>2, CloseRefines DEF ReadAnswer
<1> QED BY <1>1, <1>2, <1>3, <1>4, <1>5, <1>6, <1>7 DEF Caller

LEMMA WatcherRefines ==
  ASSUME IInv, Watcher
  PROVE  [Abstract!Next]_(Abstract!vars)
<1>1. CASE WatchWake \/ WatchCheck \/ WatchSendReturns
  BY <1>1, SilentRefines DEF WatchWake, WatchCheck, WatchSendReturns, APhase, ALapsed
<1>2. CASE WatchSend
  <2>1. CASE SendCancel
    <3>1. ApprovalBearing /\ ALapsed /\ pc # "idle"
      BY <1>2 DEF WatchSend, IInv, OnlyApprovals, WatcherExact, ALapsed
    <3>2. Abstract!Cancel
      BY <1>2, <2>1, <3>1, CancelRefines DEF WatchSend, APhase, ALapsed
    <3> QED BY <3>2 DEF Abstract!Next
  <2>2. CASE once = "used"
    BY <1>2, <2>2, SilentRefines DEF WatchSend, SendCancel, APhase, ALapsed
  <2> QED BY <1>2, <2>1, <2>2 DEF WatchSend
<1> QED BY <1>1, <1>2 DEF Watcher

LEMMA NextRefines ==
  ASSUME IInv, [Next]_vars
  PROVE  [Abstract!Next]_(Abstract!vars)
<1>1. CASE Invalid
  <2>1. Outcome' = "failed" /\ Outcome = "none"
    BY <1>1 DEF Invalid, Outcome, IInv, ReasonKnown
  <2>2. Abstract!Refuse
    BY <1>1, <2>1 DEF Invalid, Abstract!Refuse, ApprovalBearing, IInv, ReasonKnown
  <2> QED BY <2>2 DEF Abstract!Next
<1>2. CASE NewRequestFails
  <2>1. why = "none" /\ APhase = "open"
    BY <1>2 DEF NewRequestFails, IInv, ReasonKnown, APhase
  <2> QED BY <1>2, <2>1, CloseRefines DEF NewRequestFails
<1>3. CASE Expire \/ DoDisconnects
  <2>1. APhase = "open" /\ APhase' = "open" /\ ALapsed'
    BY <1>3, SdkAssumption DEF IInv, TypeOK, Expire, Watched, DoDisconnects, APhase, ALapsed
  <2>2. kind' = kind /\ autos' = autos /\ result' = result /\ pc # "returned"
    BY <1>3, SdkAssumption DEF IInv, TypeOK, Expire, Watched, DoDisconnects
  <2>3. CASE ~ALapsed
    BY <2>1, <2>2, <2>3, LapseRefines DEF Abstract!Next
  <2>4. CASE ALapsed
    <3>1. ALapsed' = ALapsed
      BY <2>1, <2>4 DEF ALapsed
    <3> QED BY <2>1, <2>2, <3>1, SilentRefines
  <2> QED BY <2>3, <2>4
<1>4. CASE Network
  <2>1. UNCHANGED clientVars
    BY <1>4 DEF Network, AppCancel, SignArrives, WireLost, OperatorDecides, AnswerLost,
                CancelArrives, CancelLost
  <2> QED BY <2>1, SilentRefines DEF APhase, ALapsed
<1>5. CASE UNCHANGED vars
  BY <1>5, SilentRefines DEF vars, APhase, ALapsed
<1> QED BY <1>1, <1>2, <1>3, <1>4, <1>5, CallerRefines, WatcherRefines DEF Next

(* The request of each SDK implements the abstract call: opened and closed    *)
(* once, cancelled at most once and only after the wait lapsed, never closed  *)
(* as timed out without a cancel.                                             *)
THEOREM RefinementTheorem == Spec => ImplementsSignCall
<1>1. IInv /\ [Next]_vars => [Abstract!Next]_(Abstract!vars)
  BY NextRefines
<1> QED BY Invariance, InitRefines, <1>1, PTL DEF Spec, Abstract!Spec, ImplementsSignCall
=============================================================================
