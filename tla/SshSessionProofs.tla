------------------------- MODULE SshSessionProofs -------------------------
(***************************************************************************)
(* Theorems about SshSession, for any number of processes, hosts, keys and *)
(* endpoints files.                                                        *)
(***************************************************************************)
EXTENDS SshSession, TLAPS

-----------------------------------------------------------------------------
(* Facts about jobs and pins.                                               *)

(* What a call leaves behind is a job that holds no pins. *)
LEMMA NoJobFacts ==
  /\ NoJob \in Jobs
  /\ NoJob.snap = {}
  /\ \A k \in {"tunnel", "enroll"} :
       /\ [NoJob EXCEPT !.kind = k] \in Jobs
       /\ [NoJob EXCEPT !.kind = k].snap = {}
BY SshAssumption DEF NoJob, Jobs, Pins

(* Jobs with another key or other pins are jobs. *)
LEMMA JobEdited ==
  ASSUME NEW j \in Jobs
  PROVE  /\ \A k \in HostKeys : [j EXCEPT !.key = k] \in Jobs
         /\ \A S \in SUBSET Pins : [j EXCEPT !.snap = S] \in Jobs
         /\ <<j.host, j.key>> \in Pins
BY DEF Jobs, Pins

(* The parts of a process's job. *)
LEMMA JobParts ==
  ASSUME Types, NEW p \in Procs
  PROVE  /\ job[p] \in Jobs /\ job[p].host \in Hosts
         /\ job[p].kind \in {"tunnel", "enroll"}
         /\ job[p].snap \subseteq Pins /\ Pin(p) \in Pins /\ Loaded(p) \subseteq Pins
BY JobEdited DEF Types, Jobs, Pin, Loaded

(* A new host's pin, or pins of hosts not yet there, may be added. *)
LEMMA OnePerHostGrows ==
  ASSUME NEW S, OnePerHost(S), NEW x, \A q \in S : q[1] # x[1],
         NEW T, OnePerHost(T)
  PROVE  /\ OnePerHost(S \union {x})
         /\ OnePerHost(S \union {x} \union {q \in T : \A r \in S \union {x} : q[1] # r[1]})
BY DEF OnePerHost

(* What is left of a job is a job without pins. *)
LEMMA SpentTyped ==
  ASSUME Types, NEW p \in Procs
  PROVE  /\ [job EXCEPT ![p] = [NoJob EXCEPT !.kind = job[p].kind]] \in [Procs -> Jobs]
         /\ OnePerHost([NoJob EXCEPT !.kind = job[p].kind].snap)
<1>1. /\ [NoJob EXCEPT !.kind = job[p].kind] \in Jobs
      /\ [NoJob EXCEPT !.kind = job[p].kind].snap = {}
  BY JobParts, NoJobFacts
<1> QED BY <1>1 DEF Types, OnePerHost

(* The exception handlers end the call with one of the results. *)
LEMMA FailTyped ==
  ASSUME Types, NEW p \in Procs, NEW why \in {"other", "timeout"}, Fail(p, why)
  PROVE  /\ pc' = [pc EXCEPT ![p] = "done"]
         /\ job' = [job EXCEPT ![p] = [NoJob EXCEPT !.kind = job[p].kind]]
         /\ job' \in [Procs -> Jobs]
         /\ \E r \in {"other", "timeout"} : out' = [out EXCEPT ![p] = r]
         /\ timer' \in [Procs -> {"off", "armed", "firing"}]
         /\ link' \in [Procs -> {"closed", "raw", "ssh"}]
<1>1. job' = [job EXCEPT ![p] = [NoJob EXCEPT !.kind = job[p].kind]]
  BY DEF Fail, Ends, Spent
<1>2. job' \in [Procs -> Jobs]
  BY <1>1, SpentTyped
<1>3. link' \in [Procs -> {"closed", "raw", "ssh"}]
  BY DEF Types, Fail, Disconnect
<1>4. /\ pc' = [pc EXCEPT ![p] = "done"]
      /\ \E r \in {"other", "timeout"} : out' = [out EXCEPT ![p] = r]
      /\ timer' \in [Procs -> {"off", "armed", "firing"}]
  BY DEF Types, Fail, Ends, Goto, CancelTimer
<1> QED BY <1>1, <1>2, <1>3, <1>4

-----------------------------------------------------------------------------
(* Each step keeps the types. *)
LEMMA TypesKept ==
  ASSUME Types, [Next]_vars
  PROVE  Types'
<1> USE NoJobFacts DEF fileVars, timerVars, tunnelVars, history, Goto, Ends, Disconnect,
                       CancelTimer, Trusts, Note
<1>0. ASSUME NEW p \in Procs, Spent(p) PROVE job' \in [Procs -> Jobs]
  BY <1>0, SpentTyped DEF Spent
<1>1. ASSUME NEW p \in Procs, BeginRefused(p) PROVE Types'
  BY <1>1, <1>0 DEF Types, Setup, Serving, Stopping, BeginRefused
<1>2. ASSUME NEW p \in Procs, Begin(p) PROVE Types'
  <2>1. PICK f \in Files, call \in Calls[p] :
          /\ Resolves(f, call[3])
          /\ job' = [job EXCEPT ![p] =
                       [kind    |-> call[1],
                        policy  |-> call[2],
                        host    |-> HostOf[Selected(f, call[3])],
                        key     |-> NoJob.key,
                        snap    |-> IF call[1] = "enroll" THEN file ELSE {},
                        persist |-> call[1] = "tunnel" \/ exists]]
          /\ misrouted' = (misrouted \/ (call[3] = NoAlias /\ DefaultOf(f) \notin WithRole(f, "signer")))
          /\ Note({}, call[1] = "enroll" /\ OtherWrites(p))
    BY <1>2 DEF Begin
  <2>2. call[1] \in {"tunnel", "enroll"} /\ call[2] \in {"refuse", "accept", "prompt"}
    <3>1. call \in AllCalls
      BY SshAssumption
    <3> QED BY <3>1 DEF AllCalls
  <2>3. HostOf[Selected(f, call[3])] \in Hosts
    BY <2>1, SshAssumption DEF Resolves
  <2>4. job' \in [Procs -> Jobs]
    <3> DEFINE j == [kind    |-> call[1],
                     policy  |-> call[2],
                     host    |-> HostOf[Selected(f, call[3])],
                     key     |-> NoJob.key,
                     snap    |-> IF call[1] = "enroll" THEN file ELSE {},
                     persist |-> call[1] = "tunnel" \/ exists]
    <3>1. NoJob.key \in HostKeys
      BY DEF Jobs
    <3>2. j \in Jobs
      BY <2>2, <2>3, <3>1 DEF Jobs, Types
    <3>3. job' = [job EXCEPT ![p] = j]
      BY <2>1
    <3> HIDE DEF j
    <3> QED BY <3>2, <3>3 DEF Types
  <2>5. misrouted' \in BOOLEAN /\ disturbed' \in BOOLEAN /\ trusted' \subseteq Pins
    BY <2>1 DEF Types
  <2> QED BY <1>2, <2>4, <2>5 DEF Types, Setup, Begin
<1>3. ASSUME NEW p \in Procs, Lapse(p) PROVE Types'
  BY <1>3 DEF Types, Setup, Serving, Stopping, Lapse
<1>4. ASSUME NEW p \in Procs, TimerFires(p) PROVE Types'
  BY <1>4 DEF Types, Setup, Serving, Stopping, TimerFires
<1>5. ASSUME NEW p \in Procs, ExpireSetup(p) PROVE Types'
  <2>1. CASE complete[p]
    BY <1>5, <2>1 DEF Types, ExpireSetup
  <2>2. CASE ~complete[p]
    BY <1>5, <2>2 DEF Types, ExpireSetup
  <2> QED BY <2>1, <2>2
<1>6. ASSUME NEW p \in Procs, Dial(p) PROVE Types'
  BY <1>6 DEF Types, Setup, Serving, Stopping, Dial
<1>7. ASSUME NEW p \in Procs, NetworkFails(p) PROVE Types'
  <2>1. PICK why \in {"other", "timeout"} : Fail(p, why)
    BY <1>7 DEF NetworkFails
  <2> QED BY <1>7, <2>1, FailTyped DEF Types, NetworkFails
<1>8. ASSUME NEW p \in Procs, KeyExchange(p) PROVE Types'
  <2>1. PICK k \in Offers[job[p].host] : job' = [job EXCEPT ![p].key = k]
    BY <1>8 DEF KeyExchange
  <2>2. k \in HostKeys
    BY JobParts, SshAssumption
  <2>3. job' = [job EXCEPT ![p] = [job[p] EXCEPT !.key = k]]
    BY <2>1 DEF Types
  <2>4. job' \in [Procs -> Jobs]
    BY <2>2, <2>3, JobParts, JobEdited DEF Types
  <2> QED BY <1>8, <2>4 DEF Types, Setup, KeyExchange
<1>9. ASSUME NEW p \in Procs, Authenticate(p) PROVE Types'
  BY <1>9 DEF Types, Setup, Serving, Stopping, Authenticate
<1>10. ASSUME NEW p \in Procs, AuthenticationRefused(p) PROVE Types'
  BY <1>10, FailTyped DEF Types, AuthenticationRefused
<1>11. ASSUME NEW p \in Procs, Enroll(p) PROVE Types'
  BY <1>11, <1>0 DEF Types, Enroll
<1>12. ASSUME NEW p \in Procs, TransportBreaks(p) PROVE Types'
  BY <1>12 DEF Types, Setup, Serving, Stopping, TransportBreaks
<1>13. ASSUME NEW p \in Procs, VerifyKnown(p) PROVE Types'
  <2>1. job' \in [Procs -> Jobs]
    BY <1>13, <1>0 DEF VerifyKnown
  <2> QED BY <1>13, <2>1, JobParts DEF Types, Setup, VerifyKnown
<1>14. ASSUME NEW p \in Procs, VerifyMismatch(p) PROVE Types'
  BY <1>14, FailTyped DEF Types, VerifyMismatch
<1>15. ASSUME NEW p \in Procs, VerifyUnknownRefused(p) PROVE Types'
  BY <1>15, FailTyped DEF Types, VerifyUnknownRefused
<1>16. ASSUME NEW p \in Procs, VerifyUnknownAccepted(p) PROVE Types'
  <2>1. job' = [job EXCEPT ![p] = [job[p] EXCEPT !.snap = Loaded(p)]]
    BY <1>16 DEF Types, VerifyUnknownAccepted
  <2>2. job' \in [Procs -> Jobs]
    BY <2>1, JobParts, JobEdited DEF Types
  <2> QED BY <1>16, <2>2 DEF Types, Setup, VerifyUnknownAccepted
<1>17. ASSUME NEW p \in Procs, VerifyUnknownUnsaved(p) PROVE Types'
  <2>1. job' \in [Procs -> Jobs]
    BY <1>17, <1>0 DEF VerifyUnknownUnsaved
  <2> QED BY <1>17, <2>1, JobParts DEF Types, Setup, VerifyUnknownUnsaved
<1>18. ASSUME NEW p \in Procs, Prompt(p) PROVE Types'
  <2>1. job' = [job EXCEPT ![p] = [job[p] EXCEPT !.snap = {}]]
    BY <1>18 DEF Types, Prompt
  <2>2. job' \in [Procs -> Jobs]
    BY <2>1, JobParts, JobEdited DEF Types
  <2> QED BY <1>18, <2>2 DEF Types, Setup, Prompt
<1>19. ASSUME NEW p \in Procs, PromptYes(p) PROVE Types'
  <2>1. timer' \in [Procs -> {"off", "armed", "firing"}]
    BY <1>19 DEF Types, PromptYes, ResumeDeadline
  <2> QED BY <1>19, <2>1 DEF Types, Setup, PromptYes
<1>20. ASSUME NEW p \in Procs, PromptNo(p) PROVE Types'
  BY <1>20, FailTyped DEF Types, PromptNo
<1>21. ASSUME NEW p \in Procs, Reload(p) PROVE Types'
  <2> DEFINE S == {q \in file : q[1] # job[p].host}
  <2>1. job' = [job EXCEPT ![p] = [job[p] EXCEPT !.snap = S]]
    BY <1>21 DEF Types, Reload
  <2>2. S \in SUBSET Pins
    BY DEF Types
  <2>3. job' \in [Procs -> Jobs]
    BY <2>1, <2>2, JobParts, JobEdited DEF Types
  <2> QED BY <1>21, <2>3 DEF Types, Setup, Reload
<1>22. ASSUME NEW p \in Procs, SaveTruncate(p) PROVE Types'
  <2> DEFINE mine == job[p].snap \union {Pin(p)}
             new == IF job[p].kind = "enroll" /\ job[p].policy = "accept"
                    THEN mine \union {q \in file : \A r \in mine : q[1] # r[1]}
                    ELSE mine
  <2>1. new \in SUBSET Pins
    BY JobParts DEF Types
  <2>2. job' = [job EXCEPT ![p] = [job[p] EXCEPT !.snap = new]]
    BY <1>22 DEF SaveTruncate, Types
  <2>3. job' \in [Procs -> Jobs]
    BY <2>1, <2>2, JobParts, JobEdited DEF Types
  <2> QED BY <1>22, <2>3 DEF Types, Setup, SaveTruncate
<1>23. ASSUME NEW p \in Procs, SaveFlush(p) PROVE Types'
  <2>1. job' \in [Procs -> Jobs]
    BY <1>23, <1>0 DEF SaveFlush
  <2> QED BY <1>23, <2>1, JobParts DEF Types, Setup, SaveFlush
<1>24. ASSUME NEW p \in Procs, SaveFails(p) PROVE Types'
  <2>1. CASE job[p].policy = "prompt"
    <3>1. job' \in [Procs -> Jobs]
      BY <1>24, <2>1, <1>0 DEF SaveFails
    <3>2. trusted' \subseteq Pins /\ disturbed' \in BOOLEAN
      BY <1>24, <2>1, JobParts DEF Types, SaveFails
    <3> QED BY <1>24, <2>1, <3>1, <3>2 DEF Types, Setup, SaveFails
  <2>2. CASE job[p].policy # "prompt"
    <3>1. trusted' \subseteq Pins /\ disturbed' \in BOOLEAN
      BY <1>24, <2>2 DEF Types, SaveFails
    <3> QED BY <1>24, <2>2, <3>1, FailTyped DEF Types, SaveFails
  <2> QED BY <2>1, <2>2
<1>25. ASSUME NEW p \in Procs, CommitSetup(p) PROVE Types'
  <2>1. CASE timedOut[p] \/ lapsed[p]
    BY <1>25, <2>1, FailTyped DEF Types, CommitSetup
  <2>2. CASE ~(timedOut[p] \/ lapsed[p])
    BY <1>25, <2>2 DEF Types, Setup, CommitSetup
  <2> QED BY <2>1, <2>2
<1>26. ASSUME NEW p \in Procs, DetachTimer(p) PROVE Types'
  BY <1>26 DEF Types, Setup, Serving, Stopping, DetachTimer
<1>27. ASSUME NEW p \in Procs, Listen(p) PROVE Types'
  BY <1>27 DEF Types, Setup, Serving, Stopping, Listen
<1>28. ASSUME NEW p \in Procs, ListenFails(p) PROVE Types'
  BY <1>28, <1>0 DEF Types, Setup, Serving, Stopping, ListenFails
<1>29. ASSUME NEW p \in Procs, LocalConnect(p) PROVE Types'
  BY <1>29 DEF Types, Setup, Serving, Stopping, ConnStates, LocalConnect
<1>30. ASSUME NEW p \in Procs, Health(p) PROVE Types'
  BY <1>30 DEF Types, Setup, Serving, Stopping, Health
<1>31. ASSUME NEW p \in Procs, Accept(p) PROVE Types'
  BY <1>31 DEF Types, Setup, Serving, Stopping, Accept, Serve, ConnStates
<1>32. ASSUME NEW p \in Procs, OpenChannel(p) PROVE Types'
  BY <1>32 DEF Types, Setup, Serving, Stopping, ConnStates, OpenChannel, Serve
<1>33. ASSUME NEW p \in Procs, LocalCloses(p) PROVE Types'
  BY <1>33 DEF Types, Setup, Serving, Stopping, LocalCloses
<1>40. ASSUME NEW p \in Procs, ForwardChannel(p) PROVE Types'
  BY <1>40 DEF Types, Setup, Serving, Stopping, ConnStates, ForwardChannel, Serve
<1>41. ASSUME NEW p \in Procs, ForwardLocal(p) PROVE Types'
  BY <1>41 DEF Types, Setup, Serving, Stopping, ConnStates, ForwardLocal, Serve
<1>42. ASSUME NEW p \in Procs, ArmTimer(p) PROVE Types'
  BY <1>42 DEF Types, Setup, Serving, Stopping, ArmTimer
<1>43. ASSUME NEW p \in Procs, Attach(p) PROVE Types'
  BY <1>43 DEF Types, Setup, Serving, Stopping, Attach
<1>44. ASSUME NEW p \in Procs, TooLate(p) PROVE Types'
  BY <1>44, FailTyped DEF Types, TooLate
<1>34. ASSUME NEW p \in Procs, AcceptLoopEnds(p) PROVE Types'
  BY <1>34 DEF Types, Setup, Serving, Stopping, AcceptLoopEnds
<1>35. ASSUME NEW p \in Procs, Close(p) PROVE Types'
  BY <1>35 DEF Types, Setup, Serving, Stopping, Close
<1>36. ASSUME NEW p \in Procs, StopListener(p) PROVE Types'
  BY <1>36 DEF Types, Setup, Serving, Stopping, ConnStates, StopListener, Serve
<1>37. ASSUME NEW p \in Procs, StopTransport(p) PROVE Types'
  BY <1>37, <1>0 DEF Types, Setup, Serving, Stopping, StopTransport
<1>38. ASSUME NEW p \in Procs, Killed(p) PROVE Types'
  <2>1. job' \in [Procs -> Jobs]
    BY <1>38, <1>0 DEF Killed
  <2> QED BY <1>38, <2>1 DEF Types, ConnStates, Killed
<1>39. CASE UNCHANGED vars
  BY <1>39 DEF Types, Setup, Serving, Stopping, vars
<1> QED
    BY <1>1, <1>2, <1>3, <1>4, <1>5, <1>6, <1>7, <1>8, <1>9, <1>10, <1>11, <1>12, <1>13,
     <1>14, <1>15, <1>16, <1>17, <1>18, <1>19, <1>20, <1>21, <1>22, <1>23, <1>24, <1>25,
     <1>26, <1>27, <1>28, <1>29, <1>30, <1>31, <1>32, <1>33, <1>34, <1>35, <1>36, <1>37,
     <1>38, <1>39, <1>40, <1>41, <1>42, <1>43, <1>44
     DEF Next, TimerStep, ServerStep, DialStep, ForwardStep, VerifyStep, PromptStep,
                SaveStep, CommitStep, ListenStep, LoopStep, StopStep

-----------------------------------------------------------------------------
(* The timer's thread and the commit keep their agreement. *)
LEMMA TimerKept ==
  ASSUME Types, TimerInv, [Next]_vars
  PROVE  TimerInv'
<1> USE NoJobFacts DEF fileVars, timerVars, tunnelVars, history, Goto, Ends, Spent, Disconnect,
                       CancelTimer, Fail, Trusts, Note, TimerInv, Types,
                       Setup, Serving, Stopping
<1>1. ASSUME NEW p \in Procs, BeginRefused(p) PROVE TimerInv'
  BY <1>1 DEF BeginRefused
<1>2. ASSUME NEW p \in Procs, Begin(p) PROVE TimerInv'
  BY <1>2 DEF Begin
<1>3. ASSUME NEW p \in Procs, Lapse(p) PROVE TimerInv'
  BY <1>3 DEF Lapse
<1>4. ASSUME NEW p \in Procs, TimerFires(p) PROVE TimerInv'
  BY <1>4 DEF TimerFires
<1>5. ASSUME NEW p \in Procs, ExpireSetup(p) PROVE TimerInv'
  BY <1>5 DEF ExpireSetup
<1>6. ASSUME NEW p \in Procs, Dial(p) PROVE TimerInv'
  BY <1>6 DEF Dial
<1>7. ASSUME NEW p \in Procs, NetworkFails(p) PROVE TimerInv'
  BY <1>7 DEF NetworkFails
<1>8. ASSUME NEW p \in Procs, KeyExchange(p) PROVE TimerInv'
  BY <1>8 DEF KeyExchange
<1>9. ASSUME NEW p \in Procs, Authenticate(p) PROVE TimerInv'
  BY <1>9 DEF Authenticate
<1>10. ASSUME NEW p \in Procs, AuthenticationRefused(p) PROVE TimerInv'
  BY <1>10 DEF AuthenticationRefused
<1>11. ASSUME NEW p \in Procs, Enroll(p) PROVE TimerInv'
  BY <1>11 DEF Enroll
<1>12. ASSUME NEW p \in Procs, TransportBreaks(p) PROVE TimerInv'
  BY <1>12 DEF TransportBreaks
<1>13. ASSUME NEW p \in Procs, VerifyKnown(p) PROVE TimerInv'
  BY <1>13 DEF VerifyKnown
<1>14. ASSUME NEW p \in Procs, VerifyMismatch(p) PROVE TimerInv'
  BY <1>14 DEF VerifyMismatch
<1>15. ASSUME NEW p \in Procs, VerifyUnknownRefused(p) PROVE TimerInv'
  BY <1>15 DEF VerifyUnknownRefused
<1>16. ASSUME NEW p \in Procs, VerifyUnknownAccepted(p) PROVE TimerInv'
  BY <1>16 DEF VerifyUnknownAccepted
<1>17. ASSUME NEW p \in Procs, VerifyUnknownUnsaved(p) PROVE TimerInv'
  BY <1>17 DEF VerifyUnknownUnsaved
<1>18. ASSUME NEW p \in Procs, Prompt(p) PROVE TimerInv'
  BY <1>18 DEF Prompt
<1>19. ASSUME NEW p \in Procs, PromptYes(p) PROVE TimerInv'
  BY <1>19 DEF PromptYes, ResumeDeadline
<1>20. ASSUME NEW p \in Procs, PromptNo(p) PROVE TimerInv'
  BY <1>20 DEF PromptNo
<1>21. ASSUME NEW p \in Procs, Reload(p) PROVE TimerInv'
  BY <1>21 DEF Reload
<1>22. ASSUME NEW p \in Procs, SaveTruncate(p) PROVE TimerInv'
  BY <1>22 DEF SaveTruncate
<1>23. ASSUME NEW p \in Procs, SaveFlush(p) PROVE TimerInv'
  BY <1>23 DEF SaveFlush
<1>24. ASSUME NEW p \in Procs, SaveFails(p) PROVE TimerInv'
  BY <1>24 DEF SaveFails
<1>25. ASSUME NEW p \in Procs, CommitSetup(p) PROVE TimerInv'
  BY <1>25 DEF CommitSetup
<1>26. ASSUME NEW p \in Procs, DetachTimer(p) PROVE TimerInv'
  BY <1>26 DEF DetachTimer
<1>27. ASSUME NEW p \in Procs, Listen(p) PROVE TimerInv'
  BY <1>27 DEF Listen
<1>28. ASSUME NEW p \in Procs, ListenFails(p) PROVE TimerInv'
  BY <1>28 DEF ListenFails
<1>29. ASSUME NEW p \in Procs, LocalConnect(p) PROVE TimerInv'
  BY <1>29 DEF LocalConnect
<1>30. ASSUME NEW p \in Procs, Health(p) PROVE TimerInv'
  BY <1>30 DEF Health
<1>31. ASSUME NEW p \in Procs, Accept(p) PROVE TimerInv'
  BY <1>31 DEF Accept
<1>32. ASSUME NEW p \in Procs, OpenChannel(p) PROVE TimerInv'
  BY <1>32 DEF OpenChannel
<1>33. ASSUME NEW p \in Procs, LocalCloses(p) PROVE TimerInv'
  BY <1>33 DEF LocalCloses
<1>40. ASSUME NEW p \in Procs, ForwardChannel(p) PROVE TimerInv'
  BY <1>40 DEF ForwardChannel
<1>41. ASSUME NEW p \in Procs, ForwardLocal(p) PROVE TimerInv'
  BY <1>41 DEF ForwardLocal
<1>42. ASSUME NEW p \in Procs, ArmTimer(p) PROVE TimerInv'
  BY <1>42 DEF ArmTimer
<1>43. ASSUME NEW p \in Procs, Attach(p) PROVE TimerInv'
  BY <1>43 DEF Attach
<1>44. ASSUME NEW p \in Procs, TooLate(p) PROVE TimerInv'
  BY <1>44 DEF TooLate
<1>34. ASSUME NEW p \in Procs, AcceptLoopEnds(p) PROVE TimerInv'
  BY <1>34 DEF AcceptLoopEnds
<1>35. ASSUME NEW p \in Procs, Close(p) PROVE TimerInv'
  BY <1>35 DEF Close
<1>36. ASSUME NEW p \in Procs, StopListener(p) PROVE TimerInv'
  BY <1>36 DEF StopListener
<1>37. ASSUME NEW p \in Procs, StopTransport(p) PROVE TimerInv'
  BY <1>37 DEF StopTransport
<1>38. ASSUME NEW p \in Procs, Killed(p) PROVE TimerInv'
  BY <1>38 DEF Killed
<1>39. CASE UNCHANGED vars
  BY <1>39 DEF vars
<1> QED
    BY <1>1, <1>2, <1>3, <1>4, <1>5, <1>6, <1>7, <1>8, <1>9, <1>10, <1>11, <1>12, <1>13,
     <1>14, <1>15, <1>16, <1>17, <1>18, <1>19, <1>20, <1>21, <1>22, <1>23, <1>24, <1>25,
     <1>26, <1>27, <1>28, <1>29, <1>30, <1>31, <1>32, <1>33, <1>34, <1>35, <1>36, <1>37,
     <1>38, <1>39, <1>40, <1>41, <1>42, <1>43, <1>44
     DEF Next, TimerStep, ServerStep, DialStep, ForwardStep, VerifyStep, PromptStep,
                SaveStep, CommitStep, ListenStep, LoopStep, StopStep

(* A bare socket gets a transport, or is left by an enrollment that timed out; a  *)
(* transport is closed however the call ends, but for a failed bind.             *)
LEMMA OpenKept ==
  ASSUME Types, OpenInv, [Next]_vars
  PROVE  OpenInv'
<1> USE NoJobFacts DEF fileVars, timerVars, tunnelVars, history, Goto, Ends, Spent, Disconnect,
                       CancelTimer, Fail, Trusts, Note, OpenInv, Types,
                       Setup, Serving, Stopping
<1>1. ASSUME NEW p \in Procs, BeginRefused(p) PROVE OpenInv'
  BY <1>1 DEF BeginRefused
<1>2. ASSUME NEW p \in Procs, Begin(p) PROVE OpenInv'
  BY <1>2 DEF Begin
<1>3. ASSUME NEW p \in Procs, Lapse(p) PROVE OpenInv'
  BY <1>3 DEF Lapse
<1>4. ASSUME NEW p \in Procs, TimerFires(p) PROVE OpenInv'
  BY <1>4 DEF TimerFires
<1>5. ASSUME NEW p \in Procs, ExpireSetup(p) PROVE OpenInv'
  BY <1>5 DEF ExpireSetup
<1>6. ASSUME NEW p \in Procs, Dial(p) PROVE OpenInv'
  BY <1>6 DEF Dial
<1>7. ASSUME NEW p \in Procs, NetworkFails(p) PROVE OpenInv'
  BY <1>7 DEF NetworkFails
<1>8. ASSUME NEW p \in Procs, KeyExchange(p) PROVE OpenInv'
  BY <1>8 DEF KeyExchange
<1>9. ASSUME NEW p \in Procs, Authenticate(p) PROVE OpenInv'
  BY <1>9 DEF Authenticate
<1>10. ASSUME NEW p \in Procs, AuthenticationRefused(p) PROVE OpenInv'
  BY <1>10 DEF AuthenticationRefused
<1>11. ASSUME NEW p \in Procs, Enroll(p) PROVE OpenInv'
  BY <1>11 DEF Enroll
<1>12. ASSUME NEW p \in Procs, TransportBreaks(p) PROVE OpenInv'
  BY <1>12 DEF TransportBreaks
<1>13. ASSUME NEW p \in Procs, VerifyKnown(p) PROVE OpenInv'
  BY <1>13 DEF VerifyKnown
<1>14. ASSUME NEW p \in Procs, VerifyMismatch(p) PROVE OpenInv'
  BY <1>14 DEF VerifyMismatch
<1>15. ASSUME NEW p \in Procs, VerifyUnknownRefused(p) PROVE OpenInv'
  BY <1>15 DEF VerifyUnknownRefused
<1>16. ASSUME NEW p \in Procs, VerifyUnknownAccepted(p) PROVE OpenInv'
  BY <1>16 DEF VerifyUnknownAccepted
<1>17. ASSUME NEW p \in Procs, VerifyUnknownUnsaved(p) PROVE OpenInv'
  BY <1>17 DEF VerifyUnknownUnsaved
<1>18. ASSUME NEW p \in Procs, Prompt(p) PROVE OpenInv'
  BY <1>18 DEF Prompt
<1>19. ASSUME NEW p \in Procs, PromptYes(p) PROVE OpenInv'
  BY <1>19 DEF PromptYes, ResumeDeadline
<1>20. ASSUME NEW p \in Procs, PromptNo(p) PROVE OpenInv'
  BY <1>20 DEF PromptNo
<1>21. ASSUME NEW p \in Procs, Reload(p) PROVE OpenInv'
  BY <1>21 DEF Reload
<1>22. ASSUME NEW p \in Procs, SaveTruncate(p) PROVE OpenInv'
  BY <1>22 DEF SaveTruncate
<1>23. ASSUME NEW p \in Procs, SaveFlush(p) PROVE OpenInv'
  BY <1>23 DEF SaveFlush
<1>24. ASSUME NEW p \in Procs, SaveFails(p) PROVE OpenInv'
  BY <1>24 DEF SaveFails
<1>25. ASSUME NEW p \in Procs, CommitSetup(p) PROVE OpenInv'
  BY <1>25 DEF CommitSetup
<1>26. ASSUME NEW p \in Procs, DetachTimer(p) PROVE OpenInv'
  BY <1>26 DEF DetachTimer
<1>27. ASSUME NEW p \in Procs, Listen(p) PROVE OpenInv'
  BY <1>27 DEF Listen
<1>28. ASSUME NEW p \in Procs, ListenFails(p) PROVE OpenInv'
  BY <1>28 DEF ListenFails
<1>29. ASSUME NEW p \in Procs, LocalConnect(p) PROVE OpenInv'
  BY <1>29 DEF LocalConnect
<1>30. ASSUME NEW p \in Procs, Health(p) PROVE OpenInv'
  BY <1>30 DEF Health
<1>31. ASSUME NEW p \in Procs, Accept(p) PROVE OpenInv'
  BY <1>31 DEF Accept
<1>32. ASSUME NEW p \in Procs, OpenChannel(p) PROVE OpenInv'
  BY <1>32 DEF OpenChannel
<1>33. ASSUME NEW p \in Procs, LocalCloses(p) PROVE OpenInv'
  BY <1>33 DEF LocalCloses
<1>40. ASSUME NEW p \in Procs, ForwardChannel(p) PROVE OpenInv'
  BY <1>40 DEF ForwardChannel
<1>41. ASSUME NEW p \in Procs, ForwardLocal(p) PROVE OpenInv'
  BY <1>41 DEF ForwardLocal
<1>42. ASSUME NEW p \in Procs, ArmTimer(p) PROVE OpenInv'
  BY <1>42 DEF ArmTimer
<1>43. ASSUME NEW p \in Procs, Attach(p) PROVE OpenInv'
  BY <1>43 DEF Attach
<1>44. ASSUME NEW p \in Procs, TooLate(p) PROVE OpenInv'
  BY <1>44 DEF TooLate
<1>34. ASSUME NEW p \in Procs, AcceptLoopEnds(p) PROVE OpenInv'
  BY <1>34 DEF AcceptLoopEnds
<1>35. ASSUME NEW p \in Procs, Close(p) PROVE OpenInv'
  BY <1>35 DEF Close
<1>36. ASSUME NEW p \in Procs, StopListener(p) PROVE OpenInv'
  BY <1>36 DEF StopListener
<1>37. ASSUME NEW p \in Procs, StopTransport(p) PROVE OpenInv'
  BY <1>37 DEF StopTransport
<1>38. ASSUME NEW p \in Procs, Killed(p) PROVE OpenInv'
  BY <1>38 DEF Killed
<1>39. CASE UNCHANGED vars
  BY <1>39 DEF vars
<1> QED
    BY <1>1, <1>2, <1>3, <1>4, <1>5, <1>6, <1>7, <1>8, <1>9, <1>10, <1>11, <1>12, <1>13,
     <1>14, <1>15, <1>16, <1>17, <1>18, <1>19, <1>20, <1>21, <1>22, <1>23, <1>24, <1>25,
     <1>26, <1>27, <1>28, <1>29, <1>30, <1>31, <1>32, <1>33, <1>34, <1>35, <1>36, <1>37,
     <1>38, <1>39, <1>40, <1>41, <1>42, <1>43, <1>44
     DEF Next, TimerStep, ServerStep, DialStep, ForwardStep, VerifyStep, PromptStep,
                SaveStep, CommitStep, ListenStep, LoopStep, StopStep

-----------------------------------------------------------------------------
(* A step that touches neither the file nor what the processes hold of it keeps  *)
(* both free of second keys.                                                    *)
LEMMA SnapQuiet ==
  ASSUME Types, SnapInv, OnePerHost(file), NEW p \in Procs, UNCHANGED file,
         \/ UNCHANGED <<pc, job>>
         \/ \E l, j : /\ l # "save" /\ OnePerHost(j.snap)
                      /\ pc' = [pc EXCEPT ![p] = l]
                      /\ job' = [job EXCEPT ![p] = j]
  PROVE  SnapInv' /\ OnePerHost(file)'
BY DEF SnapInv, Types, OnePerHost

(* No process puts a second key of a host into the file, however accesses cross. *)
LEMMA SnapKept ==
  ASSUME Types, SnapInv, OnePerHost(file), [Next]_vars
  PROVE  SnapInv' /\ OnePerHost(file)'
<1> USE DEF fileVars, timerVars, tunnelVars, history, Goto, Ends, Spent
<1> DEFINE Goal == SnapInv' /\ OnePerHost(file)'
<1>0. /\ OnePerHost(NoJob.snap)
      /\ \A p \in Procs : OnePerHost([NoJob EXCEPT !.kind = job[p].kind].snap)
  BY NoJobFacts, JobParts DEF OnePerHost
<1>a. \A p \in Procs : job = [job EXCEPT ![p] = job[p]] /\ OnePerHost(job[p].snap)
  BY DEF Types, SnapInv
<1>1. ASSUME NEW p \in Procs, BeginRefused(p) PROVE Goal
  BY <1>1, <1>0, <1>a, SnapQuiet DEF BeginRefused, Fail
<1>2. ASSUME NEW p \in Procs, Begin(p) PROVE Goal
  <2>1. PICK f \in Files, call \in Calls[p] :
          job' = [job EXCEPT ![p] =
                    [kind    |-> call[1],
                     policy  |-> call[2],
                     host    |-> HostOf[Selected(f, call[3])],
                     key     |-> NoJob.key,
                     snap    |-> IF call[1] = "enroll" THEN file ELSE {},
                     persist |-> call[1] = "tunnel" \/ exists]]
    BY <1>2 DEF Begin
  <2> DEFINE j == [kind    |-> call[1],
                   policy  |-> call[2],
                   host    |-> HostOf[Selected(f, call[3])],
                   key     |-> NoJob.key,
                   snap    |-> IF call[1] = "enroll" THEN file ELSE {},
                   persist |-> call[1] = "tunnel" \/ exists]
  <2>2. OnePerHost(j.snap)
    BY DEF OnePerHost
  <2>3. job' = [job EXCEPT ![p] = j]
    BY <2>1
  <2> HIDE DEF j
  <2> QED BY <1>2, <2>2, <2>3, SnapQuiet DEF Begin
<1>3. ASSUME NEW p \in Procs, Lapse(p) PROVE Goal
  BY <1>3, SnapQuiet DEF Lapse
<1>4. ASSUME NEW p \in Procs, TimerFires(p) PROVE Goal
  BY <1>4, SnapQuiet DEF TimerFires
<1>5. ASSUME NEW p \in Procs, ExpireSetup(p) PROVE Goal
  BY <1>5, SnapQuiet DEF ExpireSetup
<1>6. ASSUME NEW p \in Procs, Dial(p) PROVE Goal
  BY <1>6, <1>0, <1>a, SnapQuiet DEF Dial, Fail
<1>7. ASSUME NEW p \in Procs, NetworkFails(p) PROVE Goal
  <2>1. /\ pc' = [pc EXCEPT ![p] = "done"] /\ UNCHANGED file
        /\ job' = [job EXCEPT ![p] = [NoJob EXCEPT !.kind = job[p].kind]]
    BY <1>7, FailTyped DEF NetworkFails
  <2> QED BY <1>0, <2>1, SnapQuiet
<1>8. ASSUME NEW p \in Procs, KeyExchange(p) PROVE Goal
  <2>1. PICK k : job' = [job EXCEPT ![p] = [job[p] EXCEPT !.key = k]]
    BY <1>8 DEF KeyExchange
  <2>2. [job[p] EXCEPT !.key = k].snap = job[p].snap
    BY JobParts DEF Jobs
  <2> QED BY <1>8, <1>a, <2>1, <2>2, SnapQuiet DEF KeyExchange
<1>9. ASSUME NEW p \in Procs, Authenticate(p) PROVE Goal
  BY <1>9, <1>0, <1>a, SnapQuiet DEF Authenticate, Fail
<1>10. ASSUME NEW p \in Procs, AuthenticationRefused(p) PROVE Goal
  BY <1>10, <1>0, <1>a, SnapQuiet DEF AuthenticationRefused, Fail
<1>11. ASSUME NEW p \in Procs, Enroll(p) PROVE Goal
  BY <1>11, <1>0, SnapQuiet DEF Enroll
<1>12. ASSUME NEW p \in Procs, TransportBreaks(p) PROVE Goal
  BY <1>12, SnapQuiet DEF TransportBreaks
<1>13. ASSUME NEW p \in Procs, VerifyKnown(p) PROVE Goal
  BY <1>13, <1>0, SnapQuiet DEF VerifyKnown, Trusts
<1>14. ASSUME NEW p \in Procs, VerifyMismatch(p) PROVE Goal
  BY <1>14, <1>0, <1>a, SnapQuiet DEF VerifyMismatch, Fail
<1>15. ASSUME NEW p \in Procs, VerifyUnknownRefused(p) PROVE Goal
  BY <1>15, <1>0, <1>a, SnapQuiet DEF VerifyUnknownRefused, Fail
<1>16. ASSUME NEW p \in Procs, VerifyUnknownAccepted(p) PROVE Goal
  <2>1. /\ pc' = [pc EXCEPT ![p] = "save"] /\ UNCHANGED file
        /\ job' = [job EXCEPT ![p] = [job[p] EXCEPT !.snap = Loaded(p)]]
    BY <1>16 DEF VerifyUnknownAccepted
  <2>2. /\ [job[p] EXCEPT !.snap = Loaded(p)].snap = Loaded(p)
        /\ [job[p] EXCEPT !.snap = Loaded(p)].host = job[p].host
    BY JobParts DEF Jobs
  <2>3. OnePerHost(Loaded(p)) /\ \A q \in Loaded(p) : q[1] # job[p].host
    <3>1. KnownKeys(p) = {}
      BY <1>16 DEF VerifyUnknownAccepted
    <3> QED BY <1>a, <3>1 DEF KnownKeys, Loaded
  <2> QED BY <2>1, <2>2, <2>3 DEF SnapInv, Types
<1>17. ASSUME NEW p \in Procs, VerifyUnknownUnsaved(p) PROVE Goal
  BY <1>17, <1>0, SnapQuiet DEF VerifyUnknownUnsaved, Trusts
<1>18. ASSUME NEW p \in Procs, Prompt(p) PROVE Goal
  <2>1. job' = [job EXCEPT ![p] = [job[p] EXCEPT !.snap = {}]]
    BY <1>18 DEF Prompt
  <2>2. OnePerHost([job[p] EXCEPT !.snap = {}].snap)
    BY JobParts DEF Jobs, OnePerHost
  <2> QED BY <1>18, <2>1, <2>2, SnapQuiet DEF Prompt
<1>19. ASSUME NEW p \in Procs, PromptYes(p) PROVE Goal
  BY <1>19, <1>0, <1>a, SnapQuiet DEF PromptYes, Fail
<1>20. ASSUME NEW p \in Procs, PromptNo(p) PROVE Goal
  BY <1>20, <1>0, <1>a, SnapQuiet DEF PromptNo, Fail
<1>21. ASSUME NEW p \in Procs, Reload(p) PROVE Goal
  <2> DEFINE S == {q \in file : q[1] # job[p].host}
  <2>1. /\ pc' = [pc EXCEPT ![p] = "save"] /\ UNCHANGED file
        /\ job' = [job EXCEPT ![p] = [job[p] EXCEPT !.snap = S]]
    BY <1>21 DEF Reload
  <2>2. /\ [job[p] EXCEPT !.snap = S].snap = S
        /\ [job[p] EXCEPT !.snap = S].host = job[p].host
    BY JobParts DEF Jobs
  <2>3. OnePerHost(S) /\ \A q \in S : q[1] # job[p].host
    BY DEF OnePerHost
  <2> QED BY <2>1, <2>2, <2>3 DEF SnapInv, Types
<1>22. ASSUME NEW p \in Procs, SaveTruncate(p) PROVE Goal
  <2> DEFINE mine == job[p].snap \union {Pin(p)}
             new == IF job[p].kind = "enroll" /\ job[p].policy = "accept"
                    THEN mine \union {q \in file : \A r \in mine : q[1] # r[1]}
                    ELSE mine
  <2>1. /\ pc' = [pc EXCEPT ![p] = "flush"] /\ file' = {}
        /\ job' = [job EXCEPT ![p] = [job[p] EXCEPT !.snap = new]]
    BY <1>22 DEF SaveTruncate
  <2>2. [job[p] EXCEPT !.snap = new].snap = new
    BY JobParts DEF Jobs
  <2>3. OnePerHost(new)
    <3>1. \A q \in job[p].snap : q[1] # Pin(p)[1]
      BY <1>22 DEF SaveTruncate, SnapInv, Pin
    <3>2. OnePerHost(job[p].snap) /\ OnePerHost(file)
      BY <1>a
    <3>3. /\ OnePerHost(mine)
          /\ OnePerHost(mine \union {q \in file : \A r \in mine : q[1] # r[1]})
      BY <3>1, <3>2, OnePerHostGrows
    <3> QED BY <3>3
  <2> HIDE DEF new
  <2> QED BY <2>1, <2>2, <2>3 DEF SnapInv, Types, OnePerHost
<1>23. ASSUME NEW p \in Procs, SaveFlush(p) PROVE Goal
  <2>1. /\ pc' = [pc EXCEPT ![p] = "auth"] /\ file' = job[p].snap
        /\ job' = [job EXCEPT ![p] = [NoJob EXCEPT !.kind = job[p].kind]]
    BY <1>23 DEF SaveFlush, Trusts
  <2> QED BY <1>0, <1>a, <2>1 DEF SnapInv, Types
<1>24. ASSUME NEW p \in Procs, SaveFails(p) PROVE Goal
  <2>1. PICK l \in {"auth", "done"} : pc' = [pc EXCEPT ![p] = l]
    BY <1>24 DEF SaveFails, Fail, Trusts
  <2>2. job' = [job EXCEPT ![p] = [NoJob EXCEPT !.kind = job[p].kind]] /\ UNCHANGED file
    BY <1>24 DEF SaveFails, Fail, Trusts
  <2> QED BY <1>0, <2>1, <2>2, SnapQuiet
<1>25. ASSUME NEW p \in Procs, CommitSetup(p) PROVE Goal
  <2>1. CASE timedOut[p] \/ lapsed[p]
    <3>1. /\ pc' = [pc EXCEPT ![p] = "done"] /\ UNCHANGED file
          /\ job' = [job EXCEPT ![p] = [NoJob EXCEPT !.kind = job[p].kind]]
      BY <1>25, <2>1, FailTyped DEF CommitSetup
    <3> QED BY <1>0, <3>1, SnapQuiet
  <2>2. CASE ~(timedOut[p] \/ lapsed[p])
    <3>1. pc' = [pc EXCEPT ![p] = "detach"] /\ job' = job /\ UNCHANGED file
      BY <1>25, <2>2 DEF CommitSetup
    <3> QED BY <1>a, <3>1, SnapQuiet
  <2> QED BY <2>1, <2>2
<1>26. ASSUME NEW p \in Procs, DetachTimer(p) PROVE Goal
  BY <1>26, <1>0, <1>a, SnapQuiet DEF DetachTimer, Fail
<1>27. ASSUME NEW p \in Procs, Listen(p) PROVE Goal
  BY <1>27, <1>0, <1>a, SnapQuiet DEF Listen, Fail
<1>28. ASSUME NEW p \in Procs, ListenFails(p) PROVE Goal
  BY <1>28, <1>0, <1>a, SnapQuiet DEF ListenFails, Fail
<1>29. ASSUME NEW p \in Procs, LocalConnect(p) PROVE Goal
  BY <1>29, SnapQuiet DEF LocalConnect
<1>30. ASSUME NEW p \in Procs, Health(p) PROVE Goal
  <2>1. PICK l \in {"ready", "stop_listener"} : pc' = [pc EXCEPT ![p] = l]
    BY <1>30 DEF Health
  <2>2. job' = job /\ UNCHANGED file
    BY <1>30 DEF Health
  <2> QED BY <1>a, <2>1, <2>2, SnapQuiet
<1>31. ASSUME NEW p \in Procs, Accept(p) PROVE Goal
  BY <1>31, SnapQuiet DEF Accept
<1>32. ASSUME NEW p \in Procs, OpenChannel(p) PROVE Goal
  BY <1>32, SnapQuiet DEF OpenChannel
<1>33. ASSUME NEW p \in Procs, LocalCloses(p) PROVE Goal
  BY <1>33, SnapQuiet DEF LocalCloses
<1>40. ASSUME NEW p \in Procs, ForwardChannel(p) PROVE Goal
  BY <1>40, SnapQuiet DEF ForwardChannel
<1>41. ASSUME NEW p \in Procs, ForwardLocal(p) PROVE Goal
  BY <1>41, SnapQuiet DEF ForwardLocal
<1>42. ASSUME NEW p \in Procs, ArmTimer(p) PROVE Goal
  BY <1>42, <1>0, <1>a, SnapQuiet DEF ArmTimer, Fail
<1>43. ASSUME NEW p \in Procs, Attach(p) PROVE Goal
  BY <1>43, <1>0, <1>a, SnapQuiet DEF Attach, Fail
<1>44. ASSUME NEW p \in Procs, TooLate(p) PROVE Goal
  BY <1>44, <1>0, <1>a, SnapQuiet DEF TooLate, Fail
<1>34. ASSUME NEW p \in Procs, AcceptLoopEnds(p) PROVE Goal
  BY <1>34, SnapQuiet DEF AcceptLoopEnds
<1>35. ASSUME NEW p \in Procs, Close(p) PROVE Goal
  BY <1>35, <1>0, <1>a, SnapQuiet DEF Close, Fail
<1>36. ASSUME NEW p \in Procs, StopListener(p) PROVE Goal
  BY <1>36, <1>0, <1>a, SnapQuiet DEF StopListener, Fail
<1>37. ASSUME NEW p \in Procs, StopTransport(p) PROVE Goal
  BY <1>37, <1>0, <1>a, SnapQuiet DEF StopTransport, Fail
<1>38. ASSUME NEW p \in Procs, Killed(p) PROVE Goal
  BY <1>38, <1>0, <1>a, SnapQuiet DEF Killed, Fail
<1>39. CASE UNCHANGED vars
  BY <1>39 DEF vars, SnapInv, OnePerHost
<1> QED
    BY <1>1, <1>2, <1>3, <1>4, <1>5, <1>6, <1>7, <1>8, <1>9, <1>10, <1>11, <1>12, <1>13,
     <1>14, <1>15, <1>16, <1>17, <1>18, <1>19, <1>20, <1>21, <1>22, <1>23, <1>24, <1>25,
     <1>26, <1>27, <1>28, <1>29, <1>30, <1>31, <1>32, <1>33, <1>34, <1>35, <1>36, <1>37,
     <1>38, <1>39, <1>40, <1>41, <1>42, <1>43, <1>44
     DEF Next, TimerStep, ServerStep, DialStep, ForwardStep, VerifyStep, PromptStep,
                SaveStep, CommitStep, ListenStep, LoopStep, StopStep

-----------------------------------------------------------------------------
(* Two steps that cannot harm the pins: one after which accesses have crossed,   *)
(* and one that changes no pin and neither begins nor ends a save.               *)
LEMMA PinQuiet ==
  ASSUME Types, PinInv, NEW p \in Procs,
         \/ disturbed' = TRUE
         \/ /\ UNCHANGED <<file, trusted, disturbed>>
            /\ \/ UNCHANGED <<pc, job>>
               \/ \E l, j : /\ pc[p] # "flush" /\ l # "flush"
                            /\ pc' = [pc EXCEPT ![p] = l]
                            /\ job' = [job EXCEPT ![p] = j]
  PROVE  PinInv'
BY DEF PinInv, Types, Pin

(* A note of nothing leaves the history alone, or says that accesses crossed. *)
LEMMA NoteNothing ==
  ASSUME Types, NEW b \in BOOLEAN, Note({}, b)
  PROVE  disturbed' = TRUE \/ UNCHANGED <<trusted, disturbed>>
<1>1. CASE disturbed \/ b
  BY <1>1 DEF Note, Types
<1>2. CASE ~(disturbed \/ b)
  BY <1>2 DEF Note, Types
<1> QED BY <1>1, <1>2

(* Unless accesses cross, the pins relied on are in the file, or in the hands of *)
(* the one process that is writing it.                                          *)
LEMMA PinKept ==
  ASSUME Types, SnapInv, PinInv, [Next]_vars
  PROVE  PinInv'
<1> USE DEF fileVars, timerVars, tunnelVars, history, Goto, Ends, Spent
<1>a. \A p \in Procs : job = [job EXCEPT ![p] = job[p]]
  BY DEF Types
<1>1. ASSUME NEW p \in Procs, BeginRefused(p) PROVE PinInv'
  BY <1>1, <1>a, PinQuiet DEF BeginRefused, Fail
<1>2. ASSUME NEW p \in Procs, Begin(p) PROVE PinInv'
  <2>1. PICK b, j : b \in BOOLEAN /\ Note({}, b) /\ job' = [job EXCEPT ![p] = j]
    <3>1. PICK f \in Files, call \in Calls[p] :
            /\ job' = [job EXCEPT ![p] =
                         [kind    |-> call[1],
                          policy  |-> call[2],
                          host    |-> HostOf[Selected(f, call[3])],
                          key     |-> NoJob.key,
                          snap    |-> IF call[1] = "enroll" THEN file ELSE {},
                          persist |-> call[1] = "tunnel" \/ exists]]
            /\ Note({}, call[1] = "enroll" /\ OtherWrites(p))
      BY <1>2 DEF Begin
    <3> QED BY <3>1
  <2>2. pc[p] # "flush" /\ pc' = [pc EXCEPT ![p] = "dial"] /\ UNCHANGED file
    BY <1>2 DEF Begin
  <2> QED BY <2>1, <2>2, NoteNothing, PinQuiet
<1>3. ASSUME NEW p \in Procs, Lapse(p) PROVE PinInv'
  BY <1>3, PinQuiet DEF Lapse
<1>4. ASSUME NEW p \in Procs, TimerFires(p) PROVE PinInv'
  BY <1>4, PinQuiet DEF TimerFires
<1>5. ASSUME NEW p \in Procs, ExpireSetup(p) PROVE PinInv'
  BY <1>5, PinQuiet DEF ExpireSetup
<1>6. ASSUME NEW p \in Procs, Dial(p) PROVE PinInv'
  BY <1>6, <1>a, PinQuiet DEF Dial, Fail
<1>7. ASSUME NEW p \in Procs, NetworkFails(p) PROVE PinInv'
  <2>1. /\ pc' = [pc EXCEPT ![p] = "done"] /\ pc[p] # "flush"
        /\ job' = [job EXCEPT ![p] = [NoJob EXCEPT !.kind = job[p].kind]]
        /\ UNCHANGED <<file, trusted, disturbed>>
    BY <1>7 DEF NetworkFails, Fail
  <2> QED BY <2>1, PinQuiet
<1>8. ASSUME NEW p \in Procs, KeyExchange(p) PROVE PinInv'
  BY <1>8, <1>a, PinQuiet DEF KeyExchange, Fail
<1>9. ASSUME NEW p \in Procs, Authenticate(p) PROVE PinInv'
  BY <1>9, <1>a, PinQuiet DEF Authenticate, Fail
<1>10. ASSUME NEW p \in Procs, AuthenticationRefused(p) PROVE PinInv'
  BY <1>10, <1>a, PinQuiet DEF AuthenticationRefused, Fail
<1>11. ASSUME NEW p \in Procs, Enroll(p) PROVE PinInv'
  BY <1>11, PinQuiet DEF Enroll
<1>12. ASSUME NEW p \in Procs, TransportBreaks(p) PROVE PinInv'
  BY <1>12, PinQuiet DEF TransportBreaks
<1>13. ASSUME NEW p \in Procs, VerifyKnown(p) PROVE PinInv'
  <2>1. CASE disturbed \/ Stale(p)
    BY <1>13, <2>1, PinQuiet DEF VerifyKnown, Note, Types
  <2>2. CASE ~(disturbed \/ Stale(p))
    <3>1. /\ disturbed' = FALSE /\ trusted' = trusted \union {Pin(p)} /\ UNCHANGED file
          /\ pc' = [pc EXCEPT ![p] = "auth"] /\ pc[p] = "verify"
          /\ job' = [job EXCEPT ![p] = [NoJob EXCEPT !.kind = job[p].kind]]
      BY <1>13, <2>2 DEF VerifyKnown, Note, Trusts, Types
    <3>2. Pin(p) \in file
      <4>1. PICK r \in file : r[1] = job[p].host /\ r[2] = job[p].key
        BY <1>13, <2>2 DEF VerifyKnown, KnownKeys, Stale
      <4>2. r = <<r[1], r[2]>>
        BY DEF Types, Pins
      <4> QED BY <4>1, <4>2 DEF Pin
    <3>3. \A q \in Procs : pc[q] # "flush"
      BY <2>2, <3>2 DEF PinInv, Types
    <3> QED BY <2>2, <3>1, <3>2, <3>3 DEF PinInv, Types
  <2> QED BY <2>1, <2>2
<1>14. ASSUME NEW p \in Procs, VerifyMismatch(p) PROVE PinInv'
  BY <1>14, <1>a, PinQuiet DEF VerifyMismatch, Fail
<1>15. ASSUME NEW p \in Procs, VerifyUnknownRefused(p) PROVE PinInv'
  BY <1>15, <1>a, PinQuiet DEF VerifyUnknownRefused, Fail
<1>16. ASSUME NEW p \in Procs, VerifyUnknownAccepted(p) PROVE PinInv'
  <2>1. Note({}, Stale(p))
    BY <1>16 DEF VerifyUnknownAccepted
  <2>2. /\ pc[p] # "flush" /\ pc' = [pc EXCEPT ![p] = "save"] /\ UNCHANGED file
        /\ job' = [job EXCEPT ![p] = [job[p] EXCEPT !.snap = Loaded(p)]]
    BY <1>16 DEF VerifyUnknownAccepted
  <2>3. Stale(p) \in BOOLEAN
    BY DEF Stale
  <2> QED BY <2>1, <2>2, <2>3, NoteNothing, PinQuiet
<1>17. ASSUME NEW p \in Procs, VerifyUnknownUnsaved(p) PROVE PinInv'
  BY <1>17, PinQuiet DEF VerifyUnknownUnsaved, Note, Types
<1>18. ASSUME NEW p \in Procs, Prompt(p) PROVE PinInv'
  BY <1>18, <1>a, PinQuiet DEF Prompt, Fail
<1>19. ASSUME NEW p \in Procs, PromptYes(p) PROVE PinInv'
  BY <1>19, <1>a, PinQuiet DEF PromptYes, Fail
<1>20. ASSUME NEW p \in Procs, PromptNo(p) PROVE PinInv'
  BY <1>20, <1>a, PinQuiet DEF PromptNo, Fail
<1>21. ASSUME NEW p \in Procs, Reload(p) PROVE PinInv'
  <2>1. Note({}, (\E q \in file : q[1] = job[p].host) \/ OtherWrites(p))
    BY <1>21 DEF Reload
  <2>2. /\ pc[p] # "flush" /\ pc' = [pc EXCEPT ![p] = "save"] /\ UNCHANGED file
        /\ job' = [job EXCEPT ![p] = [job[p] EXCEPT !.snap = {q \in file : q[1] # job[p].host}]]
    BY <1>21 DEF Reload
  <2> QED BY <2>1, <2>2, NoteNothing, PinQuiet
<1>22. ASSUME NEW p \in Procs, SaveTruncate(p) PROVE PinInv'
  <2>1. CASE disturbed \/ file # job[p].snap \/ OtherWrites(p)
    BY <1>22, <2>1, PinQuiet DEF SaveTruncate, Note, Types
  <2>2. CASE ~(disturbed \/ file # job[p].snap \/ OtherWrites(p))
    <3> DEFINE mine == job[p].snap \union {Pin(p)}
               new == IF job[p].kind = "enroll" /\ job[p].policy = "accept"
                      THEN mine \union {q \in file : \A r \in mine : q[1] # r[1]}
                      ELSE mine
    <3>1. /\ pc' = [pc EXCEPT ![p] = "flush"] /\ pc[p] = "save" /\ file' = {}
          /\ job' = [job EXCEPT ![p] = [job[p] EXCEPT !.snap = new]]
          /\ disturbed' = FALSE /\ trusted' = trusted
      BY <1>22, <2>2 DEF SaveTruncate, Note, Types
    <3>2. /\ \A q \in Procs : pc[q] # "flush"
          /\ trusted \subseteq file
      BY <2>2, <3>1 DEF OtherWrites, PinInv, Types
    <3>3. trusted \union {Pin(p)} \subseteq new
      BY <2>2, <3>2
    <3>4. job'[p].snap = new /\ Pin(p)' = Pin(p)
      <4>1. job'[p] = [job[p] EXCEPT !.snap = new]
        BY <3>1 DEF Types
      <4> QED BY <4>1, JobParts DEF Pin, Jobs
    <3> HIDE DEF new
    <3> QED BY <3>1, <3>2, <3>3, <3>4 DEF PinInv, Types
  <2> QED BY <2>1, <2>2
<1>23. ASSUME NEW p \in Procs, SaveFlush(p) PROVE PinInv'
  <2>1. CASE disturbed \/ OtherWrites(p)
    BY <1>23, <2>1, PinQuiet DEF SaveFlush, Note, Types
  <2>2. CASE ~(disturbed \/ OtherWrites(p))
    <3>1. /\ disturbed' = FALSE /\ trusted' = trusted \union {Pin(p)} /\ file' = job[p].snap
          /\ pc' = [pc EXCEPT ![p] = "auth"] /\ pc[p] = "flush"
      BY <1>23, <2>2 DEF SaveFlush, Note, Trusts, Types
    <3>2. \A q \in Procs : pc'[q] # "flush"
      BY <2>2, <3>1 DEF OtherWrites, Types
    <3>3. trusted' \subseteq file'
      BY <2>2, <3>1 DEF PinInv, Types
    <3> QED BY <3>2, <3>3 DEF PinInv
  <2> QED BY <2>1, <2>2
<1>24. ASSUME NEW p \in Procs, SaveFails(p) PROVE PinInv'
  <2>1. CASE job[p].policy = "prompt" \/ pc[p] = "flush"
    BY <1>24, <2>1, PinQuiet DEF SaveFails, Note, Types
  <2>2. CASE ~(job[p].policy = "prompt" \/ pc[p] = "flush")
    <3>1. Note({}, FALSE)
      BY <1>24, <2>2 DEF SaveFails
    <3>2. /\ pc' = [pc EXCEPT ![p] = "done"] /\ UNCHANGED file
          /\ job' = [job EXCEPT ![p] = [NoJob EXCEPT !.kind = job[p].kind]]
      BY <1>24, <2>2 DEF SaveFails, Fail
    <3> QED BY <2>2, <3>1, <3>2, NoteNothing, PinQuiet
  <2> QED BY <2>1, <2>2
<1>25. ASSUME NEW p \in Procs, CommitSetup(p) PROVE PinInv'
  <2>1. CASE timedOut[p] \/ lapsed[p]
    <3>1. /\ pc' = [pc EXCEPT ![p] = "done"] /\ pc[p] # "flush"
          /\ job' = [job EXCEPT ![p] = [NoJob EXCEPT !.kind = job[p].kind]]
          /\ UNCHANGED <<file, trusted, disturbed>>
      BY <1>25, <2>1, FailTyped DEF CommitSetup
    <3> QED BY <3>1, PinQuiet
  <2>2. CASE ~(timedOut[p] \/ lapsed[p])
    <3>1. pc' = [pc EXCEPT ![p] = "detach"] /\ job' = job /\ pc[p] = "commit"
      BY <1>25, <2>2 DEF CommitSetup
    <3>2. UNCHANGED <<file, trusted, disturbed>>
      BY <1>25 DEF CommitSetup
    <3> QED BY <1>a, <3>1, <3>2, PinQuiet
  <2> QED BY <2>1, <2>2
<1>26. ASSUME NEW p \in Procs, DetachTimer(p) PROVE PinInv'
  <2>1. PICK l \in {"listen", "exec"} : pc' = [pc EXCEPT ![p] = l]
    BY <1>26 DEF DetachTimer
  <2>2. pc[p] # "flush" /\ job' = job /\ UNCHANGED <<file, trusted, disturbed>>
    BY <1>26 DEF DetachTimer
  <2> QED BY <1>a, <2>1, <2>2, PinQuiet
<1>27. ASSUME NEW p \in Procs, Listen(p) PROVE PinInv'
  BY <1>27, <1>a, PinQuiet DEF Listen, Fail
<1>28. ASSUME NEW p \in Procs, ListenFails(p) PROVE PinInv'
  BY <1>28, <1>a, PinQuiet DEF ListenFails, Fail
<1>29. ASSUME NEW p \in Procs, LocalConnect(p) PROVE PinInv'
  BY <1>29, PinQuiet DEF LocalConnect
<1>30. ASSUME NEW p \in Procs, Health(p) PROVE PinInv'
  <2>1. PICK l \in {"ready", "stop_listener"} : pc' = [pc EXCEPT ![p] = l]
    BY <1>30 DEF Health
  <2>2. pc[p] # "flush" /\ job' = job /\ UNCHANGED <<file, trusted, disturbed>>
    BY <1>30 DEF Health
  <2> QED BY <1>a, <2>1, <2>2, PinQuiet
<1>31. ASSUME NEW p \in Procs, Accept(p) PROVE PinInv'
  BY <1>31, PinQuiet DEF Accept
<1>32. ASSUME NEW p \in Procs, OpenChannel(p) PROVE PinInv'
  BY <1>32, PinQuiet DEF OpenChannel
<1>33. ASSUME NEW p \in Procs, LocalCloses(p) PROVE PinInv'
  BY <1>33, PinQuiet DEF LocalCloses
<1>40. ASSUME NEW p \in Procs, ForwardChannel(p) PROVE PinInv'
  BY <1>40, PinQuiet DEF ForwardChannel
<1>41. ASSUME NEW p \in Procs, ForwardLocal(p) PROVE PinInv'
  BY <1>41, PinQuiet DEF ForwardLocal
<1>42. ASSUME NEW p \in Procs, ArmTimer(p) PROVE PinInv'
  BY <1>42, <1>a, PinQuiet DEF ArmTimer, Fail
<1>43. ASSUME NEW p \in Procs, Attach(p) PROVE PinInv'
  BY <1>43, <1>a, PinQuiet DEF Attach, Fail
<1>44. ASSUME NEW p \in Procs, TooLate(p) PROVE PinInv'
  BY <1>44, <1>a, PinQuiet DEF TooLate, Fail
<1>34. ASSUME NEW p \in Procs, AcceptLoopEnds(p) PROVE PinInv'
  BY <1>34, PinQuiet DEF AcceptLoopEnds
<1>35. ASSUME NEW p \in Procs, Close(p) PROVE PinInv'
  BY <1>35, <1>a, PinQuiet DEF Close, Fail
<1>36. ASSUME NEW p \in Procs, StopListener(p) PROVE PinInv'
  BY <1>36, <1>a, PinQuiet DEF StopListener, Fail
<1>37. ASSUME NEW p \in Procs, StopTransport(p) PROVE PinInv'
  BY <1>37, <1>a, PinQuiet DEF StopTransport, Fail
<1>38. ASSUME NEW p \in Procs, Killed(p) PROVE PinInv'
  <2>1. CASE pc[p] = "flush"
    BY <1>38, <2>1, PinQuiet DEF Killed, Note, Types
  <2>2. CASE pc[p] # "flush"
    <3>1. Note({}, FALSE)
      BY <1>38, <2>2 DEF Killed
    <3>2. /\ pc' = [pc EXCEPT ![p] = "done"] /\ UNCHANGED file
          /\ job' = [job EXCEPT ![p] = [NoJob EXCEPT !.kind = job[p].kind]]
      BY <1>38 DEF Killed
    <3> QED BY <2>2, <3>1, <3>2, NoteNothing, PinQuiet
  <2> QED BY <2>1, <2>2
<1>39. CASE UNCHANGED vars
  BY <1>39 DEF vars, PinInv, Pin
<1> QED
    BY <1>1, <1>2, <1>3, <1>4, <1>5, <1>6, <1>7, <1>8, <1>9, <1>10, <1>11, <1>12, <1>13,
     <1>14, <1>15, <1>16, <1>17, <1>18, <1>19, <1>20, <1>21, <1>22, <1>23, <1>24, <1>25,
     <1>26, <1>27, <1>28, <1>29, <1>30, <1>31, <1>32, <1>33, <1>34, <1>35, <1>36, <1>37,
     <1>38, <1>39, <1>40, <1>41, <1>42, <1>43, <1>44
     DEF Next, TimerStep, ServerStep, DialStep, ForwardStep, VerifyStep, PromptStep,
                SaveStep, CommitStep, ListenStep, LoopStep, StopStep

-----------------------------------------------------------------------------
(* In a file that loads, the endpoint a call without alias resolves to is a signer. *)
LEMMA DefaultFound ==
  ASSUME NEW f \in Files, Resolves(f, NoAlias)
  PROVE  DefaultOf(f) \in WithRole(f, "signer")
<1>1. DefaultOf(f) \in DOMAIN f.endpoints /\ DOMAIN f.endpoints \subseteq Aliases
  BY SshAssumption DEF Resolves, Selected
<1>2. CASE f.default # NoAlias
  BY <1>2 DEF DefaultOf, Resolves, Loads
<1>3. CASE f.default = NoAlias
  <2>1. WithRole(f, "signer") # {}
    BY <1>1, <1>3, NoAliasAssumption DEF DefaultOf
  <2>2. \E a \in Aliases : a \in WithRole(f, "signer")
    BY <1>1, <2>1 DEF WithRole
  <2> QED BY <1>3, <2>1, <2>2 DEF DefaultOf
<1> QED BY <1>2, <1>3

(* Only Begin routes a call. *)
LEMMA DefaultKept ==
  ASSUME DefaultIsSigner, [Next]_vars
  PROVE  DefaultIsSigner'
<1> USE DEF history, DefaultIsSigner
<1>1. ASSUME NEW p \in Procs, BeginRefused(p) PROVE DefaultIsSigner'
  BY <1>1 DEF BeginRefused
<1>2. ASSUME NEW p \in Procs, Begin(p) PROVE DefaultIsSigner'
  <2>1. PICK f \in Files, call \in Calls[p] :
          /\ Resolves(f, call[3])
          /\ misrouted' = (misrouted \/ (call[3] = NoAlias /\ DefaultOf(f) \notin WithRole(f, "signer")))
    BY <1>2 DEF Begin
  <2> QED BY <2>1, DefaultFound
<1>3. ASSUME NEW p \in Procs, Lapse(p) PROVE DefaultIsSigner'
  BY <1>3 DEF Lapse
<1>4. ASSUME NEW p \in Procs, TimerFires(p) PROVE DefaultIsSigner'
  BY <1>4 DEF TimerFires
<1>5. ASSUME NEW p \in Procs, ExpireSetup(p) PROVE DefaultIsSigner'
  BY <1>5 DEF ExpireSetup
<1>6. ASSUME NEW p \in Procs, Dial(p) PROVE DefaultIsSigner'
  BY <1>6 DEF Dial
<1>7. ASSUME NEW p \in Procs, NetworkFails(p) PROVE DefaultIsSigner'
  BY <1>7 DEF NetworkFails
<1>8. ASSUME NEW p \in Procs, KeyExchange(p) PROVE DefaultIsSigner'
  BY <1>8 DEF KeyExchange
<1>9. ASSUME NEW p \in Procs, Authenticate(p) PROVE DefaultIsSigner'
  BY <1>9 DEF Authenticate
<1>10. ASSUME NEW p \in Procs, AuthenticationRefused(p) PROVE DefaultIsSigner'
  BY <1>10 DEF AuthenticationRefused
<1>11. ASSUME NEW p \in Procs, Enroll(p) PROVE DefaultIsSigner'
  BY <1>11 DEF Enroll
<1>12. ASSUME NEW p \in Procs, TransportBreaks(p) PROVE DefaultIsSigner'
  BY <1>12 DEF TransportBreaks
<1>13. ASSUME NEW p \in Procs, VerifyKnown(p) PROVE DefaultIsSigner'
  BY <1>13 DEF VerifyKnown
<1>14. ASSUME NEW p \in Procs, VerifyMismatch(p) PROVE DefaultIsSigner'
  BY <1>14 DEF VerifyMismatch
<1>15. ASSUME NEW p \in Procs, VerifyUnknownRefused(p) PROVE DefaultIsSigner'
  BY <1>15 DEF VerifyUnknownRefused
<1>16. ASSUME NEW p \in Procs, VerifyUnknownAccepted(p) PROVE DefaultIsSigner'
  BY <1>16 DEF VerifyUnknownAccepted
<1>17. ASSUME NEW p \in Procs, VerifyUnknownUnsaved(p) PROVE DefaultIsSigner'
  BY <1>17 DEF VerifyUnknownUnsaved
<1>18. ASSUME NEW p \in Procs, Prompt(p) PROVE DefaultIsSigner'
  BY <1>18 DEF Prompt
<1>19. ASSUME NEW p \in Procs, PromptYes(p) PROVE DefaultIsSigner'
  BY <1>19 DEF PromptYes, ResumeDeadline
<1>20. ASSUME NEW p \in Procs, PromptNo(p) PROVE DefaultIsSigner'
  BY <1>20 DEF PromptNo
<1>21. ASSUME NEW p \in Procs, Reload(p) PROVE DefaultIsSigner'
  BY <1>21 DEF Reload
<1>22. ASSUME NEW p \in Procs, SaveTruncate(p) PROVE DefaultIsSigner'
  BY <1>22 DEF SaveTruncate
<1>23. ASSUME NEW p \in Procs, SaveFlush(p) PROVE DefaultIsSigner'
  BY <1>23 DEF SaveFlush
<1>24. ASSUME NEW p \in Procs, SaveFails(p) PROVE DefaultIsSigner'
  BY <1>24 DEF SaveFails
<1>25. ASSUME NEW p \in Procs, CommitSetup(p) PROVE DefaultIsSigner'
  BY <1>25 DEF CommitSetup
<1>26. ASSUME NEW p \in Procs, DetachTimer(p) PROVE DefaultIsSigner'
  BY <1>26 DEF DetachTimer
<1>27. ASSUME NEW p \in Procs, Listen(p) PROVE DefaultIsSigner'
  BY <1>27 DEF Listen
<1>28. ASSUME NEW p \in Procs, ListenFails(p) PROVE DefaultIsSigner'
  BY <1>28 DEF ListenFails
<1>29. ASSUME NEW p \in Procs, LocalConnect(p) PROVE DefaultIsSigner'
  BY <1>29 DEF LocalConnect
<1>30. ASSUME NEW p \in Procs, Health(p) PROVE DefaultIsSigner'
  BY <1>30 DEF Health
<1>31. ASSUME NEW p \in Procs, Accept(p) PROVE DefaultIsSigner'
  BY <1>31 DEF Accept
<1>32. ASSUME NEW p \in Procs, OpenChannel(p) PROVE DefaultIsSigner'
  BY <1>32 DEF OpenChannel
<1>33. ASSUME NEW p \in Procs, LocalCloses(p) PROVE DefaultIsSigner'
  BY <1>33 DEF LocalCloses
<1>40. ASSUME NEW p \in Procs, ForwardChannel(p) PROVE DefaultIsSigner'
  BY <1>40 DEF ForwardChannel
<1>41. ASSUME NEW p \in Procs, ForwardLocal(p) PROVE DefaultIsSigner'
  BY <1>41 DEF ForwardLocal
<1>42. ASSUME NEW p \in Procs, ArmTimer(p) PROVE DefaultIsSigner'
  BY <1>42 DEF ArmTimer
<1>43. ASSUME NEW p \in Procs, Attach(p) PROVE DefaultIsSigner'
  BY <1>43 DEF Attach
<1>44. ASSUME NEW p \in Procs, TooLate(p) PROVE DefaultIsSigner'
  BY <1>44 DEF TooLate
<1>34. ASSUME NEW p \in Procs, AcceptLoopEnds(p) PROVE DefaultIsSigner'
  BY <1>34 DEF AcceptLoopEnds
<1>35. ASSUME NEW p \in Procs, Close(p) PROVE DefaultIsSigner'
  BY <1>35 DEF Close
<1>36. ASSUME NEW p \in Procs, StopListener(p) PROVE DefaultIsSigner'
  BY <1>36 DEF StopListener
<1>37. ASSUME NEW p \in Procs, StopTransport(p) PROVE DefaultIsSigner'
  BY <1>37 DEF StopTransport
<1>38. ASSUME NEW p \in Procs, Killed(p) PROVE DefaultIsSigner'
  BY <1>38 DEF Killed
<1>39. CASE UNCHANGED vars
  BY <1>39 DEF vars
<1> QED
    BY <1>1, <1>2, <1>3, <1>4, <1>5, <1>6, <1>7, <1>8, <1>9, <1>10, <1>11, <1>12, <1>13,
     <1>14, <1>15, <1>16, <1>17, <1>18, <1>19, <1>20, <1>21, <1>22, <1>23, <1>24, <1>25,
     <1>26, <1>27, <1>28, <1>29, <1>30, <1>31, <1>32, <1>33, <1>34, <1>35, <1>36, <1>37,
     <1>38, <1>39, <1>40, <1>41, <1>42, <1>43, <1>44
     DEF Next, TimerStep, ServerStep, DialStep, ForwardStep, VerifyStep, PromptStep,
                SaveStep, CommitStep, ListenStep, LoopStep, StopStep

-----------------------------------------------------------------------------
(* The initial states. *)
LEMMA InitIInv == Init => IInv
<1> SUFFICES ASSUME Init PROVE IInv
  OBVIOUS
<1>1. Types /\ OnePerHost(file)
  BY SshAssumption, NoJobFacts DEF Init, Types, Pins, Setup, Serving, Stopping, ConnStates
<1>2. TimerInv /\ OpenInv /\ DefaultIsSigner
  BY DEF Init, TimerInv, OpenInv, DefaultIsSigner, Setup
<1>3. SnapInv /\ PinInv
  BY NoJobFacts DEF Init, SnapInv, PinInv, OnePerHost
<1> QED BY <1>1, <1>2, <1>3 DEF IInv, TypeOK

(* Every step. *)
LEMMA StepIInv == IInv /\ [Next]_vars => IInv'
BY TypesKept, TimerKept, OpenKept, SnapKept, PinKept, DefaultKept DEF IInv, TypeOK

(* IInv is an invariant of the specification. *)
THEOREM InvariantTheorem == Spec => []IInv
BY InitIInv, StepIInv, PTL DEF Spec

(* The types, and known_hosts never holds two keys for a host, however many        *)
(* processes write it and however their writes cross (_verify_host_key,            *)
(* _InteractiveHostKeyPolicy.missing_host_key).                                    *)
THEOREM TypeTheorem == Spec => []TypeOK
<1>1. IInv => TypeOK
  BY DEF IInv
<1> QED BY <1>1, InvariantTheorem, PTL

(* The setup deadline: once the setup is complete the timer cannot touch the       *)
(* connection, and it ends a setup only if the deadline has passed (expire_setup,  *)
(* pause_setup_deadline, resume_setup_deadline).                                   *)
THEOREM DeadlineTheorem == Spec => []DeadlineDetached
<1>1. IInv => DeadlineDetached
  BY DEF IInv, TimerInv, DeadlineDetached
<1> QED BY <1>1, InvariantTheorem, PTL

(* A setup is never called timed out while the operator was being asked. *)
THEOREM TimeoutTheorem == Spec => []TimeoutIsReal
<1>1. IInv => TimeoutIsReal
  BY DEF IInv, TimerInv, TimeoutIsReal
<1> QED BY <1>1, InvariantTheorem, PTL

(* No call leaves its connection open but the tunnel whose local port is taken     *)
(* after its setup and the enrollment that times out before paramiko has its       *)
(* socket (start, stop, request_enrollment).                                       *)
THEOREM LeakTheorem == Spec => []LeakOnlyKnown
<1>1. IInv => LeakOnlyKnown
  BY DEF IInv, TypeOK, Types, OpenInv, LeakOnlyKnown
<1> QED BY <1>1, InvariantTheorem, PTL

(* Any number of processes: unless their accesses to known_hosts crossed or a      *)
(* save was cut short, a pin relied on is never lost ...                           *)
THEOREM PinsTheorem == Spec => []PinsSurvive
<1>1. IInv => PinsSurvive
  BY DEF IInv, TypeOK, Types, PinInv, PinsSurvive
<1> QED BY <1>1, InvariantTheorem, PTL

(* ... and no host is trusted under two keys. *)
THEOREM OneKeyTheorem == Spec => []OneKeyPerHost
<1>1. IInv => OneKeyPerHost
  <2> SUFFICES ASSUME IInv, disturbed = FALSE
               PROVE  OnePerHost(trusted)
    BY DEF IInv, TypeOK, Types, OneKeyPerHost
  <2>1. CASE \A p \in Procs : pc[p] # "flush"
    BY <2>1 DEF IInv, TypeOK, PinInv, OnePerHost
  <2>2. CASE \E p \in Procs : pc[p] = "flush"
    <3>1. PICK p \in Procs : pc[p] = "flush"
      BY <2>2
    <3>2. trusted \subseteq job[p].snap /\ OnePerHost(job[p].snap)
      BY <3>1 DEF IInv, PinInv, SnapInv
    <3> QED BY <3>2 DEF OnePerHost
  <2> QED BY <2>1, <2>2
<1> QED BY <1>1, InvariantTheorem, PTL

(* For every endpoints file: a call without alias reaches a signer                 *)
(* (load_client_endpoint_registry, resolve_client_endpoint).                       *)
THEOREM DefaultTheorem == Spec => []DefaultIsSigner
<1>1. IInv => DefaultIsSigner
  BY DEF IInv
<1> QED BY <1>1, InvariantTheorem, PTL
=============================================================================
