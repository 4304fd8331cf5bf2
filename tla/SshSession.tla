----------------------------- MODULE SshSession -----------------------------
(***************************************************************************)
(* SSH sessions of Python client processes: SignerClient.from_env, which   *)
(* opens a tunnel, and request_enrollment_from_env, which runs one         *)
(* command.  Each process makes one session.  The processes share the      *)
(* known_hosts file; within a process the calling thread runs beside the   *)
(* timer that ends a setup at its deadline and beside the tunnel's accept  *)
(* loop.                                                                   *)
(*                                                                         *)
(* The SSH server, paramiko and the file system are external.  A server    *)
(* may offer any of its host keys (all of one key type), refuse, hang or   *)
(* disconnect.  known_hosts is its pins, at most one key for a host; a     *)
(* save empties the file and then fills it.                                *)
(***************************************************************************)
EXTENDS Endpoints

CONSTANTS Procs,    \* client processes
          Calls,    \* Calls[p]: the calls <<kind, policy, alias>> of process p
          Hosts,    \* SSH servers, named as in known_hosts
          HostKeys, \* host keys
          Offers,   \* Offers[h]: the host keys server h may offer
          Known,    \* the pins known_hosts may hold at first
          Files,    \* the endpoints files a process may find
          HostOf    \* HostOf[alias]: the server an alias leads to

(* from_env(endpoint, trust_on_first_use) and                               *)
(* request_enrollment_from_env(endpoint, auto_add_host).                     *)
AllCalls == ({"tunnel"} \X {"refuse", "accept"} \X (Aliases \union {NoAlias}))
       \union ({"enroll"} \X {"accept", "prompt"} \X (Aliases \union {NoAlias}))

ASSUME SshAssumption ==
  /\ Calls \in [Procs -> SUBSET AllCalls]
  /\ HostOf \in [Aliases -> Hosts]
  /\ Offers \in [Hosts -> SUBSET HostKeys]
  /\ Known \subseteq Hosts \X HostKeys
  /\ Hosts # {} /\ HostKeys # {}
  /\ \A f \in Files : DOMAIN f.endpoints \subseteq Aliases

VARIABLES
  file,      \* known_hosts: the pins <<host, key>> a reader finds in it
  exists,    \* whether there is such a file
  pc,        \* where the calling thread is
  job,       \* the call's own data, see Jobs
  out,       \* how the call ended: at its deadline ("timeout"), at the local port
             \* ("bind"), or in any "other" way, a result or an error
  timer,     \* the setup timer: "off", "armed", or "firing" (past cancelling)
  lapsed,    \* whether the setup deadline has passed
  timedOut,  \* setup_timed_out
  complete,  \* setup_complete
  link,      \* the connection to the server: "closed", "raw" (a bare socket that
             \* only the calling function knows) or "ssh" (held by a transport)
  loop,      \* the accept loop's thread
  conn,      \* a local connection to the tunnel and the threads that serve it
  held,      \* whether the local client keeps its end of that connection open
  trusted,   \* pins some session relied on, or there at first (history)
  disturbed, \* known_hosts accesses have crossed or failed (history)
  misrouted  \* a session without alias went to a cosigner (history)

fileVars   == <<file, exists>>
timerVars  == <<timer, lapsed, timedOut, complete>>
tunnelVars == <<loop, conn, held>>
history    == <<trusted, disturbed, misrouted>>
vars == <<fileVars, pc, job, out, timerVars, link, tunnelVars, history>>

Pins == Hosts \X HostKeys

(* known_hosts maps a host to at most one key: paramiko's HostKeys.add       *)
(* replaces an entry of the same host and key type.                          *)
OnePerHost(S) == \A a, b \in S : a[1] = b[1] => a = b

(* kind and policy (what to do about an unknown host) say which call it is;   *)
(* host is the server and key what it offered; snap the pins loaded, then     *)
(* those about to be written; persist whether there is a file name to save to. *)
Jobs == [kind : {"tunnel", "enroll"}, policy : {"refuse", "accept", "prompt"},
         host : Hosts, key : HostKeys, snap : SUBSET Pins, persist : BOOLEAN]

(* No call yet. *)
NoJob == [kind |-> "tunnel", policy |-> "refuse", host |-> CHOOSE h \in Hosts : TRUE,
          key |-> CHOOSE k \in HostKeys : TRUE, snap |-> {}, persist |-> TRUE]

Setup == {"dial", "arm", "attach", "kex", "verify", "prompt", "reload", "save", "flush", "auth", "commit", "detach"}
(* The connection is served by two forwarding threads ("piped"), by only the one  *)
(* that reads the local client ("local") or only the one that reads the SSH       *)
(* channel ("channel").                                                           *)
ConnStates == {"none", "queued", "accepted", "piped", "local", "channel", "closed"}

Serving == {"health", "ready"}
Stopping == {"stop_listener", "stop_transport"}

Types ==
  /\ file \subseteq Pins
  /\ exists \in BOOLEAN
  /\ pc \in [Procs -> {"start", "listen", "exec", "done"} \union Setup \union Serving \union Stopping]
  /\ job \in [Procs -> Jobs]
  /\ out \in [Procs -> {"none", "timeout", "bind", "other"}]
  /\ timer \in [Procs -> {"off", "armed", "firing"}]
  /\ lapsed \in [Procs -> BOOLEAN]
  /\ timedOut \in [Procs -> BOOLEAN]
  /\ complete \in [Procs -> BOOLEAN]
  /\ link \in [Procs -> {"closed", "raw", "ssh"}]
  /\ loop \in [Procs -> {"off", "accepting", "opening", "ended"}]
  /\ conn \in [Procs -> ConnStates]
  /\ held \in [Procs -> BOOLEAN]
  /\ trusted \subseteq Pins
  /\ disturbed \in BOOLEAN
  /\ misrouted \in BOOLEAN

(* The types, and known_hosts never holds two keys for a host. *)
TypeOK == Types /\ OnePerHost(file)

Init ==
  /\ file \in {F \in SUBSET Known : OnePerHost(F)}
  /\ exists \in BOOLEAN
  /\ exists = FALSE => file = {}
  /\ pc = [p \in Procs |-> "start"]
  /\ job = [p \in Procs |-> NoJob]
  /\ out = [p \in Procs |-> "none"]
  /\ timer = [p \in Procs |-> "off"]
  /\ lapsed = [p \in Procs |-> FALSE]
  /\ timedOut = [p \in Procs |-> FALSE]
  /\ complete = [p \in Procs |-> FALSE]
  /\ link = [p \in Procs |-> "closed"]
  /\ loop = [p \in Procs |-> "off"]
  /\ conn = [p \in Procs |-> "none"]
  /\ held = [p \in Procs |-> FALSE]
  /\ trusted = file
  /\ disturbed = FALSE
  /\ misrouted = FALSE

-----------------------------------------------------------------------------
Goto(p, l) == pc' = [pc EXCEPT ![p] = l]

(* Of a job only its kind is needed any more. *)
Spent(p) == job' = [job EXCEPT ![p] = [NoJob EXCEPT !.kind = job[p].kind]]

(* The call returns or raises. *)
Ends(p, r) ==
  /\ Goto(p, "done")
  /\ out' = [out EXCEPT ![p] = r]
  /\ Spent(p)

Disconnect(p) == link' = [link EXCEPT ![p] = "closed"]

Connected(p) == link[p] = "ssh"

(* Timer.cancel: too late once the timer's thread has woken up. *)
CancelTimer(p) == timer' = [timer EXCEPT ![p] = IF @ = "armed" THEN "off" ELSE @]

(* Bug: the connection is left open. *)
FailLeavesOpen(p, why) ==
  /\ Ends(p, IF timedOut[p] \/ lapsed[p] THEN "timeout" ELSE why)
  /\ CancelTimer(p)
  /\ UNCHANGED link

(* The exception handlers of start and request_enrollment: cancel the timer,  *)
(* close the connection, and call it a timeout if the deadline has passed,    *)
(* whatever the exception says.  start closes the transport or else the       *)
(* socket; request_enrollment only closes its SSHClient, which does nothing   *)
(* as long as it has no transport.                                            *)
Fail(p, why) ==
  /\ Ends(p, IF timedOut[p] \/ lapsed[p] THEN "timeout" ELSE why)
  /\ CancelTimer(p)
  /\ IF job[p].kind = "enroll" /\ link[p] = "raw" THEN UNCHANGED link ELSE Disconnect(p)

Pin(p) == <<job[p].host, job[p].key>>

(* The host key is accepted; what led there is not needed any more. *)
Trusts(p) ==
  /\ Goto(p, "auth")
  /\ Spent(p)

(* The history: the pins in S are relied on; if b, accesses have crossed.  The  *)
(* pins are not followed any further then.                                   *)
Note(S, b) ==
  /\ disturbed' = (disturbed \/ b)
  /\ trusted' = IF disturbed \/ b THEN {} ELSE trusted \union S

(* Some other process is between emptying known_hosts and filling it. *)
OtherWrites(p) == \E q \in Procs \ {p} : pc[q] = "flush"

-----------------------------------------------------------------------------
(* Beginning: routing, and what is checked before any connection is made.   *)

(* config.yaml, endpoints.yaml, the label or the SSH key is missing or       *)
(* refused, or the alias is not defined.                                    *)
BeginRefused(p) ==
  /\ pc[p] = "start"
  /\ Ends(p, "other")
  /\ UNCHANGED <<fileVars, timerVars, link, tunnelVars, history>>

(* The endpoint is resolved and the deadline starts.  Enrollment loads        *)
(* known_hosts now, and paramiko remembers the file only if there is one.    *)
Begin(p) ==
  /\ pc[p] = "start"
  /\ \E f \in Files, call \in Calls[p] :
       /\ Resolves(f, call[3])
       /\ job' = [job EXCEPT ![p] =
                    [kind    |-> call[1],
                     policy  |-> call[2],
                     host    |-> HostOf[Selected(f, call[3])],
                     key     |-> NoJob.key,
                     snap    |-> IF call[1] = "enroll" THEN file ELSE {},
                     persist |-> call[1] = "tunnel" \/ exists]]
       /\ misrouted' = (misrouted \/ (call[3] = NoAlias /\ DefaultOf(f) \notin WithRole(f, "signer")))
       /\ Note({}, call[1] = "enroll" /\ OtherWrites(p))
  /\ Goto(p, "dial")
  /\ UNCHANGED <<fileVars, out, timerVars, link, tunnelVars>>

-----------------------------------------------------------------------------
(* The deadline, the timer's thread, and the lock between it and the caller. *)

(* Time passes; at the first-use prompt the clock is stopped, and once the    *)
(* setup is complete nobody looks at it.                                     *)
Lapse(p) ==
  /\ pc[p] \in Setup \ {"prompt", "detach"}
  /\ lapsed[p] = FALSE
  /\ lapsed' = [lapsed EXCEPT ![p] = TRUE]
  /\ UNCHANGED <<fileVars, pc, job, out, timer, timedOut, complete, link, tunnelVars, history>>

(* An armed timer runs out with the deadline: at the prompt too, where an      *)
(* operator may take any time, and after the setup was found complete.        *)
TimerFires(p) ==
  /\ timer[p] = "armed"
  /\ lapsed[p] \/ pc[p] \in {"prompt", "detach"}
  /\ timer' = [timer EXCEPT ![p] = "firing"]
  /\ UNCHANGED <<fileVars, pc, job, out, lapsed, timedOut, complete, link, tunnelVars, history>>

(* Bug: the timer does not look whether the setup is complete. *)
ExpireSetupAlways(p) ==
  /\ timer[p] = "firing"
  /\ timer' = [timer EXCEPT ![p] = "off"]
  /\ timedOut' = [timedOut EXCEPT ![p] = TRUE]
  /\ Disconnect(p)
  /\ UNCHANGED <<fileVars, pc, job, out, lapsed, complete, tunnelVars, history>>

(* expire_setup, under setup_lock. *)
ExpireSetup(p) ==
  /\ timer[p] = "firing"
  /\ timer' = [timer EXCEPT ![p] = "off"]
  /\ IF complete[p]
     THEN UNCHANGED <<timedOut, link>>
     ELSE timedOut' = [timedOut EXCEPT ![p] = TRUE] /\ Disconnect(p)
  /\ UNCHANGED <<fileVars, pc, job, out, lapsed, complete, tunnelVars, history>>

-----------------------------------------------------------------------------
(* Setup: connection, key exchange, host key, authentication.               *)

(* socket.create_connection, which may come back when the time is up. *)
Dial(p) ==
  /\ pc[p] = "dial"
  /\ link' = [link EXCEPT ![p] = "raw"]
  /\ Goto(p, "arm")
  /\ UNCHANGED <<fileVars, job, out, timerVars, tunnelVars, history>>

(* The timer is started with the time that remains. *)
ArmTimer(p) ==
  /\ pc[p] = "arm"
  /\ lapsed[p] = FALSE
  /\ timer' = [timer EXCEPT ![p] = "armed"]
  /\ Goto(p, "attach")
  /\ UNCHANGED <<fileVars, job, out, lapsed, timedOut, complete, link, tunnelVars, history>>

(* A transport takes the socket over: at once in start, and in connect() once   *)
(* its timeouts have been computed from the time that remains.                 *)
Attach(p) ==
  /\ pc[p] = "attach"
  /\ job[p].kind = "enroll" => lapsed[p] = FALSE
  /\ link' = [link EXCEPT ![p] = IF @ = "raw" THEN "ssh" ELSE @]
  /\ Goto(p, "kex")
  /\ UNCHANGED <<fileVars, job, out, timerVars, tunnelVars, history>>

(* remaining_setup_time() raises before there is a transport. *)
TooLate(p) ==
  /\ pc[p] = "arm" \/ (pc[p] = "attach" /\ job[p].kind = "enroll")
  /\ lapsed[p]
  /\ Fail(p, "timeout")
  /\ UNCHANGED <<fileVars, lapsed, timedOut, complete, tunnelVars, history>>

(* A connection is refused, breaks, is closed by the timer, or times out. *)
NetworkFails(p) ==
  /\ pc[p] \in {"dial", "kex", "auth"}
  /\ \E why \in {"other", "timeout"} : Fail(p, why)
  /\ UNCHANGED <<fileVars, lapsed, timedOut, complete, tunnelVars, history>>

(* start_client: the server presents its host key. *)
KeyExchange(p) ==
  /\ pc[p] = "kex"
  /\ Connected(p)
  /\ \E k \in Offers[job[p].host] : job' = [job EXCEPT ![p].key = k]
  /\ Goto(p, "verify")
  /\ UNCHANGED <<fileVars, out, timerVars, link, tunnelVars, history>>

(* The pins a process decides by: a tunnel loads the file when it verifies,   *)
(* an enrollment has loaded it before it connected.                          *)
Loaded(p) == IF job[p].kind = "tunnel" THEN file ELSE job[p].snap
KnownKeys(p) == {q[2] : q \in {r \in Loaded(p) : r[1] = job[p].host}}

(* The file has changed since it was loaded, or is being written. *)
Stale(p) == Loaded(p) # file \/ (job[p].kind = "tunnel" /\ OtherWrites(p))

(* A known host with the key on file. *)
VerifyKnown(p) ==
  /\ pc[p] = "verify"
  /\ job[p].key \in KnownKeys(p)
  /\ Note({Pin(p)}, Stale(p))
  /\ Trusts(p)
  /\ UNCHANGED <<fileVars, out, timerVars, link, tunnelVars, misrouted>>

(* Bug: any key of a known host will do. *)
VerifyMismatchIgnored(p) ==
  /\ pc[p] = "verify"
  /\ KnownKeys(p) # {} /\ job[p].key \notin KnownKeys(p)
  /\ Note({Pin(p)}, Stale(p))
  /\ Trusts(p)
  /\ UNCHANGED <<fileVars, out, timerVars, link, tunnelVars, misrouted>>

(* A known host with another key: never connected to. *)
VerifyMismatch(p) ==
  /\ pc[p] = "verify"
  /\ KnownKeys(p) # {} /\ job[p].key \notin KnownKeys(p)
  /\ Fail(p, "other")
  /\ UNCHANGED <<fileVars, lapsed, timedOut, complete, tunnelVars, history>>

(* trust_on_first_use is off. *)
VerifyUnknownRefused(p) ==
  /\ pc[p] = "verify"
  /\ KnownKeys(p) = {}
  /\ job[p].policy = "refuse"
  /\ Fail(p, "other")
  /\ UNCHANGED <<fileVars, lapsed, timedOut, complete, tunnelVars, history>>

(* trust_on_first_use or auto_add_host, with a file to save to. *)
VerifyUnknownAccepted(p) ==
  /\ pc[p] = "verify"
  /\ KnownKeys(p) = {}
  /\ job[p].policy = "accept" /\ job[p].persist
  /\ job' = [job EXCEPT ![p].snap = Loaded(p)]
  /\ Note({}, Stale(p))
  /\ Goto(p, "save")
  /\ UNCHANGED <<fileVars, out, timerVars, link, tunnelVars, misrouted>>

(* AutoAddPolicy where there was no known_hosts file: paramiko has no name    *)
(* to save to, and the key is accepted for this connection only.             *)
VerifyUnknownUnsaved(p) ==
  /\ pc[p] = "verify"
  /\ KnownKeys(p) = {}
  /\ job[p].policy = "accept" /\ job[p].persist = FALSE
  /\ Note({Pin(p)}, TRUE)
  /\ Trusts(p)
  /\ UNCHANGED <<fileVars, out, timerVars, link, tunnelVars, misrouted>>

(* Bug: the setup clock runs on at the prompt. *)
PromptRunning(p) ==
  /\ pc[p] = "verify"
  /\ KnownKeys(p) = {}
  /\ job[p].policy = "prompt"
  /\ job' = [job EXCEPT ![p].snap = {}]
  /\ Goto(p, "prompt")
  /\ UNCHANGED <<fileVars, out, timerVars, link, tunnelVars, history>>

(* _InteractiveHostKeyPolicy: the clock is stopped and the operator asked. *)
Prompt(p) ==
  /\ pc[p] = "verify"
  /\ KnownKeys(p) = {}
  /\ job[p].policy = "prompt"
  /\ CancelTimer(p)
  /\ job' = [job EXCEPT ![p].snap = {}]
  /\ Goto(p, "prompt")
  /\ UNCHANGED <<fileVars, out, lapsed, timedOut, complete, link, tunnelVars, history>>

(* Bug: the clock stays stopped after the prompt. *)
ResumeNothing(p) == UNCHANGED timer

(* resume_setup_deadline: nothing to resume once the setup has timed out. *)
ResumeDeadline(p) ==
  IF timedOut[p] THEN UNCHANGED timer
  ELSE timer' = [timer EXCEPT ![p] = IF @ = "off" THEN "armed" ELSE @]

PromptYes(p) ==
  /\ pc[p] = "prompt"
  /\ ResumeDeadline(p)
  /\ Goto(p, "reload")
  /\ UNCHANGED <<fileVars, job, out, lapsed, timedOut, complete, link, tunnelVars, history>>

(* The exception that says no ends the setup. *)
PromptNo(p) ==
  /\ pc[p] = "prompt"
  /\ Fail(p, "other")
  /\ UNCHANGED <<fileVars, lapsed, timedOut, complete, tunnelVars, history>>

(* Before the key goes in, the prompt loads the file again; an entry for the  *)
(* same host will be replaced.                                               *)
Reload(p) ==
  /\ pc[p] = "reload"
  /\ job' = [job EXCEPT ![p].snap = {q \in file : q[1] # job[p].host}]
  /\ Note({}, (\E q \in file : q[1] = job[p].host) \/ OtherWrites(p))
  /\ Goto(p, "save")
  /\ UNCHANGED <<fileVars, out, timerVars, link, tunnelVars, misrouted>>

(* Bug: the new entry is appended to what the file holds. *)
SaveTruncateAppends(p) ==
  /\ pc[p] = "save"
  /\ job' = [job EXCEPT ![p].snap = file \union {Pin(p)}]
  /\ Note({}, file # job[p].snap \/ OtherWrites(p))
  /\ file' = {}
  /\ exists' = TRUE
  /\ Goto(p, "flush")
  /\ UNCHANGED <<out, timerVars, link, tunnelVars, misrouted>>

(* Saving opens the file for writing, which empties it ...  AutoAddPolicy      *)
(* first adds what the file holds by now about other hosts.                   *)
SaveTruncate(p) ==
  /\ pc[p] = "save"
  /\ LET mine == job[p].snap \union {Pin(p)}
     IN  job' = [job EXCEPT ![p].snap =
                   IF job[p].kind = "enroll" /\ job[p].policy = "accept"
                   THEN mine \union {q \in file : \A r \in mine : q[1] # r[1]}
                   ELSE mine]
  /\ Note({}, file # job[p].snap \/ OtherWrites(p))
  /\ file' = {}
  /\ exists' = TRUE
  /\ Goto(p, "flush")
  /\ UNCHANGED <<out, timerVars, link, tunnelVars, misrouted>>

(* Bug: only the new key is written. *)
SaveFlushAlone(p) ==
  /\ pc[p] = "flush"
  /\ file' = {Pin(p)}
  /\ Note({Pin(p)}, OtherWrites(p))
  /\ Trusts(p)
  /\ UNCHANGED <<exists, out, timerVars, link, tunnelVars, misrouted>>

(* ... and the entries arrive when it is closed. *)
SaveFlush(p) ==
  /\ pc[p] = "flush"
  /\ file' = job[p].snap
  /\ Note({Pin(p)}, OtherWrites(p))
  /\ Trusts(p)
  /\ UNCHANGED <<exists, out, timerVars, link, tunnelVars, misrouted>>

(* The file cannot be opened, or the disk is full.  The prompt warns and goes  *)
(* on; otherwise the setup fails.                                            *)
SaveFails(p) ==
  /\ pc[p] \in {"save", "flush"}
  /\ IF job[p].policy = "prompt"
     THEN /\ Note({Pin(p)}, TRUE)
          /\ Trusts(p)
          /\ UNCHANGED <<out, timer, link>>
     ELSE /\ Note({}, pc[p] = "flush")
          /\ Fail(p, "other")
  /\ UNCHANGED <<fileVars, lapsed, timedOut, complete, tunnelVars, misrouted>>

(* auth_publickey over the open connection. *)
Authenticate(p) ==
  /\ pc[p] = "auth"
  /\ Connected(p)
  /\ Goto(p, "commit")
  /\ UNCHANGED <<fileVars, job, out, timerVars, link, tunnelVars, history>>

(* The key is not enrolled, or not of a type the signer accepts. *)
AuthenticationRefused(p) ==
  /\ pc[p] = "auth"
  /\ Fail(p, "other")
  /\ UNCHANGED <<fileVars, lapsed, timedOut, complete, tunnelVars, history>>

(* Under setup_lock: too late, or the setup is complete and the deadline no    *)
(* longer counts.                                                             *)
CommitSetup(p) ==
  /\ pc[p] = "commit"
  /\ IF timedOut[p] \/ lapsed[p]
     THEN Fail(p, "timeout") /\ UNCHANGED complete
     ELSE /\ complete' = [complete EXCEPT ![p] = TRUE]
          /\ Goto(p, "detach")
          /\ UNCHANGED <<job, out, timer, link>>
  /\ UNCHANGED <<fileVars, lapsed, timedOut, tunnelVars, history>>

(* The timer is cancelled after the lock is released. *)
DetachTimer(p) ==
  /\ pc[p] = "detach"
  /\ CancelTimer(p)
  /\ Goto(p, IF job[p].kind = "tunnel" THEN "listen" ELSE "exec")
  /\ UNCHANGED <<fileVars, job, out, lapsed, timedOut, complete, link, tunnelVars, history>>

-----------------------------------------------------------------------------
(* The enrollment command.                                                  *)

(* exec_command, recv_exit_status, _parse_enrollment_reply, which takes only an *)
(* answer for this client's own key; whatever comes of it, the client is closed. *)
Enroll(p) ==
  /\ pc[p] = "exec"
  /\ Ends(p, "other")
  /\ Disconnect(p)
  /\ UNCHANGED <<fileVars, timerVars, tunnelVars, history>>

-----------------------------------------------------------------------------
(* The tunnel.                                                              *)

(* The local listener and the accept loop's thread. *)
Listen(p) ==
  /\ pc[p] = "listen"
  /\ loop' = [loop EXCEPT ![p] = "accepting"]
  /\ Goto(p, "health")
  /\ UNCHANGED <<fileVars, job, out, timerVars, link, conn, held, history>>

(* Another program has the port, pinned or found free a moment ago.  No        *)
(* handler is left that would close the connection.                           *)
ListenFails(p) ==
  /\ pc[p] = "listen"
  /\ Ends(p, "bind")
  /\ UNCHANGED <<fileVars, timerVars, link, tunnelVars, history>>

(* The local connection moves on; without a thread that reads it there is no   *)
(* end left to hold.                                                           *)
Serve(p, c) ==
  /\ conn' = [conn EXCEPT ![p] = c]
  /\ held' = [held EXCEPT ![p] = @ /\ c \notin {"channel", "closed"}]

ListenerOpen(p) == pc[p] \in Serving \union {"stop_listener"}

(* A request of this process reaches the listener's queue. *)
LocalConnect(p) ==
  /\ pc[p] \in Serving
  /\ conn[p] = "none"
  /\ conn' = [conn EXCEPT ![p] = "queued"]
  /\ held' = [held EXCEPT ![p] = TRUE]
  /\ UNCHANGED <<fileVars, pc, job, out, timerVars, link, loop, history>>

(* health(): the signer answers through the tunnel, or the client is closed. *)
Health(p) ==
  /\ pc[p] = "health"
  /\ \/ conn[p] = "piped" /\ held[p] /\ Connected(p) /\ Goto(p, "ready")
     \/ Goto(p, "stop_listener")
  /\ UNCHANGED <<fileVars, job, out, timerVars, link, tunnelVars, history>>

(* The SSH connection of an open tunnel breaks. *)
TransportBreaks(p) ==
  /\ pc[p] \in Serving
  /\ Connected(p)
  /\ Disconnect(p)
  /\ UNCHANGED <<fileVars, pc, job, out, timerVars, tunnelVars, history>>

Accept(p) ==
  /\ loop[p] = "accepting"
  /\ ListenerOpen(p)
  /\ conn[p] = "queued"
  /\ Serve(p, "accepted")
  /\ loop' = [loop EXCEPT ![p] = "opening"]
  /\ UNCHANGED <<fileVars, pc, job, out, timerVars, link, history>>

(* Bug: a failed channel leaves the accepted connection open. *)
OpenChannelKeeps(p) ==
  /\ loop[p] = "opening"
  /\ \/ Connected(p) /\ Serve(p, "piped")
     \/ UNCHANGED <<conn, held>>
  /\ loop' = [loop EXCEPT ![p] = "accepting"]
  /\ UNCHANGED <<fileVars, pc, job, out, timerVars, link, history>>

(* A channel to the signer and two forwarding threads, or the local side is    *)
(* closed.                                                                    *)
OpenChannel(p) ==
  /\ loop[p] = "opening"
  /\ \/ Connected(p) /\ Serve(p, "piped")
     \/ Serve(p, "closed")
  /\ loop' = [loop EXCEPT ![p] = "accepting"]
  /\ UNCHANGED <<fileVars, pc, job, out, timerVars, link, history>>

(* The local client closes its end: a request without keep-alive, a connection *)
(* its pool discards, or the pool itself collected as garbage.  Nobody notices *)
(* before a thread reads the connection.                                      *)
LocalCloses(p) ==
  /\ held[p]
  /\ conn[p] \in {"piped", "local"}
  /\ held' = [held EXCEPT ![p] = FALSE]
  /\ UNCHANGED <<fileVars, pc, job, out, timerVars, link, loop, conn, history>>

(* _forward(channel, client_sock) ends, at end of file or an error on either    *)
(* side, and closes both.  That does not wake the other thread out of          *)
(* client_sock.recv(), and until that returns the local connection stays open. *)
ForwardChannel(p) ==
  /\ conn[p] \in {"piped", "channel"}
  /\ Serve(p, IF conn[p] = "piped" THEN "local" ELSE "closed")
  /\ UNCHANGED <<fileVars, pc, job, out, timerVars, link, loop, history>>

(* _forward(client_sock, channel) likewise; a closed channel ends the other     *)
(* thread's recv().                                                           *)
ForwardLocal(p) ==
  /\ conn[p] \in {"piped", "local"}
  /\ Serve(p, IF conn[p] = "piped" THEN "channel" ELSE "closed")
  /\ UNCHANGED <<fileVars, pc, job, out, timerVars, link, loop, history>>

(* The accept loop finds _running cleared, or its socket closed or gone. *)
AcceptLoopEnds(p) ==
  /\ loop[p] = "accepting"
  /\ pc[p] \in {"stop_listener", "stop_transport", "done"}
  /\ loop' = [loop EXCEPT ![p] = "ended"]
  /\ UNCHANGED <<fileVars, pc, job, out, timerVars, link, conn, held, history>>

(* close(): stop() clears _running first. *)
Close(p) ==
  /\ pc[p] = "ready"
  /\ Goto(p, "stop_listener")
  /\ UNCHANGED <<fileVars, job, out, timerVars, link, tunnelVars, history>>

(* stop() goes on to close the listener, whose queue is reset ... *)
StopListener(p) ==
  /\ pc[p] = "stop_listener"
  /\ Serve(p, IF conn[p] = "queued" THEN "closed" ELSE conn[p])
  /\ Goto(p, "stop_transport")
  /\ UNCHANGED <<fileVars, job, out, timerVars, link, loop, history>>

(* ... and the SSH connection. *)
StopTransport(p) ==
  /\ pc[p] = "stop_transport"
  /\ Disconnect(p)
  /\ Ends(p, "other")
  /\ UNCHANGED <<fileVars, timerVars, tunnelVars, history>>

(* The process is killed; the system closes what it had open. *)
Killed(p) ==
  /\ pc[p] \notin {"start", "done"}
  /\ Ends(p, "other")
  /\ Note({}, pc[p] = "flush")
  /\ Disconnect(p)
  /\ timer' = [timer EXCEPT ![p] = "off"]
  /\ lapsed' = [lapsed EXCEPT ![p] = FALSE]
  /\ timedOut' = [timedOut EXCEPT ![p] = FALSE]
  /\ complete' = [complete EXCEPT ![p] = FALSE]
  /\ loop' = [loop EXCEPT ![p] = "off"]
  /\ conn' = [conn EXCEPT ![p] = "none"]
  /\ held' = [held EXCEPT ![p] = FALSE]
  /\ UNCHANGED <<fileVars, misrouted>>

-----------------------------------------------------------------------------
VerifyStep(p) ==
  \/ VerifyKnown(p) \/ VerifyMismatch(p) \/ VerifyUnknownRefused(p)
  \/ VerifyUnknownAccepted(p) \/ VerifyUnknownUnsaved(p) \/ Prompt(p)

SaveStep(p) == Reload(p) \/ SaveTruncate(p) \/ SaveFlush(p) \/ SaveFails(p)

DialStep(p) == ArmTimer(p) \/ Attach(p) \/ TooLate(p)

ServerStep(p) ==
  \/ Dial(p) \/ NetworkFails(p) \/ KeyExchange(p)
  \/ Authenticate(p) \/ AuthenticationRefused(p) \/ Enroll(p) \/ TransportBreaks(p)

CommitStep(p) == CommitSetup(p) \/ DetachTimer(p)

PromptStep(p) == PromptYes(p) \/ PromptNo(p)

TimerStep(p) == TimerFires(p) \/ ExpireSetup(p)

ListenStep(p) == Listen(p) \/ ListenFails(p)

LoopStep(p) == Accept(p) \/ OpenChannel(p) \/ AcceptLoopEnds(p)

ForwardStep(p) == LocalCloses(p) \/ ForwardChannel(p) \/ ForwardLocal(p)

StopStep(p) == StopListener(p) \/ StopTransport(p)

Next ==
  \E p \in Procs :
    \/ BeginRefused(p) \/ Begin(p) \/ Lapse(p) \/ TimerStep(p)
    \/ ServerStep(p) \/ DialStep(p) \/ VerifyStep(p) \/ PromptStep(p) \/ SaveStep(p) \/ CommitStep(p)
    \/ ListenStep(p) \/ LocalConnect(p) \/ Health(p)
    \/ LoopStep(p) \/ ForwardStep(p) \/ Close(p) \/ StopStep(p) \/ Killed(p)

Spec == Init /\ [][Next]_vars

(* The threads of a process run and time passes.  A wait on the network ends   *)
(* when the connection is closed under it, and a dial when its time is up; a    *)
(* forwarding thread ends when the channel it reads is closed, or the local     *)
(* client it reads has closed its end.  Nothing is assumed of the server, of    *)
(* the operator, of the local client, or of paramiko's own timeouts.            *)
Fairness ==
  \A p \in Procs :
    /\ WF_vars(Lapse(p) \/ TimerStep(p))
    /\ WF_vars(\/ DialStep(p) \/ VerifyStep(p) \/ SaveStep(p) \/ CommitStep(p)
               \/ ListenStep(p) \/ StopStep(p)
               \/ (NetworkFails(p) /\ IF pc[p] = "dial" THEN lapsed[p] ELSE ~Connected(p)))
    /\ WF_vars(\/ OpenChannel(p) /\ ~Connected(p)
               \/ AcceptLoopEnds(p)
               \/ ForwardChannel(p) /\ (~Connected(p) \/ conn[p] = "channel")
               \/ ForwardLocal(p) /\ held[p] = FALSE)

FairSpec == Spec /\ Fairness

-----------------------------------------------------------------------------
(* Once a setup has been declared complete its timer cannot touch the         *)
(* connection any more, however late it was cancelled (expire_setup against   *)
(* the lock in start and request_enrollment).                                 *)
DeadlineDetached ==
  \A p \in Procs : complete[p] => timedOut[p] = FALSE

(* The timer ends a setup only if its deadline has really passed: time the     *)
(* operator takes at the prompt does not count (pause_setup_deadline).         *)
TimeoutIsReal == \A p \in Procs : timedOut[p] => lapsed[p]

(* However a call ends, its connection is closed, with two exceptions: the     *)
(* tunnel whose local port cannot be bound after its setup keeps its           *)
(* transport, and an enrollment whose deadline passes between the dial and the  *)
(* transport leaves the bare socket to the garbage collector.                   *)
LeakOnlyKnown ==
  \A p \in Procs :
    pc[p] = "done" =>
      \/ link[p] = "closed"
      \/ link[p] = "ssh" /\ out[p] = "bind"
      \/ link[p] = "raw" /\ out[p] = "timeout" /\ job[p].kind = "enroll"

(* A pin a session relied on stays in known_hosts, unless sessions' accesses   *)
(* to the file crossed, a save failed or was cut short, or the key was         *)
(* accepted with no file to save it to (_verify_host_key, missing_host_key).   *)
PinsSurvive ==
  \/ disturbed
  \/ \E p \in Procs : pc[p] = "flush"
  \/ trusted \subseteq file

(* Under the same conditions no host is ever trusted under two keys, by any    *)
(* two sessions.                                                              *)
OneKeyPerHost == disturbed \/ OnePerHost(trusted)

(* A call without an alias reaches a signer, never a cosigner                  *)
(* (load_client_endpoint_registry, resolve_client_endpoint).                   *)
DefaultIsSigner == misrouted = FALSE

(* A silent server cannot hold a setup past its deadline: from every step of   *)
(* it, the prompt excepted, the call moves on to its end or out of the setup.  *)
SetupEnds ==
  \A p \in Procs : pc[p] \in Setup \ {"prompt"} ~> pc[p] \notin Setup \ {"prompt"}

(* A thread of the tunnel is there that ought to end, or a connection nobody    *)
(* will serve: all but the thread that reads a local client which has not      *)
(* closed its end.                                                            *)
Draining(p) ==
  \/ loop[p] \notin {"off", "ended"}
  \/ conn[p] \in {"queued", "accepted", "piped", "channel"}
  \/ conn[p] = "local" /\ held[p] = FALSE

(* After stop() the accept loop and the thread that reads the SSH channel end,  *)
(* wherever they were, and no connection is left waiting for them.  The thread  *)
(* that reads the local client, and with it the local connection, is not woken  *)
(* by stop(): it ends once that client closes its end, be it long after.        *)
StopDrains == \A p \in Procs : pc[p] = "done" ~> ~Draining(p)

-----------------------------------------------------------------------------
(* The inductive invariant.                                                 *)

(* A timer past cancelling has run out, or was outrun by the commit; at the    *)
(* prompt no timer is armed; a complete setup has left the setup steps.        *)
TimerInv ==
  \A p \in Procs :
    /\ complete[p] => timedOut[p] = FALSE
    /\ timedOut[p] => lapsed[p]
    /\ timer[p] = "firing" => lapsed[p] \/ complete[p]
    /\ pc[p] = "prompt" => timer[p] # "armed"
    /\ complete[p] => pc[p] \notin {"start"} \union (Setup \ {"detach"})
    /\ pc[p] = "detach" => complete[p]

(* A socket is bare from the dial until it gets its transport; one that still  *)
(* is when the call has ended belongs to an enrollment that timed out.         *)
OpenInv ==
  \A p \in Procs :
    /\ pc[p] \in {"start", "dial"} => link[p] = "closed"
    /\ link[p] = "raw" => \/ pc[p] \in {"arm", "attach"}
                          \/ pc[p] = "done" /\ out[p] = "timeout" /\ job[p].kind = "enroll"
    /\ link[p] = "ssh" /\ pc[p] = "done" => out[p] = "bind"

(* The pins a process holds have one key for a host, and before the save none   *)
(* for the host it is about to add.                                            *)
SnapInv ==
  \A p \in Procs :
    /\ OnePerHost(job[p].snap)
    /\ pc[p] = "save" => \A q \in job[p].snap : q[1] # job[p].host

(* While accesses have not crossed: one process at most is between emptying     *)
(* the file and filling it, and it holds every pin relied on and its own; if    *)
(* none is, the file holds them.                                               *)
PinInv ==
  disturbed = FALSE =>
    /\ (\A p \in Procs : pc[p] # "flush") => trusted \subseteq file
    /\ \A p \in Procs :
         pc[p] = "flush" =>
           /\ trusted \union {Pin(p)} \subseteq job[p].snap
           /\ file = {}
           /\ \A q \in Procs : pc[q] = "flush" => q = p

IInv == TypeOK /\ TimerInv /\ OpenInv /\ SnapInv /\ PinInv /\ DefaultIsSigner
=============================================================================
