----------------------------- MODULE CanBridge -----------------------------
(***************************************************************************)
(* The ROS 2 to CAN bridge (can_bridge_pkg/src/can_bridge_node.cpp and     *)
(* can_ack_terminal.hpp).  A planner command is guarded, deduplicated,     *)
(* encoded and sent as one CAN frame; the bridge then waits for an ACK and *)
(* retries after a timeout, a bounded number of times.                     *)
(*                                                                         *)
(* A member of Requests is one DELIVERY of a PlannerCommand: a duplicated  *)
(* message is a second request with the same Identity and Stamp.  One      *)
(* executor thread runs the subscription and the mock timers; with         *)
(* ack_mode = socketcan every ACK wait, and every retry after it, runs on  *)
(* a worker thread of its own.  Sleeps and waits end no earlier than their *)
(* duration and arbitrarily later; the clock is the monotonic one.         *)
(***************************************************************************)
EXTENDS Integers, Sequences, FiniteSets

CONSTANTS
  Requests,      \* deliveries on command_topic
  NoRequest,     \* the executor runs no callback
  Identity,      \* request_key: trace_id, oracle_id and sequence_id
  Stamp,         \* header.timestamp_ns
  WellFormed,    \* allowlisted action, speed in range, identity and stamp set
  Frame,         \* encode_command: the CAN id and the payload
  Ttl, Skew, Window,               \* command_ttl_ms, _max_future_skew_ms, _dedup_window_ms
  SendDelay, AckTimeout, Backoff, MaxRetries,
  AckModes,      \* the values of ack_mode the bridge may be started with
  MockPolicy, MockAckDelay,
  MockMode,      \* frames are logged, not written to the bus
  SocketFaults,  \* socket, bind, select and write calls may fail
  MaxTime        \* bound of the clock

ASSUME RequestsAssumption ==
  /\ NoRequest \notin Requests
  /\ Stamp \in [Requests -> Int]
  /\ WellFormed \in [Requests -> BOOLEAN]
  /\ DOMAIN Identity = Requests
  /\ DOMAIN Frame = Requests
  /\ \A r \in Requests : Frame[r] = [id |-> Frame[r].id, payload |-> Frame[r].payload]

\* The constructor replaces every parameter outside these ranges.
ASSUME ParametersAssumption ==
  /\ Ttl \in Nat \ {0} /\ Skew \in Nat /\ Window \in Nat \ {0}
  /\ SendDelay \in Nat /\ AckTimeout \in Nat \ {0} /\ Backoff \in Nat
  /\ MaxRetries \in Nat /\ MockAckDelay \in Nat /\ MaxTime \in Nat
  /\ AckModes \subseteq {"mock", "socketcan", "disabled"}
  /\ MockPolicy \in {"success", "delayed", "drop_first", "drop"}
  /\ MockMode \in BOOLEAN /\ SocketFaults \in BOOLEAN

VARIABLES
  ackMode,   \* ack_mode, "disabled" also when ack_enabled is false
  now,       \* steady_clock
  life,      \* "running", "signalled" (rclcpp::ok() is false), "destroying"
             \* (shutting_down_), "closed" (ack_threads_ refuses work), "destroyed"
  exec,      \* the request whose callback holds the executor thread
  admitted,  \* admitted_request_ns_: identity -> admission time, or Absent
  job,       \* where the code handling each request is
  log,       \* what it has done so far: the events it published
  wire,      \* frames written to the bus that the peer has not answered
  answered   \* frames the peer has answered

vars == <<ackMode, now, life, exec, admitted, job, log, wire, answered>>

-----------------------------------------------------------------------------
Identities == {Identity[r] : r \in Requests}
Absent == -1
Off == -1
Time == 0..MaxTime

\* A sleep or timer of duration d started now, capped at the horizon.
After(d) == IF now + d > MaxTime THEN MaxTime ELSE now + d

Ok == life = "running"
ShuttingDown == life \in {"destroying", "closed", "destroyed"}

Valid(r) == /\ WellFormed[r]
            /\ Stamp[r] <= now + Skew
            /\ now - Stamp[r] <= Ttl

\* Mutant: entries kept only as long as a command may live.
UnexpiredByTtl == [i \in Identities |->
                     IF admitted[i] # Absent /\ now - admitted[i] >= Ttl
                     THEN Absent ELSE admitted[i]]

\* admit_request first erases the entries the window has passed.
Unexpired == [i \in Identities |->
                IF admitted[i] # Absent /\ now - admitted[i] >= Window
                THEN Absent ELSE admitted[i]]

MockAckWillArrive(n) == /\ ackMode = "mock"
                        /\ MockPolicy # "drop"
                        /\ ~(MockPolicy = "drop_first" /\ n = 0)

EffectiveMockAckDelay ==
  IF MockPolicy = "delayed" /\ MockAckDelay < AckTimeout + 10
  THEN AckTimeout + 10 ELSE MockAckDelay

PlanAckTerminal(n) ==
  IF MockAckWillArrive(n) /\ EffectiveMockAckDelay < AckTimeout
  THEN "ack" ELSE "timeout"

\* Mutant: the payload is not compared.
AckMatchesById(r, s) == Frame[r].id = Frame[s].id

\* Whether the ACK of a frame of s is taken for an ACK of a frame of r.
AckMatches(r, s) == /\ Frame[r].id = Frame[s].id
                    /\ Frame[r].payload = Frame[s].payload

-----------------------------------------------------------------------------
\* The thread that handles r goes to p; leaving the executor frees it.
Goto(r, p) == [job EXCEPT ![r].pc = p]
Release(r) == IF exec = r THEN NoRequest ELSE exec
Publish(r, status) ==
  log' = [log EXCEPT ![r].terminals = Append(@, status)]

\* The handling of r ends with a terminal event, or silently.
Finish(r, status) ==
  /\ job' = [job EXCEPT ![r].pc = "ended", ![r].socket = "closed"]
  /\ exec' = Release(r)
  /\ Publish(r, status)
Stop(r) ==
  /\ job' = [job EXCEPT ![r].pc = "ended", ![r].socket = "closed"]
  /\ exec' = Release(r)
  /\ UNCHANGED log

Bus == <<wire, answered>>
World == <<ackMode, now, life, admitted>>

-----------------------------------------------------------------------------
Init ==
  /\ ackMode \in AckModes
  /\ now = 0 /\ life = "running" /\ exec = NoRequest
  /\ admitted = [i \in Identities |-> Absent]
  /\ job = [r \in Requests |->
              [pc |-> "new", retry |-> 0, wake |-> 0, socket |-> "closed",
               ackDue |-> Off, timeoutDue |-> Off]]
  /\ log = [r \in Requests |->
              [terminals |-> << >>, sends |-> 0,
               admittedAt |-> Absent, clearedAt |-> Absent]]
  /\ wire = {} /\ answered = {}

\* Mutants: the entry keeps the command's stamp; the map is not consulted.
AdmitAtStamp(r) ==
  /\ Ok /\ Valid(r) /\ Unexpired[Identity[r]] = Absent
  /\ admitted' = [Unexpired EXCEPT ![Identity[r]] = Stamp[r]]
  /\ job' = Goto(r, "attempt")
  /\ exec' = r
  /\ log' = [log EXCEPT ![r].admittedAt = now]
AdmitAlways(r) ==
  /\ Ok /\ Valid(r)
  /\ admitted' = [Unexpired EXCEPT ![Identity[r]] = now]
  /\ job' = Goto(r, "attempt")
  /\ exec' = r
  /\ log' = [log EXCEPT ![r].admittedAt = now]

\* on_planner_command: validate and admit at one reading of the clock.
Admit(r) ==
  /\ Ok /\ Valid(r) /\ Unexpired[Identity[r]] = Absent
  /\ admitted' = [Unexpired EXCEPT ![Identity[r]] = now]
  /\ job' = Goto(r, "attempt")
  /\ exec' = r
  /\ log' = [log EXCEPT ![r].admittedAt = now]

Refuse(r) ==
  /\ Ok
  /\ \/ ~Valid(r) /\ UNCHANGED admitted
     \/ Valid(r) /\ Unexpired[Identity[r]] # Absent /\ admitted' = Unexpired
  /\ Finish(r, "rejected")

OnPlannerCommand(r) ==
  /\ exec = NoRequest /\ ~ShuttingDown /\ job[r].pc = "new"
  /\ \/ Admit(r)
     \/ Refuse(r)
     \/ ~Ok /\ Stop(r) /\ UNCHANGED admitted
  /\ UNCHANGED <<ackMode, now, life, Bus>>

\* send_attempt: the command is validated before and after can_send_delay_ms.
BeginAttempt(r) ==
  /\ job[r].pc = "attempt"
  /\ \/ ~Valid(r) /\ Finish(r, "rejected")
     \/ /\ Valid(r)
        /\ job' = [job EXCEPT ![r].pc = "delay", ![r].wake = After(SendDelay)]
        /\ UNCHANGED <<exec, log>>
  /\ UNCHANGED <<World, Bus>>

ClearToSend(r) ==
  /\ job[r].pc = "delay" /\ now >= job[r].wake
  /\ \/ ~Ok /\ Stop(r)
     \/ Ok /\ ~Valid(r) /\ Finish(r, "rejected")
     \/ /\ Ok /\ Valid(r)
        /\ job' = Goto(r, "open")
        /\ log' = [log EXCEPT ![r].clearedAt = now]
        /\ UNCHANGED exec
  /\ UNCHANGED <<World, Bus>>

\* The ACK receiver is bound before the frame is written.
OpenAckSocket(r) ==
  /\ job[r].pc = "open"
  /\ \E s \in {"closed", "open"} :
       /\ s = "open" => ackMode = "socketcan"
       /\ s = "closed" => ackMode # "socketcan" \/ SocketFaults
       /\ job' = [job EXCEPT ![r].pc = "send", ![r].socket = s]
  /\ UNCHANGED <<World, exec, log, Bus>>

SendFrame(r) ==
  /\ job[r].pc = "send"
  /\ \/ /\ ~MockMode /\ SocketFaults
        /\ Finish(r, "send_failed")
        /\ UNCHANGED Bus
     \/ /\ job' = Goto(r, "sent")
        /\ log' = [log EXCEPT ![r].sends = @ + 1]
        /\ wire' = IF MockMode THEN wire
                   ELSE wire \cup {[req |-> r, attempt |-> job[r].retry]}
        /\ UNCHANGED <<exec, answered>>
  /\ UNCHANGED World

\* schedule_mock_ack and schedule_ack_timeout ask PlanAckTerminal separately.
MockAckDue(r) ==
  IF Ok /\ PlanAckTerminal(job[r].retry) = "ack" THEN After(EffectiveMockAckDelay) ELSE Off
\* Mutant: the timeout timer is armed beside the ACK timer.
TimeoutAlwaysDue(r) == IF Ok THEN After(AckTimeout) ELSE Off
TimeoutDue(r) ==
  IF Ok /\ PlanAckTerminal(job[r].retry) # "ack" THEN After(AckTimeout) ELSE Off

\* Mutant: the receiver is bound only after the frame was written.
StartAckWaitRebinding(r) ==
  /\ job[r].pc = "sent" /\ ackMode = "socketcan"
  /\ job' = [job EXCEPT ![r].pc = "wait", ![r].wake = After(AckTimeout),
                        ![r].socket = "open"]
  /\ exec' = Release(r)
  /\ UNCHANGED <<World, Bus, log>>

\* start_ack_wait.  The group ignores spawn once it is closed.
StartAckWait(r) ==
  /\ job[r].pc = "sent"
  /\ \/ ackMode = "disabled" /\ Stop(r)
     \/ /\ ackMode = "socketcan"
        /\ job' = IF life \in {"closed", "destroyed"}
                  THEN Goto(r, "ended")
                  ELSE [job EXCEPT ![r].pc = "wait", ![r].wake = After(AckTimeout)]
        /\ exec' = Release(r) /\ UNCHANGED log
     \/ /\ ackMode = "mock"
        /\ job' = [job EXCEPT ![r].pc = "wait", ![r].ackDue = MockAckDue(r),
                              ![r].timeoutDue = TimeoutDue(r)]
        /\ exec' = Release(r) /\ UNCHANGED log
  /\ UNCHANGED <<World, Bus>>

\* The one-shot mock timers run on the executor thread.
Due(t) == t # Off /\ now >= t

MockAckFires(r) ==
  /\ exec = NoRequest /\ ~ShuttingDown /\ Due(job[r].ackDue)
  /\ \/ /\ Ok
        /\ job' = [job EXCEPT ![r].pc = "ended", ![r].ackDue = Off]
        /\ Publish(r, "ack_received")
     \/ ~Ok /\ job' = [job EXCEPT ![r].ackDue = Off] /\ UNCHANGED log
  /\ UNCHANGED <<World, exec, Bus>>

TimeoutFires(r) ==
  /\ exec = NoRequest /\ ~ShuttingDown /\ Due(job[r].timeoutDue)
  /\ \/ /\ Ok
        /\ job' = [job EXCEPT ![r].pc = "timedout", ![r].timeoutDue = Off]
        /\ exec' = r
     \/ ~Ok /\ job' = [job EXCEPT ![r].timeoutDue = Off] /\ UNCHANGED exec
  /\ UNCHANGED <<World, log, Bus>>

\* The ACK worker: wait_for_socketcan_ack and what follows its return.
WorkerAcked(r) ==
  /\ ackMode = "socketcan" /\ job[r].pc = "wait" /\ job[r].socket = "readable"
  /\ IF ShuttingDown THEN Stop(r) ELSE Finish(r, "ack_received")
  /\ UNCHANGED <<World, Bus>>

\* Mutant: select waits without a timeout.
WorkerWaitsForever(r) ==
  /\ ackMode = "socketcan" /\ job[r].pc = "wait" /\ job[r].socket = "closed"
  /\ job' = Goto(r, "timedout")
  /\ UNCHANGED <<World, Bus, exec, log>>
WorkerGivesUp(r) ==
  /\ ackMode = "socketcan" /\ job[r].pc = "wait"
  /\ job[r].socket = "closed" \/ now >= job[r].wake \/ ShuttingDown \/ SocketFaults
  /\ IF ShuttingDown THEN Stop(r)
     ELSE /\ job' = [job EXCEPT ![r].pc = "timedout", ![r].socket = "closed"]
          /\ UNCHANGED <<exec, log>>
  /\ UNCHANGED <<World, Bus>>

\* Mutant: no return after can_retry_exhausted.
OnAckTimeoutFallsThrough(r) ==
  /\ job[r].pc = "timedout"
  /\ job' = [job EXCEPT ![r].pc = "backoff", ![r].retry = @ + 1,
                        ![r].wake = After(Backoff)]
  /\ IF job[r].retry >= MaxRetries THEN Publish(r, "retry_exhausted") ELSE UNCHANGED log
  /\ UNCHANGED <<World, exec, Bus>>
OnAckTimeout(r) ==
  /\ job[r].pc = "timedout"
  /\ \/ job[r].retry >= MaxRetries /\ Finish(r, "retry_exhausted")
     \/ /\ job[r].retry < MaxRetries
        /\ job' = [job EXCEPT ![r].pc = "backoff", ![r].retry = @ + 1,
                              ![r].wake = After(Backoff)]
        /\ UNCHANGED <<exec, log>>
  /\ UNCHANGED <<World, Bus>>

\* Mutant: the backoff is not slept.
EndBackoffAtOnce(r) ==
  /\ job[r].pc = "backoff"
  /\ job' = Goto(r, "attempt")
  /\ UNCHANGED <<World, exec, log, Bus>>
EndBackoff(r) ==
  /\ job[r].pc = "backoff" /\ now >= job[r].wake
  /\ job' = Goto(r, "attempt")
  /\ UNCHANGED <<World, exec, log, Bus>>

\* The peer answers a frame once, late or never; every bound socket sees it.
PeerAck ==
  \E f \in wire :
    /\ wire' = wire \ {f}
    /\ answered' = answered \cup {f}
    /\ job' = [r \in Requests |->
                 IF job[r].socket = "open" /\ AckMatches(r, f.req)
                 THEN [job[r] EXCEPT !.socket = "readable"] ELSE job[r]]
    /\ UNCHANGED <<World, exec, log>>

\* main and the destructor.
Signal == life = "running" /\ life' = "signalled"
StartDestructor == life = "signalled" /\ exec = NoRequest /\ life' = "destroying"
CloseThreads == life = "destroying" /\ life' = "closed"
\* Mutant: the destructor detaches its workers.
WorkersDetached == TRUE
WorkersJoined ==
  ackMode = "socketcan" => \A r \in Requests : job[r].pc \in {"new", "ended"}
JoinThreads == life = "closed" /\ WorkersJoined /\ life' = "destroyed"

Lifecycle ==
  /\ Signal \/ StartDestructor \/ CloseThreads \/ JoinThreads
  /\ UNCHANGED <<ackMode, now, exec, admitted, job, log, Bus>>

Tick ==
  /\ now < MaxTime /\ now' = now + 1
  /\ UNCHANGED <<ackMode, life, exec, admitted, job, log, Bus>>

Callback(r) == OnPlannerCommand(r) \/ MockAckFires(r) \/ TimeoutFires(r)
Thread(r) ==
  \/ BeginAttempt(r) \/ ClearToSend(r) \/ OpenAckSocket(r) \/ SendFrame(r)
  \/ StartAckWait(r) \/ WorkerAcked(r) \/ WorkerGivesUp(r)
  \/ OnAckTimeout(r) \/ EndBackoff(r)

\* The process is gone and nobody is left to do anything.
Terminated == /\ life = "destroyed" /\ now = MaxTime /\ wire = {}
              /\ UNCHANGED vars

Next == \/ \E r \in Requests : Callback(r) \/ Thread(r)
        \/ PeerAck \/ Lifecycle \/ Tick \/ Terminated

Spec == Init /\ [][Next]_vars

\* Threads run and the clock advances; a signalled process runs on to its end.
\* Nothing forces the signal, and nothing forces the peer to answer.
Fairness ==
  /\ \A r \in Requests : WF_vars(Callback(r)) /\ WF_vars(Thread(r))
  /\ WF_vars(Tick)
  /\ WF_vars(Lifecycle /\ life # "running")

FairSpec == Spec /\ Fairness

-----------------------------------------------------------------------------
\* Types of the bridge's state: job is the local state of the code that
\* handles a request, log the events published for it.
PCs == {"new", "attempt", "delay", "open", "send", "sent", "wait", "timedout",
        "backoff", "ended"}
Statuses == {"rejected", "send_failed", "ack_received", "retry_exhausted"}
Attempts == [req : Requests, attempt : 0..MaxRetries]
Jobs == [pc : PCs, retry : 0..MaxRetries, wake : Time,
         socket : {"closed", "open", "readable"},  \* readable: a matching ACK is queued
         ackDue : Time \cup {Off}, timeoutDue : Time \cup {Off}]
Logs == [terminals : Seq(Statuses), sends : Nat,
         admittedAt : Time \cup {Absent}, clearedAt : Time \cup {Absent}]

TypeOK ==
  /\ ackMode \in AckModes
  /\ now \in Time
  /\ life \in {"running", "signalled", "destroying", "closed", "destroyed"}
  /\ exec \in Requests \cup {NoRequest}
  /\ admitted \in [Identities -> Time \cup {Absent}]
  /\ job \in [Requests -> Jobs]
  /\ log \in [Requests -> Logs]
  /\ wire \subseteq Attempts
  /\ answered \subseteq Attempts

Admitted(r) == log[r].admittedAt # Absent

\* Two admitted requests with one identity were admitted a full dedup window
\* apart: the map that admit_request purges never forgets an identity early.
AdmissionsSpaced ==
  \A r, s \in Requests :
    r # s /\ Identity[r] = Identity[s] /\ Admitted(r) /\ Admitted(s) =>
      \/ log[r].admittedAt - log[s].admittedAt >= Window
      \/ log[s].admittedAt - log[r].admittedAt >= Window

\* A command delivered twice (one identity, one stamp) is executed once, if the
\* window covers the command's whole admissible life.  The code checks the three
\* parameters one by one and never this relation between them.
WindowCoversLife == Window > Ttl + Skew
AdmittedOnce ==
  WindowCoversLife =>
    \A r, s \in Requests :
      r # s /\ Identity[r] = Identity[s] /\ Stamp[r] = Stamp[s] =>
        ~(Admitted(r) /\ Admitted(s))

\* A request gets at most one terminal event, and after it no timer and no
\* thread of the request is left to publish another.
OneTerminal ==
  \A r \in Requests :
    /\ Len(log[r].terminals) <= 1
    /\ log[r].terminals # << >> =>
         /\ job[r].pc = "ended"
         /\ job[r].ackDue = Off /\ job[r].timeoutDue = Off

\* "Every attempt must end in exactly one of an ACK or a timeout": a mock
\* attempt that waits has exactly one of its two timers armed
\* (can_ack_terminal.hpp).
ExactlyOneTimer ==
  ackMode = "mock" /\ Ok =>
    \A r \in Requests :
      job[r].pc = "wait" => ((job[r].ackDue # Off) # (job[r].timeoutDue # Off))

\* Retries never flood the bus: with working sockets every retry costs a send
\* delay, a full ACK wait and a backoff, all inside the life the guard allows
\* (a sleep the horizon cuts short is no evidence).
RetryPeriod == SendDelay + AckTimeout + Backoff
SendsFitLifetime ==
  ackMode = "mock" \/ ~SocketFaults =>
    \A r \in Requests :
      log[r].sends > 0 /\ log[r].clearedAt < MaxTime =>
        /\ SendDelay + (log[r].sends - 1) * RetryPeriod
             <= log[r].clearedAt - log[r].admittedAt
        /\ SendDelay + (log[r].sends - 1) * RetryPeriod <= Ttl + Skew

\* The ACK of a peer that answers at once is not lost: it is in the buffer of
\* the attempt that waits for it ("Open and bind the ACK receiver before the
\* frame is sent", send_attempt).
EarlyAckKept ==
  \A r \in Requests :
    /\ job[r].pc = "wait" /\ job[r].socket # "closed"
    /\ [req |-> r, attempt |-> job[r].retry] \in answered
    => job[r].socket = "readable"

\* An acknowledged request had a frame of its own content answered by the peer:
\* the bridge never takes another frame's ACK that only shares the CAN id.
AckIsGenuine ==
  ackMode = "socketcan" =>
    \A r \in Requests :
      log[r].terminals = <<"ack_received">> =>
        \E f \in answered : Frame[f.req] = Frame[r]

\* Once a request has its terminal event, or the destructor has joined the
\* workers, no further frame of it is sent.
QuietAfterEnd ==
  [][\A r \in Requests :
       log[r].terminals # << >> \/ life = "destroyed" =>
         log'[r].sends = log[r].sends]_vars

\* The destructor's join cannot hang on a worker.
ShutdownCompletes == (~Ok) ~> (life = "destroyed")

-----------------------------------------------------------------------------
\* What the bridge promises its clients (CommandLifecycle).
Outcome(r) ==
  IF log[r].terminals = << >>
  THEN IF Admitted(r) THEN "accepted" ELSE "new"
  ELSE IF Admitted(r) THEN log[r].terminals[1] ELSE "refused"

Promise == INSTANCE CommandLifecycle WITH
  Command <- [r \in Requests |-> <<Identity[r], Stamp[r]>>],
  MaxSends <- MaxRetries + 1,
  up <- Ok,
  status <- [r \in Requests |-> Outcome(r)],
  sends <- [r \in Requests |-> log[r].sends]

\* The bridge implements the abstract command lifecycle, its liveness included.
KeepsPromise == Promise!Spec
=============================================================================
