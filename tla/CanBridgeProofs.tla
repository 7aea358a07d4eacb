-------------------------- MODULE CanBridgeProofs --------------------------
(* Theorems about CanBridge for every value of its constants. *)
EXTENDS CanBridge, TLAPS

LEMMA AfterInTime == ASSUME now \in Time, NEW d \in Nat PROVE After(d) \in Time
  BY ParametersAssumption DEF After, Time

LEMMA MockDelayInNat == EffectiveMockAckDelay \in Nat
  BY ParametersAssumption DEF EffectiveMockAckDelay

LEMMA UnexpiredType ==
  ASSUME TypeOK PROVE Unexpired \in [Identities -> Time \cup {Absent}]
  BY DEF TypeOK, Unexpired

LEMMA PCUpdate ==
  ASSUME NEW j \in Jobs, NEW p \in PCs, NEW t \in Time,
         NEW s \in {"closed", "open", "readable"}
  PROVE /\ [j EXCEPT !.pc = p] \in Jobs
        /\ [j EXCEPT !.pc = p, !.wake = t] \in Jobs
        /\ [j EXCEPT !.pc = p, !.socket = s] \in Jobs
  <1>1. [j EXCEPT !.pc = p] \in Jobs
    BY DEF Jobs
  <1>2. [j EXCEPT !.pc = p, !.wake = t] \in Jobs
    BY DEF Jobs
  <1>3. [j EXCEPT !.pc = p, !.socket = s] \in Jobs
    BY DEF Jobs
  <1> QED
    BY <1>1, <1>2, <1>3

LEMMA LogUpdate ==
  ASSUME NEW l \in Logs, NEW t \in Time
  PROVE /\ [l EXCEPT !.admittedAt = t] \in Logs
        /\ [l EXCEPT !.clearedAt = t] \in Logs
        /\ [l EXCEPT !.sends = @ + 1] \in Logs
  <1>1. [l EXCEPT !.admittedAt = t] \in Logs
    BY DEF Logs
  <1>2. [l EXCEPT !.clearedAt = t] \in Logs
    BY DEF Logs
  <1>3. [l EXCEPT !.sends = @ + 1] \in Logs
    BY DEF Logs
  <1> QED
    BY <1>1, <1>2, <1>3

\* A request's job or log may be replaced by a value of its type.
LEMMA Update ==
  ASSUME TypeOK, NEW r \in Requests
  PROVE /\ job[r] \in Jobs /\ log[r] \in Logs
        /\ \A j \in Jobs : [job EXCEPT ![r] = j] \in [Requests -> Jobs]
        /\ \A l \in Logs : [log EXCEPT ![r] = l] \in [Requests -> Logs]
  BY DEF TypeOK

-----------------------------------------------------------------------------
(* Type correctness: one step per action. *)

LEMMA InitType == Init => TypeOK
  <1> SUFFICES ASSUME Init PROVE TypeOK
    OBVIOUS
  <1>1. now \in Time
    BY ParametersAssumption DEF Init, Time
  <1>2. job \in [Requests -> Jobs]
    BY ParametersAssumption DEF Init, Jobs, PCs, Time, Off
  <1>3. log \in [Requests -> Logs]
    BY ParametersAssumption DEF Init, Logs
  <1> QED
    BY <1>1, <1>2, <1>3 DEF Init, TypeOK

LEMMA FinishType ==
  ASSUME TypeOK, NEW r \in Requests, NEW s \in Statuses, Finish(r, s)
  PROVE /\ job' \in [Requests -> Jobs]
        /\ log' \in [Requests -> Logs]
        /\ exec' \in Requests \cup {NoRequest}
  <1>0. [job[r] EXCEPT !.pc = "ended", !.socket = "closed"] \in Jobs
    BY Update, PCUpdate, now \in Time DEF TypeOK, PCs
  <1>1. job' \in [Requests -> Jobs]
    BY <1>0, Update DEF Finish
  <1>2. Append(log[r].terminals, s) \in Seq(Statuses)
    BY DEF TypeOK, Logs
  <1>3. log' \in [Requests -> Logs]
    BY <1>2 DEF TypeOK, Finish, Publish, Logs
  <1> QED
    BY <1>1, <1>3 DEF TypeOK, Finish, Release

LEMMA StopType ==
  ASSUME TypeOK, NEW r \in Requests, Stop(r)
  PROVE /\ job' \in [Requests -> Jobs]
        /\ log' \in [Requests -> Logs]
        /\ exec' \in Requests \cup {NoRequest}
  <1>1. [job[r] EXCEPT !.pc = "ended", !.socket = "closed"] \in Jobs
    BY Update, PCUpdate, now \in Time DEF TypeOK, PCs
  <1> QED
    BY <1>1, Update DEF TypeOK, Stop, Release

LEMMA StepType == TypeOK /\ [Next]_vars => TypeOK'
  <1> SUFFICES ASSUME TypeOK, [Next]_vars PROVE TypeOK'
    OBVIOUS
  <1> USE AfterInTime, ParametersAssumption
  <1>1. ASSUME NEW r \in Requests, OnPlannerCommand(r) PROVE TypeOK'
    <2>1. CASE Admit(r)
      <3>1. Identity[r] \in Identities
        BY DEF Identities
      <3>2. admitted' \in [Identities -> Time \cup {Absent}]
        BY <2>1, <3>1, UnexpiredType DEF Admit, TypeOK
      <3>3. /\ [job[r] EXCEPT !.pc = "attempt"] \in Jobs
            /\ [log[r] EXCEPT !.admittedAt = now] \in Logs
        BY Update, PCUpdate, LogUpdate DEF TypeOK, PCs
      <3>4. job' \in [Requests -> Jobs] /\ log' \in [Requests -> Logs]
        BY <2>1, <3>3, Update DEF Admit, Goto
      <3> QED
        BY <1>1, <2>1, <3>2, <3>4 DEF OnPlannerCommand, Admit, TypeOK, Bus
    <2>2. CASE Refuse(r)
      BY <1>1, <2>2, FinishType, UnexpiredType
      DEF OnPlannerCommand, Refuse, TypeOK, Bus, Statuses
    <2>3. CASE ~Ok /\ Stop(r) /\ UNCHANGED admitted
      BY <1>1, <2>3, StopType DEF OnPlannerCommand, TypeOK, Bus
    <2> QED
      BY <1>1, <2>1, <2>2, <2>3 DEF OnPlannerCommand
  <1>2. ASSUME NEW r \in Requests, BeginAttempt(r) PROVE TypeOK'
    <2>1. CASE Finish(r, "rejected")
      BY <1>2, <2>1, FinishType DEF BeginAttempt, TypeOK, World, Bus, Statuses
    <2>2. CASE job' = [job EXCEPT ![r].pc = "delay", ![r].wake = After(SendDelay)]
               /\ UNCHANGED <<exec, log>>
      <3>1. [job[r] EXCEPT !.pc = "delay", !.wake = After(SendDelay)] \in Jobs
        <4>1. After(SendDelay) \in Time
          BY DEF TypeOK
        <4> QED
          BY <4>1, Update, PCUpdate DEF PCs
      <3>2. job' \in [Requests -> Jobs]
        BY <2>2, <3>1, Update
      <3> QED
        BY <1>2, <2>2, <3>2 DEF BeginAttempt, TypeOK, World, Bus
    <2> QED
      BY <1>2, <2>1, <2>2 DEF BeginAttempt
  <1>3. ASSUME NEW r \in Requests, ClearToSend(r) PROVE TypeOK'
    <2>1. CASE Stop(r)
      BY <1>3, <2>1, StopType DEF ClearToSend, TypeOK, World, Bus
    <2>2. CASE Finish(r, "rejected")
      BY <1>3, <2>2, FinishType DEF ClearToSend, TypeOK, World, Bus, Statuses
    <2>3. CASE job' = Goto(r, "open") /\ log' = [log EXCEPT ![r].clearedAt = now]
               /\ UNCHANGED exec
      <3>1. /\ [job[r] EXCEPT !.pc = "open"] \in Jobs
            /\ [log[r] EXCEPT !.clearedAt = now] \in Logs
        BY Update, PCUpdate, LogUpdate DEF TypeOK, PCs
      <3>2. job' \in [Requests -> Jobs] /\ log' \in [Requests -> Logs]
        BY <2>3, <3>1, Update DEF Goto
      <3> QED
        BY <1>3, <2>3, <3>2 DEF ClearToSend, TypeOK, World, Bus
    <2> QED
      BY <1>3, <2>1, <2>2, <2>3 DEF ClearToSend
  <1>4. ASSUME NEW r \in Requests, OpenAckSocket(r) PROVE TypeOK'
    <2>1. \A s \in {"closed", "open"} :
            [job[r] EXCEPT !.pc = "send", !.socket = s] \in Jobs
      BY Update, PCUpdate, now \in Time DEF TypeOK, PCs
    <2>2. PICK s \in {"closed", "open"} : job' = [job EXCEPT ![r].pc = "send", ![r].socket = s]
      BY <1>4 DEF OpenAckSocket
    <2>3. job' = [job EXCEPT ![r] = [job[r] EXCEPT !.pc = "send", !.socket = s]]
      BY <2>2
    <2>4. job' \in [Requests -> Jobs]
      BY <2>1, <2>3, Update
    <2> QED
      BY <1>4, <2>4 DEF OpenAckSocket, TypeOK, World, Bus
  <1>5. ASSUME NEW r \in Requests, SendFrame(r) PROVE TypeOK'
    <2>1. CASE Finish(r, "send_failed") /\ UNCHANGED Bus
      BY <1>5, <2>1, FinishType DEF SendFrame, TypeOK, World, Bus, Statuses
    <2>2. CASE ~(Finish(r, "send_failed") /\ UNCHANGED Bus)
      <3>0. /\ [job[r] EXCEPT !.pc = "sent"] \in Jobs
            /\ [log[r] EXCEPT !.sends = @ + 1] \in Logs
        BY Update, PCUpdate, LogUpdate DEF TypeOK, PCs
      <3>1. job' \in [Requests -> Jobs] /\ log' \in [Requests -> Logs]
        BY <1>5, <2>2, <3>0, Update DEF SendFrame, Goto
      <3>2. [req |-> r, attempt |-> job[r].retry] \in Attempts
        BY DEF TypeOK, Jobs, Attempts
      <3> QED
        BY <1>5, <2>2, <3>1, <3>2 DEF SendFrame, TypeOK, World
    <2> QED
      BY <2>1, <2>2
  <1>6. ASSUME NEW r \in Requests, StartAckWait(r) PROVE TypeOK'
    <2>1. CASE ackMode = "disabled" /\ Stop(r)
      BY <1>6, <2>1, StopType DEF StartAckWait, TypeOK, World, Bus
    <2>2. CASE ~(ackMode = "disabled" /\ Stop(r))
      <3>1. MockAckDue(r) \in Time \cup {Off} /\ TimeoutDue(r) \in Time \cup {Off}
        BY MockDelayInNat DEF TypeOK, MockAckDue, TimeoutDue
      <3>2. job' \in [Requests -> Jobs]
        BY <1>6, <2>2, <3>1 DEF StartAckWait, Goto, TypeOK, Jobs, PCs
      <3> QED
        BY <1>6, <2>2, <3>2 DEF StartAckWait, Release, TypeOK, World, Bus
    <2> QED
      BY <2>1, <2>2
  <1>7. ASSUME NEW r \in Requests, MockAckFires(r) PROVE TypeOK'
    <2>1. job' \in [Requests -> Jobs]
      BY <1>7 DEF MockAckFires, TypeOK, Jobs, PCs
    <2>2. Append(log[r].terminals, "ack_received") \in Seq(Statuses)
      BY DEF TypeOK, Logs, Statuses
    <2>3. [log[r] EXCEPT !.terminals = Append(@, "ack_received")] \in Logs
      BY <2>2, Update DEF Logs
    <2>4. log' \in [Requests -> Logs]
      <3>1. \/ log' = log
            \/ log' = [log EXCEPT ![r] = [log[r] EXCEPT !.terminals = Append(@, "ack_received")]]
        BY <1>7 DEF MockAckFires, Publish
      <3>2. log \in [Requests -> Logs]
        BY DEF TypeOK
      <3> QED
        BY <2>3, <3>1, <3>2, Update
    <2> QED
      BY <1>7, <2>1, <2>4 DEF MockAckFires, TypeOK, World, Bus
  <1>8. ASSUME NEW r \in Requests, TimeoutFires(r) PROVE TypeOK'
    <2>1. job' \in [Requests -> Jobs]
      BY <1>8 DEF TimeoutFires, TypeOK, Jobs, PCs
    <2> QED
      BY <1>8, <2>1 DEF TimeoutFires, TypeOK, World, Bus
  <1>9. ASSUME NEW r \in Requests, WorkerAcked(r) PROVE TypeOK'
    BY <1>9, FinishType, StopType DEF WorkerAcked, TypeOK, World, Bus, Statuses
  <1>10. ASSUME NEW r \in Requests, WorkerGivesUp(r) PROVE TypeOK'
    <2>1. CASE Stop(r)
      BY <1>10, <2>1, StopType DEF WorkerGivesUp, TypeOK, World, Bus
    <2>2. CASE job' = [job EXCEPT ![r].pc = "timedout", ![r].socket = "closed"]
               /\ UNCHANGED <<exec, log>>
      <3>1. [job[r] EXCEPT !.pc = "timedout", !.socket = "closed"] \in Jobs
        BY Update, PCUpdate, now \in Time DEF TypeOK, PCs
      <3>2. job' \in [Requests -> Jobs]
        BY <2>2, <3>1, Update
      <3> QED
        BY <1>10, <2>2, <3>2 DEF WorkerGivesUp, TypeOK, World, Bus
    <2> QED
      BY <1>10, <2>1, <2>2 DEF WorkerGivesUp
  <1>11. ASSUME NEW r \in Requests, OnAckTimeout(r) PROVE TypeOK'
    <2>1. CASE Finish(r, "retry_exhausted")
      BY <1>11, <2>1, FinishType DEF OnAckTimeout, TypeOK, World, Bus, Statuses
    <2>2. CASE ~Finish(r, "retry_exhausted")
      <3>1. job[r].retry + 1 \in 0..MaxRetries
        BY <1>11, <2>2 DEF OnAckTimeout, TypeOK, Jobs
      <3>2. job' \in [Requests -> Jobs]
        BY <1>11, <2>2, <3>1 DEF OnAckTimeout, TypeOK, Jobs, PCs
      <3> QED
        BY <1>11, <2>2, <3>2 DEF OnAckTimeout, TypeOK, World, Bus
    <2> QED
      BY <2>1, <2>2
  <1>12. ASSUME NEW r \in Requests, EndBackoff(r) PROVE TypeOK'
    <2>1. job' \in [Requests -> Jobs]
      BY <1>12, Update, PCUpdate, now \in Time DEF EndBackoff, Goto, TypeOK, PCs
    <2> QED
      BY <1>12, <2>1 DEF EndBackoff, TypeOK, World, Bus
  <1>13. CASE PeerAck
    <2>1. job' \in [Requests -> Jobs]
      BY <1>13 DEF PeerAck, TypeOK, Jobs, AckMatches
    <2> QED
      BY <1>13, <2>1 DEF PeerAck, TypeOK, World
  <1>14. CASE Lifecycle
    BY <1>14 DEF Lifecycle, Signal, StartDestructor, CloseThreads, JoinThreads, TypeOK, Bus
  <1>15. CASE Tick
    BY <1>15 DEF Tick, TypeOK, Time, Bus
  <1>16. CASE UNCHANGED vars
    BY <1>16 DEF vars, TypeOK
  <1> QED
    BY <1>1, <1>2, <1>3, <1>4, <1>5, <1>6, <1>7, <1>8, <1>9, <1>10, <1>11, <1>12,
       <1>13, <1>14, <1>15, <1>16 DEF Next, Callback, Thread, Terminated

\* The bridge's state keeps its type, in particular no retry counter passes
\* max_retries and no thread leaves the stages of send_attempt.
THEOREM TypeCorrect == Spec => []TypeOK
  BY InitType, StepType, PTL DEF Spec
-----------------------------------------------------------------------------
(* Admission.  The property is not inductive alone: it needs that the map    *)
(* still holds an identity for as long as its last admission is recent.      *)

AdmissionInv ==
  /\ \A i \in Identities : admitted[i] <= now
  /\ \A r \in Requests : Admitted(r) =>
       /\ job[r].pc # "new"
       /\ log[r].admittedAt <= now
       /\ Stamp[r] <= log[r].admittedAt + Skew
       /\ log[r].admittedAt - Stamp[r] <= Ttl
       /\ IF admitted[Identity[r]] = Absent
          THEN now - log[r].admittedAt >= Window
          ELSE log[r].admittedAt <= admitted[Identity[r]]
  /\ AdmissionsSpaced

\* Steps that neither admit nor purge; the clock may advance.
KeepsAdmissions ==
  /\ admitted' = admitted /\ now' >= now
  /\ \A r \in Requests :
       /\ log'[r].admittedAt = log[r].admittedAt
       /\ job[r].pc # "new" => job'[r].pc # "new"

LEMMA InitAdmission == Init => AdmissionInv
  BY DEF Init, AdmissionInv, AdmissionsSpaced, Admitted, Absent, Identities

\* Updates of other fields leave the admission time alone.
LEMMA LogFields ==
  ASSUME TypeOK, NEW r \in Requests, NEW q \in Requests, NEW x
  PROVE /\ [log EXCEPT ![r].terminals = Append(@, x)][q].admittedAt = log[q].admittedAt
        /\ [log EXCEPT ![r].sends = @ + 1][q].admittedAt = log[q].admittedAt
        /\ [log EXCEPT ![r].clearedAt = x][q].admittedAt = log[q].admittedAt
  <1>1. log \in [Requests -> Logs]
    BY DEF TypeOK
  <1>2. [log EXCEPT ![r].terminals = Append(@, x)][q].admittedAt = log[q].admittedAt
    BY <1>1 DEF Logs
  <1>3. [log EXCEPT ![r].sends = @ + 1][q].admittedAt = log[q].admittedAt
    BY <1>1 DEF Logs
  <1>4. [log EXCEPT ![r].clearedAt = x][q].admittedAt = log[q].admittedAt
    BY <1>1 DEF Logs
  <1> QED
    BY <1>2, <1>3, <1>4

LEMMA PublishKeepsAdmissions ==
  ASSUME TypeOK, NEW r \in Requests, NEW x,
         log' = log \/ log' = [log EXCEPT ![r].terminals = Append(@, x)]
  PROVE  \A q \in Requests : log'[q].admittedAt = log[q].admittedAt
  <1>1. CASE log' = log
    BY <1>1
  <1>2. CASE log' = [log EXCEPT ![r].terminals = Append(@, x)]
    <2> TAKE q \in Requests
    <2>1. [log EXCEPT ![r].terminals = Append(@, x)][q].admittedAt = log[q].admittedAt
      BY LogFields
    <2> QED
      BY <1>2, <2>1
  <1> QED
    BY <1>1, <1>2

LEMMA OtherStepsKeepAdmissions ==
  ASSUME TypeOK, [Next]_vars,
         ~ \E r \in Requests : OnPlannerCommand(r)
  PROVE KeepsAdmissions
  <1>0. now \in Int /\ job \in [Requests -> Jobs] /\ log \in [Requests -> Logs]
    BY DEF TypeOK, Time
  <1>1. ASSUME NEW r \in Requests, Thread(r) PROVE KeepsAdmissions
    <2>1. ASSUME NEW s \in Statuses, Finish(r, s), UNCHANGED World PROVE KeepsAdmissions
      BY <1>0, <2>1 DEF Finish, Publish, World, KeepsAdmissions, Jobs, Logs
    <2>2. ASSUME Stop(r), UNCHANGED World PROVE KeepsAdmissions
      BY <1>0, <2>2 DEF Stop, World, KeepsAdmissions, Jobs
    <2>3. CASE BeginAttempt(r)
      BY <1>0, <2>1, <2>3 DEF BeginAttempt, World, KeepsAdmissions, Jobs, Statuses
    <2>4. CASE ClearToSend(r)
      <3>1. CASE Ok /\ Valid(r)
        <4>1. \A q \in Requests : log'[q].admittedAt = log[q].admittedAt
          <5>1. log' = [log EXCEPT ![r].clearedAt = now]
            BY <2>4, <3>1 DEF ClearToSend
          <5> QED
            BY <5>1, LogFields
        <4>2. job' = [job EXCEPT ![r].pc = "open"]
          BY <2>4, <3>1 DEF ClearToSend, Goto
        <4> QED
          BY <1>0, <2>4, <4>1, <4>2 DEF ClearToSend, World, KeepsAdmissions, Jobs
      <3>2. CASE ~(Ok /\ Valid(r))
        BY <2>1, <2>2, <2>4, <3>2 DEF ClearToSend, Statuses
      <3> QED
        BY <3>1, <3>2
    <2>5. CASE OpenAckSocket(r)
      BY <1>0, <2>5 DEF OpenAckSocket, World, KeepsAdmissions, Jobs
    <2>6. CASE SendFrame(r)
      <3>1. CASE Finish(r, "send_failed")
        BY <2>1, <2>6, <3>1 DEF SendFrame, Statuses
      <3>2. CASE job' = Goto(r, "sent") /\ log' = [log EXCEPT ![r].sends = @ + 1]
        <4>1. \A q \in Requests : log'[q].admittedAt = log[q].admittedAt
          BY <3>2, LogFields
        <4> QED
          BY <1>0, <2>6, <3>2, <4>1 DEF SendFrame, Goto, World, KeepsAdmissions, Jobs
      <3> QED
        BY <2>6, <3>1, <3>2 DEF SendFrame
    <2>7. CASE StartAckWait(r)
      BY <1>0, <2>2, <2>7 DEF StartAckWait, Goto, World, KeepsAdmissions, Jobs
    <2>8. CASE WorkerAcked(r)
      BY <2>1, <2>2, <2>8 DEF WorkerAcked, Statuses
    <2>9. CASE WorkerGivesUp(r)
      BY <1>0, <2>2, <2>9 DEF WorkerGivesUp, World, KeepsAdmissions, Jobs
    <2>10. CASE OnAckTimeout(r)
      BY <1>0, <2>1, <2>10 DEF OnAckTimeout, World, KeepsAdmissions, Jobs, Statuses
    <2>11. CASE EndBackoff(r)
      BY <1>0, <2>11 DEF EndBackoff, Goto, World, KeepsAdmissions, Jobs
    <2> QED
      BY <1>1, <2>3, <2>4, <2>5, <2>6, <2>7, <2>8, <2>9, <2>10, <2>11 DEF Thread
  <1>2. ASSUME NEW r \in Requests, MockAckFires(r) PROVE KeepsAdmissions
    <2>1. \A q \in Requests : log'[q].admittedAt = log[q].admittedAt
      <3>1. log' = log \/ log' = [log EXCEPT ![r].terminals = Append(@, "ack_received")]
        BY <1>2 DEF MockAckFires, Publish
      <3> QED
        BY <3>1, PublishKeepsAdmissions
    <2>2. \A q \in Requests : job[q].pc # "new" => job'[q].pc # "new"
      BY <1>0, <1>2 DEF MockAckFires, Jobs
    <2> QED
      BY <1>0, <1>2, <2>1, <2>2 DEF MockAckFires, World, KeepsAdmissions
  <1>3. ASSUME NEW r \in Requests, TimeoutFires(r) PROVE KeepsAdmissions
    <2>1. \/ job' = [job EXCEPT ![r].pc = "timedout", ![r].timeoutDue = Off]
          \/ job' = [job EXCEPT ![r].timeoutDue = Off]
      BY <1>3 DEF TimeoutFires
    <2>2. \A q \in Requests : job[q].pc # "new" => job'[q].pc # "new"
      BY <1>0, <2>1 DEF Jobs
    <2> QED
      BY <1>0, <1>3, <2>2 DEF TimeoutFires, World, KeepsAdmissions
  <1>4. CASE PeerAck
    BY <1>0, <1>4 DEF PeerAck, World, KeepsAdmissions, Jobs
  <1>5. CASE Lifecycle \/ Tick \/ UNCHANGED vars
    BY <1>0, <1>5 DEF Lifecycle, Tick, vars, KeepsAdmissions
  <1> QED
    BY <1>1, <1>2, <1>3, <1>4, <1>5 DEF Next, Callback, Terminated

LEMMA StepAdmission == TypeOK /\ AdmissionInv /\ [Next]_vars => AdmissionInv'
  <1> SUFFICES ASSUME TypeOK, AdmissionInv, [Next]_vars PROVE AdmissionInv'
    OBVIOUS
  <1>0. /\ now \in Int
        /\ admitted \in [Identities -> Time \cup {Absent}]
        /\ \A r \in Requests : /\ Identity[r] \in Identities
                               /\ Stamp[r] \in Int
                               /\ log[r].admittedAt \in Int
                               /\ log[r] \in Logs /\ job[r] \in Jobs
    BY RequestsAssumption DEF TypeOK, Time, Logs, Absent, Identities
  <1>1. Window \in Nat /\ Ttl \in Nat /\ Skew \in Nat /\ Absent = -1
    BY ParametersAssumption DEF Absent
  <1>2. CASE KeepsAdmissions
    <2>1. now' \in Int
      BY StepType DEF TypeOK, Time
    <2>2. \A i \in Identities : admitted'[i] <= now'
      BY <1>0, <1>1, <1>2, <2>1 DEF KeepsAdmissions, AdmissionInv, Time
    <2>3. AdmissionsSpaced'
      BY <1>2 DEF KeepsAdmissions, AdmissionInv, AdmissionsSpaced, Admitted
    <2> QED
      BY <1>0, <1>1, <1>2, <2>1, <2>2, <2>3 DEF KeepsAdmissions, AdmissionInv, Admitted
  <1>3. ASSUME NEW q \in Requests, OnPlannerCommand(q) PROVE AdmissionInv'
    <2>0. now' = now /\ Unexpired \in [Identities -> Time \cup {Absent}]
      BY <1>3, UnexpiredType DEF OnPlannerCommand
    <2>1. \A i \in Identities : Unexpired[i] <= now
      <3> TAKE i \in Identities
      <3>1. Unexpired[i] = Absent \/ Unexpired[i] = admitted[i]
        BY DEF Unexpired
      <3>2. now >= Absent
        BY ParametersAssumption DEF TypeOK, Time, Absent
      <3> QED
        BY <1>0, <3>1, <3>2 DEF AdmissionInv
    \* Purging keeps every identity that was admitted within the window.
    <2>2. \A r \in Requests : Admitted(r) =>
            IF Unexpired[Identity[r]] = Absent
            THEN now - log[r].admittedAt >= Window
            ELSE log[r].admittedAt <= Unexpired[Identity[r]]
      <3> TAKE r \in Requests
      <3> HAVE Admitted(r)
      <3>1. Unexpired[Identity[r]] =
              IF admitted[Identity[r]] # Absent /\ now - admitted[Identity[r]] >= Window
              THEN Absent ELSE admitted[Identity[r]]
        BY <1>0 DEF Unexpired
      <3>2. admitted[Identity[r]] \in Int
        BY <1>0, <1>1 DEF Time
      <3> QED
        BY <1>0, <1>1, <3>1, <3>2 DEF AdmissionInv
    <2>3. CASE Refuse(q) \/ (Stop(q) /\ UNCHANGED admitted)
      <3>0. /\ log' = log \/ log' = [log EXCEPT ![q].terminals = Append(@, "rejected")]
            /\ job' = [job EXCEPT ![q].pc = "ended", ![q].socket = "closed"]
        BY <2>3 DEF Refuse, Finish, Stop, Publish
      <3>a. \A r \in Requests : log'[r].admittedAt = log[r].admittedAt
        BY <3>0, PublishKeepsAdmissions
      <3>b. \A r \in Requests : job[r].pc # "new" => job'[r].pc # "new"
        BY <3>0 DEF TypeOK, Jobs
      <3>1. \A r \in Requests : /\ log'[r].admittedAt = log[r].admittedAt
                                /\ job[r].pc # "new" => job'[r].pc # "new"
        BY <3>a, <3>b
      <3>2. admitted' = admitted \/ admitted' = Unexpired
        BY <2>3 DEF Refuse
      <3>3. AdmissionsSpaced'
        BY <3>1 DEF AdmissionInv, AdmissionsSpaced, Admitted
      <3> QED
        BY <2>0, <2>1, <2>2, <3>1, <3>2, <3>3 DEF AdmissionInv, Admitted
    <2>4. CASE Admit(q)
      <3>1. /\ log' = [log EXCEPT ![q].admittedAt = now]
            /\ job' = [job EXCEPT ![q].pc = "attempt"]
            /\ admitted' = [Unexpired EXCEPT ![Identity[q]] = now]
            /\ Unexpired[Identity[q]] = Absent
            /\ job[q].pc = "new" /\ Valid(q)
        BY <2>4, <1>3 DEF Admit, Goto, OnPlannerCommand
      <3>2. /\ log'[q].admittedAt = now /\ job'[q].pc = "attempt"
            /\ \A r \in Requests \ {q} : log'[r] = log[r] /\ job'[r] = job[r]
        BY <1>0, <3>1 DEF TypeOK, Jobs, Logs
      <3>3. /\ admitted'[Identity[q]] = now
            /\ \A i \in Identities \ {Identity[q]} : admitted'[i] = Unexpired[i]
        BY <1>0, <2>0, <3>1
      <3>4. ~Admitted(q)
        BY <3>1 DEF AdmissionInv
      <3>5. \A i \in Identities : admitted'[i] <= now'
        BY <1>0, <2>0, <2>1, <3>3
      <3>6. AdmissionsSpaced'
        \* An earlier admission of q's identity was purged, so a window has passed.
        <4>1. \A r \in Requests \ {q} :
                Admitted(r) /\ Identity[r] = Identity[q] =>
                  now - log[r].admittedAt >= Window
          BY <2>2, <3>1
        <4> QED
          BY <1>0, <1>1, <3>2, <4>1 DEF AdmissionsSpaced, AdmissionInv, Admitted
      <3>7. ASSUME NEW r \in Requests, Admitted(r)'
            PROVE /\ job'[r].pc # "new"
                  /\ log'[r].admittedAt <= now'
                  /\ Stamp[r] <= log'[r].admittedAt + Skew
                  /\ log'[r].admittedAt - Stamp[r] <= Ttl
                  /\ IF admitted'[Identity[r]] = Absent
                     THEN now' - log'[r].admittedAt >= Window
                     ELSE log'[r].admittedAt <= admitted'[Identity[r]]
        <4>1. CASE r = q
          BY <4>1, <1>0, <1>1, <2>0, <3>1, <3>2, <3>3 DEF Valid, TypeOK, Time
        <4>2. CASE r # q /\ Identity[r] = Identity[q]
          BY <4>2, <3>7, <1>0, <1>1, <2>0, <3>2, <3>3 DEF AdmissionInv, Admitted, TypeOK, Time
        <4>3. CASE r # q /\ Identity[r] # Identity[q]
          BY <4>3, <3>7, <1>0, <1>1, <2>0, <2>2, <3>2, <3>3 DEF AdmissionInv, Admitted
        <4> QED
          BY <4>1, <4>2, <4>3
      <3> QED
        BY <3>5, <3>6, <3>7 DEF AdmissionInv
    <2> QED
      BY <1>3, <2>3, <2>4 DEF OnPlannerCommand
  <1> QED
    BY <1>2, <1>3, OtherStepsKeepAdmissions

LEMMA AdmissionInvariant == Spec => [](TypeOK /\ AdmissionInv)
  BY InitType, InitAdmission, StepType, StepAdmission, PTL DEF Spec

\* Whatever the timing, two admissions of one identity are a window apart.
THEOREM AdmissionSpacing == Spec => []AdmissionsSpaced
  BY AdmissionInvariant, PTL DEF AdmissionInv

\* Two deliveries of one command are both young enough for one window.
LEMMA OnceAdmitted == TypeOK /\ AdmissionInv => AdmittedOnce
  <1> SUFFICES ASSUME TypeOK, AdmissionInv, Window > Ttl + Skew,
                      NEW r \in Requests, NEW s \in Requests,
                      r # s, Identity[r] = Identity[s], Stamp[r] = Stamp[s],
                      Admitted(r), Admitted(s)
               PROVE FALSE
    BY DEF AdmittedOnce, WindowCoversLife
  <1>1. /\ log[r].admittedAt \in Int /\ log[s].admittedAt \in Int
        /\ Stamp[r] \in Int /\ Stamp[s] \in Int
    BY RequestsAssumption DEF TypeOK, Logs, Time, Absent
  <1> QED
    BY <1>1, ParametersAssumption DEF AdmissionInv, AdmissionsSpaced

\* A window longer than the admissible life (time to live plus tolerated skew)
\* makes a redelivered command execute at most once.
THEOREM NoDoubleAdmission == Spec => []AdmittedOnce
  BY OnceAdmitted, AdmissionInvariant, PTL
-----------------------------------------------------------------------------
(* Where a request is: the place of the code that handles it says which     *)
(* terminals, timers, sends and sockets it can have.                        *)

\* A thread is in send_attempt, on_ack_timeout or their sleeps.
Working == {"attempt", "delay", "open", "send", "sent", "timedout", "backoff"}

Place(r) ==
  /\ job[r].pc # "ended" => log[r].terminals = << >>
  /\ Len(log[r].terminals) <= 1
  /\ job[r].ackDue # Off \/ job[r].timeoutDue # Off =>
       job[r].pc = "wait" /\ ackMode = "mock"
  /\ job[r].ackDue = Off \/ job[r].timeoutDue = Off
  /\ ackMode = "mock" /\ Ok /\ job[r].pc = "wait" =>
       job[r].ackDue # Off \/ job[r].timeoutDue # Off

Count(r) ==
  /\ job[r].pc = "new" => ~Admitted(r) /\ job[r].retry = 0
  /\ job[r].pc \notin {"new", "ended"} => Admitted(r)
  /\ ~Admitted(r) => log[r].sends = 0
  /\ job[r].pc \in {"attempt", "delay", "open", "send", "backoff"} =>
       log[r].sends = job[r].retry
  /\ job[r].pc \in {"sent", "wait", "timedout"} => log[r].sends = job[r].retry + 1
  /\ log[r].sends <= MaxRetries + 1

\* Outside socketcan mode only the executor works on requests; the destructor
\* starts with the executor free and ends with every worker joined.
Owner(r) ==
  /\ ackMode # "socketcan" /\ job[r].pc \in Working => exec = r
  /\ life = "destroyed" => job[r].pc \notin Working
  /\ life = "destroyed" /\ ackMode = "socketcan" => job[r].pc # "wait"

Socket(r) ==
  /\ job[r].socket # "closed" => ackMode = "socketcan"
  /\ ackMode = "socketcan" /\ ~SocketFaults /\ job[r].pc \in {"send", "sent", "wait"} =>
       job[r].socket # "closed"

At(r) == Place(r) /\ Count(r) /\ Owner(r) /\ Socket(r)

PlaceInv == /\ \A r \in Requests : At(r)
            /\ ShuttingDown => exec = NoRequest

LEMMA InitPlace == Init => PlaceInv
  BY RequestsAssumption, ParametersAssumption
  DEF Init, PlaceInv, At, Place, Count, Owner, Socket, Working, Admitted, Absent, Off,
      Ok, ShuttingDown

\* A step at r leaves the other requests where they are.
LEMMA OthersStay ==
  ASSUME NEW r \in Requests, NEW q \in Requests \ {r}, At(q),
         job'[q] = job[q], log'[q] = log[q], ackMode' = ackMode, life' = life,
         exec' = exec \/ (exec = r /\ exec' = NoRequest) \/ exec = NoRequest
  PROVE  At(q)'
  BY RequestsAssumption
  DEF At, Place, Count, Owner, Socket, Admitted, Ok, Working

\* The fields of r after Finish and Stop.
LEMMA FinishFields ==
  ASSUME TypeOK, NEW r \in Requests, NEW s, Finish(r, s)
  PROVE  /\ job'[r] = [job[r] EXCEPT !.pc = "ended", !.socket = "closed"]
         /\ log'[r] = [log[r] EXCEPT !.terminals = Append(@, s)]
         /\ \A q \in Requests \ {r} : job'[q] = job[q] /\ log'[q] = log[q]
         /\ exec' = Release(r)
  BY DEF TypeOK, Finish, Publish

LEMMA StopFields ==
  ASSUME TypeOK, NEW r \in Requests, Stop(r)
  PROVE  /\ job'[r] = [job[r] EXCEPT !.pc = "ended", !.socket = "closed"]
         /\ log' = log
         /\ \A q \in Requests \ {r} : job'[q] = job[q] /\ log'[q] = log[q]
         /\ exec' = Release(r)
  BY DEF TypeOK, Stop

\* The handling of an admitted request ends, by an event or silently.
LEMMA EndsInPlace ==
  ASSUME TypeOK, PlaceInv, NEW r \in Requests,
         Stop(r) \/ \E s \in Statuses : Finish(r, s),
         job[r].pc # "ended", ackMode' = ackMode, life' = life,
         job[r].ackDue = Off, job[r].timeoutDue = Off
  PROVE  PlaceInv'
<1>1. /\ job'[r] = [job[r] EXCEPT !.pc = "ended", !.socket = "closed"]
      /\ \A q \in Requests \ {r} : job'[q] = job[q] /\ log'[q] = log[q]
      /\ exec' = Release(r)
      /\ log'[r] = log[r] \/ \E s \in Statuses : log'[r] = [log[r] EXCEPT !.terminals = Append(@, s)]
  BY FinishFields, StopFields
<1>2. /\ job[r] \in Jobs /\ log[r] \in Logs /\ log[r].terminals = << >> /\ At(r)
  BY Update DEF PlaceInv, At, Place
<1>3. /\ job'[r].pc = "ended" /\ job'[r].socket = "closed" /\ job'[r].ackDue = Off
      /\ job'[r].timeoutDue = Off
  BY <1>1, <1>2 DEF Jobs
<1>4. /\ Len(log'[r].terminals) <= 1 /\ log'[r].sends = log[r].sends
      /\ log'[r].admittedAt = log[r].admittedAt
  <2>1. CASE log'[r] = log[r]
    BY <1>2, <2>1
  <2>2. ASSUME NEW s \in Statuses, log'[r] = [log[r] EXCEPT !.terminals = Append(@, s)]
        PROVE  /\ Len(log'[r].terminals) <= 1 /\ log'[r].sends = log[r].sends
               /\ log'[r].admittedAt = log[r].admittedAt
    BY <1>2, <2>2 DEF Logs
  <2> QED BY <1>1, <2>1, <2>2
<1>5. At(r)'
  BY <1>2, <1>3, <1>4 DEF At, Place, Count, Owner, Socket, Working, Admitted
<1>6. \A q \in Requests \ {r} : At(q)'
  BY <1>1, OthersStay DEF PlaceInv, Release
<1> QED BY <1>1, <1>5, <1>6 DEF PlaceInv, ShuttingDown, Release

LEMMA StepPlace == TypeOK /\ PlaceInv /\ [Next]_vars => PlaceInv'
<1> SUFFICES ASSUME TypeOK, PlaceInv, [Next]_vars PROVE PlaceInv'
  OBVIOUS
<1>0. ASSUME NEW r \in Requests
      PROVE  /\ job[r] \in Jobs /\ log[r] \in Logs /\ At(r) /\ r # NoRequest
             /\ job[r].pc \in PCs /\ job[r].retry \in 0 .. MaxRetries /\ log[r].sends \in Nat
             /\ \A t \in Time : t # Off
  BY Update, RequestsAssumption DEF PlaceInv, Jobs, Logs, Time, Off
<1> USE DEF Place, Count, Owner, Socket
\* It is enough that the request a step works on stays in place.
<1>own. ASSUME NEW r \in Requests, At(r)', ackMode' = ackMode, life' = life,
               \A q \in Requests \ {r} : job'[q] = job[q] /\ log'[q] = log[q],
               \/ exec' = exec
               \/ exec = r /\ exec' = NoRequest
               \/ exec = NoRequest /\ (ShuttingDown => exec' = NoRequest)
        PROVE  PlaceInv'
  <2>1. \A q \in Requests \ {r} : At(q)'
    BY <1>own, OthersStay DEF PlaceInv
  <2> QED BY <1>own, <2>1 DEF PlaceInv, ShuttingDown
<1>1. ASSUME NEW r \in Requests, OnPlannerCommand(r) PROVE PlaceInv'
  <2>0. /\ exec = NoRequest /\ ~ShuttingDown /\ job[r].pc = "new"
        /\ ackMode' = ackMode /\ life' = life
        /\ job[r].ackDue = Off /\ job[r].timeoutDue = Off
    BY <1>0, <1>1 DEF OnPlannerCommand, At
  <2>1. CASE Admit(r)
    <3>1. /\ job'[r] = [job[r] EXCEPT !.pc = "attempt"]
          /\ log'[r] = [log[r] EXCEPT !.admittedAt = now]
          /\ \A q \in Requests \ {r} : job'[q] = job[q] /\ log'[q] = log[q]
          /\ exec' = r
      BY <2>1 DEF Admit, Goto, TypeOK
    <3>2. /\ job'[r].pc = "attempt" /\ job'[r].socket = job[r].socket
          /\ job'[r].ackDue = Off /\ job'[r].timeoutDue = Off /\ job'[r].retry = job[r].retry
          /\ log'[r].terminals = << >> /\ log'[r].sends = log[r].sends
          /\ log'[r].admittedAt = now
      BY <1>0, <2>0, <3>1 DEF Jobs, Logs, At
    <3>3. now # Absent
      BY DEF TypeOK, Time, Absent
    <3>4. At(r)'
      BY <1>0, <2>0, <3>1, <3>2, <3>3, ParametersAssumption DEF At, Admitted, ShuttingDown, Ok
    <3> QED BY <1>own, <2>0, <3>1, <3>4
  <2>2. CASE ~Admit(r)
    BY <1>1, <2>0, <2>2, EndsInPlace DEF OnPlannerCommand, Refuse, Statuses
  <2> QED BY <2>1, <2>2
<1>2. ASSUME NEW r \in Requests, BeginAttempt(r) PROVE PlaceInv'
  <2>0. job[r].pc = "attempt" /\ ackMode' = ackMode /\ life' = life
        /\ job[r].ackDue = Off /\ job[r].timeoutDue = Off
    BY <1>0, <1>2 DEF BeginAttempt, World, At
  <2>1. CASE Finish(r, "rejected")
    BY <2>0, <2>1, EndsInPlace DEF Statuses
  <2>2. CASE ~Finish(r, "rejected")
    <3>1. /\ job'[r] = [job[r] EXCEPT !.pc = "delay", !.wake = After(SendDelay)]
          /\ log' = log /\ exec' = exec
          /\ \A q \in Requests \ {r} : job'[q] = job[q]
      BY <1>2, <2>2 DEF BeginAttempt, TypeOK
    <3>2. At(r)'
      BY <1>0, <2>0, <3>1 DEF At, Admitted, Jobs, Working
    <3> QED BY <1>own, <2>0, <3>1, <3>2
  <2> QED BY <2>1, <2>2
<1>3. ASSUME NEW r \in Requests, ClearToSend(r) PROVE PlaceInv'
  <2>0. job[r].pc = "delay" /\ ackMode' = ackMode /\ life' = life
        /\ job[r].ackDue = Off /\ job[r].timeoutDue = Off
    BY <1>0, <1>3 DEF ClearToSend, World, At
  <2>1. CASE Finish(r, "rejected") \/ Stop(r)
    BY <2>0, <2>1, EndsInPlace DEF Statuses
  <2>2. CASE ~(Finish(r, "rejected") \/ Stop(r))
    <3>1. /\ job'[r] = [job[r] EXCEPT !.pc = "open"]
          /\ log'[r] = [log[r] EXCEPT !.clearedAt = now] /\ exec' = exec
          /\ \A q \in Requests \ {r} : job'[q] = job[q] /\ log'[q] = log[q]
      BY <1>3, <2>2 DEF ClearToSend, Goto, TypeOK
    <3>2. At(r)'
      BY <1>0, <2>0, <3>1 DEF At, Admitted, Jobs, Logs, Working
    <3> QED BY <1>own, <2>0, <3>1, <3>2
  <2> QED BY <2>1, <2>2
<1>4. ASSUME NEW r \in Requests, OpenAckSocket(r) PROVE PlaceInv'
  <2>1. PICK s \in {"closed", "open"} :
          /\ s = "open" => ackMode = "socketcan"
          /\ s = "closed" => ackMode # "socketcan" \/ SocketFaults
          /\ job' = [job EXCEPT ![r].pc = "send", ![r].socket = s]
    BY <1>4 DEF OpenAckSocket
  <2>2. /\ job[r].pc = "open" /\ ackMode' = ackMode /\ life' = life
        /\ log' = log /\ exec' = exec
        /\ job'[r] = [job[r] EXCEPT !.pc = "send", !.socket = s]
        /\ \A q \in Requests \ {r} : job'[q] = job[q]
    BY <1>4, <2>1 DEF OpenAckSocket, World, TypeOK
  <2>3. /\ job'[r].pc = "send" /\ job'[r].socket = s /\ job'[r].retry = job[r].retry
        /\ job'[r].ackDue = job[r].ackDue /\ job'[r].timeoutDue = job[r].timeoutDue
    BY <1>0, <2>2 DEF Jobs
  <2>4. At(r)'
    BY <1>0, <2>1, <2>2, <2>3 DEF At, Admitted, Working
  <2> QED BY <1>own, <2>2, <2>4
<1>5. ASSUME NEW r \in Requests, SendFrame(r) PROVE PlaceInv'
  <2>0. job[r].pc = "send" /\ ackMode' = ackMode /\ life' = life
        /\ job[r].ackDue = Off /\ job[r].timeoutDue = Off
    BY <1>0, <1>5 DEF SendFrame, World, At
  <2>1. CASE Finish(r, "send_failed")
    BY <2>0, <2>1, EndsInPlace DEF Statuses
  <2>2. CASE ~Finish(r, "send_failed")
    <3>1. /\ job'[r] = [job[r] EXCEPT !.pc = "sent"]
          /\ log'[r] = [log[r] EXCEPT !.sends = @ + 1] /\ exec' = exec
          /\ \A q \in Requests \ {r} : job'[q] = job[q] /\ log'[q] = log[q]
      BY <1>5, <2>2 DEF SendFrame, Goto, TypeOK
    <3>2. At(r)'
      BY <1>0, <2>0, <3>1, ParametersAssumption, SMTT(20) DEF At, Admitted, Jobs, Logs, Working
    <3> QED BY <1>own, <2>0, <3>1, <3>2
  <2> QED BY <2>1, <2>2
<1>6. ASSUME NEW r \in Requests, StartAckWait(r) PROVE PlaceInv'
  <2>0. /\ job[r].pc = "sent" /\ ackMode' = ackMode /\ life' = life
        /\ job[r].ackDue = Off /\ job[r].timeoutDue = Off
    BY <1>0, <1>6 DEF StartAckWait, World, At
  <2>1. CASE Stop(r)
    BY <2>0, <2>1, EndsInPlace
  <2>2. CASE ackMode = "socketcan" /\ ~Stop(r)
    <3>1. /\ job'[r] = IF life \in {"closed", "destroyed"}
                       THEN [job[r] EXCEPT !.pc = "ended"]
                       ELSE [job[r] EXCEPT !.pc = "wait", !.wake = After(AckTimeout)]
          /\ log' = log /\ exec' = Release(r)
          /\ \A q \in Requests \ {r} : job'[q] = job[q]
      BY <1>6, <2>2 DEF StartAckWait, Goto, TypeOK
    <3>2. At(r)'
      BY <1>0, <2>0, <2>2, <3>1 DEF At, Admitted, Jobs, Working
    <3> QED BY <1>own, <2>0, <3>1, <3>2 DEF Release
  <2>3. CASE ackMode = "mock" /\ ~Stop(r)
    <3>1. /\ job'[r] = [job[r] EXCEPT !.pc = "wait", !.ackDue = MockAckDue(r),
                                      !.timeoutDue = TimeoutDue(r)]
          /\ log' = log /\ exec' = Release(r)
          /\ \A q \in Requests \ {r} : job'[q] = job[q]
      BY <1>6, <2>3 DEF StartAckWait, TypeOK
    <3>2. /\ MockAckDue(r) = Off \/ TimeoutDue(r) = Off
          /\ Ok => MockAckDue(r) # Off \/ TimeoutDue(r) # Off
      <4>1. After(EffectiveMockAckDelay) # Off /\ After(AckTimeout) # Off
        BY AfterInTime, MockDelayInNat, ParametersAssumption DEF TypeOK, Time, Off
      <4> QED BY <4>1 DEF MockAckDue, TimeoutDue
    <3>3. At(r)'
      BY <1>0, <2>0, <2>3, <3>1, <3>2 DEF At, Admitted, Jobs, Working, Ok
    <3> QED BY <1>own, <2>0, <3>1, <3>3 DEF Release
  <2> QED BY <1>6, <2>1, <2>2, <2>3 DEF StartAckWait
<1>7. ASSUME NEW r \in Requests, MockAckFires(r) PROVE PlaceInv'
  <2>0. /\ job[r].pc = "wait" /\ ackMode = "mock" /\ ackMode' = ackMode /\ life' = life
        /\ job[r].timeoutDue = Off /\ log[r].terminals = << >>
        /\ exec = NoRequest /\ exec' = exec
    BY <1>0, <1>7 DEF MockAckFires, Due, World, At
  <2>1. CASE Ok
    <3>1. /\ job'[r] = [job[r] EXCEPT !.pc = "ended", !.ackDue = Off]
          /\ log'[r] = [log[r] EXCEPT !.terminals = Append(@, "ack_received")]
          /\ \A q \in Requests \ {r} : job'[q] = job[q] /\ log'[q] = log[q]
      BY <1>7, <2>1 DEF MockAckFires, Publish, TypeOK
    <3>2. /\ Len(log'[r].terminals) <= 1 /\ log'[r].sends = log[r].sends
          /\ log'[r].admittedAt = log[r].admittedAt
      BY <1>0, <2>0, <3>1 DEF Logs
    <3>3. At(r)'
      BY <1>0, <2>0, <3>1, <3>2 DEF At, Admitted, Jobs, Working
    <3> QED BY <1>own, <2>0, <3>1, <3>3
  <2>2. CASE ~Ok
    <3>1. /\ job'[r] = [job[r] EXCEPT !.ackDue = Off] /\ log' = log
          /\ \A q \in Requests \ {r} : job'[q] = job[q]
      BY <1>7, <2>2 DEF MockAckFires, TypeOK
    <3>2. At(r)'
      BY <1>0, <2>0, <2>2, <3>1 DEF At, Admitted, Jobs, Working, Ok
    <3> QED BY <1>own, <2>0, <3>1, <3>2
  <2> QED BY <2>1, <2>2
<1>8. ASSUME NEW r \in Requests, TimeoutFires(r) PROVE PlaceInv'
  <2>0. /\ job[r].pc = "wait" /\ ackMode = "mock" /\ ackMode' = ackMode /\ life' = life
        /\ job[r].ackDue = Off /\ log' = log /\ exec = NoRequest /\ ~ShuttingDown
    BY <1>0, <1>8 DEF TimeoutFires, Due, World, At
  <2>1. CASE Ok
    <3>1. /\ job'[r] = [job[r] EXCEPT !.pc = "timedout", !.timeoutDue = Off] /\ exec' = r
          /\ \A q \in Requests \ {r} : job'[q] = job[q]
      BY <1>8, <2>1 DEF TimeoutFires, TypeOK
    <3>2. At(r)'
      BY <1>0, <2>0, <2>1, <3>1 DEF At, Admitted, Jobs, Working, Ok
    <3> QED BY <1>own, <2>0, <3>1, <3>2
  <2>2. CASE ~Ok
    <3>1. /\ job'[r] = [job[r] EXCEPT !.timeoutDue = Off] /\ exec' = exec
          /\ \A q \in Requests \ {r} : job'[q] = job[q]
      BY <1>8, <2>2 DEF TimeoutFires, TypeOK
    <3>2. At(r)'
      BY <1>0, <2>0, <2>2, <3>1 DEF At, Admitted, Jobs, Working, Ok
    <3> QED BY <1>own, <2>0, <3>1, <3>2
  <2> QED BY <2>1, <2>2
<1>9. ASSUME NEW r \in Requests, WorkerAcked(r) PROVE PlaceInv'
  <2>0. job[r].pc = "wait" /\ ackMode' = ackMode /\ life' = life
        /\ job[r].ackDue = Off /\ job[r].timeoutDue = Off
    BY <1>0, <1>9 DEF WorkerAcked, World, At
  <2> QED BY <1>9, <2>0, EndsInPlace DEF WorkerAcked, Statuses
<1>10. ASSUME NEW r \in Requests, WorkerGivesUp(r) PROVE PlaceInv'
  <2>0. /\ ackMode = "socketcan" /\ job[r].pc = "wait" /\ ackMode' = ackMode /\ life' = life
        /\ job[r].ackDue = Off /\ job[r].timeoutDue = Off
    BY <1>0, <1>10 DEF WorkerGivesUp, World, At
  <2>1. CASE Stop(r)
    BY <2>0, <2>1, EndsInPlace
  <2>2. CASE ~Stop(r)
    <3>1. /\ job'[r] = [job[r] EXCEPT !.pc = "timedout", !.socket = "closed"]
          /\ log' = log /\ exec' = exec /\ ~ShuttingDown
          /\ \A q \in Requests \ {r} : job'[q] = job[q]
      BY <1>10, <2>2 DEF WorkerGivesUp, TypeOK
    <3>2. At(r)'
      BY <1>0, <2>0, <3>1 DEF At, Admitted, Jobs, Working, ShuttingDown
    <3> QED BY <1>own, <2>0, <3>1, <3>2
  <2> QED BY <2>1, <2>2
<1>11. ASSUME NEW r \in Requests, OnAckTimeout(r) PROVE PlaceInv'
  <2>0. job[r].pc = "timedout" /\ ackMode' = ackMode /\ life' = life
        /\ job[r].ackDue = Off /\ job[r].timeoutDue = Off
    BY <1>0, <1>11 DEF OnAckTimeout, World, At
  <2>1. CASE Finish(r, "retry_exhausted")
    BY <2>0, <2>1, EndsInPlace DEF Statuses
  <2>2. CASE ~Finish(r, "retry_exhausted")
    <3>1. /\ job'[r] = [job[r] EXCEPT !.pc = "backoff", !.retry = @ + 1, !.wake = After(Backoff)]
          /\ log' = log /\ exec' = exec
          /\ \A q \in Requests \ {r} : job'[q] = job[q]
      BY <1>11, <2>2 DEF OnAckTimeout, TypeOK
    <3>2. At(r)'
      BY <1>0, <2>0, <3>1 DEF At, Admitted, Jobs, Working
    <3> QED BY <1>own, <2>0, <3>1, <3>2
  <2> QED BY <2>1, <2>2
<1>12. ASSUME NEW r \in Requests, EndBackoff(r) PROVE PlaceInv'
  <2>1. /\ job[r].pc = "backoff" /\ ackMode' = ackMode /\ life' = life
        /\ job'[r] = [job[r] EXCEPT !.pc = "attempt"] /\ log' = log /\ exec' = exec
        /\ \A q \in Requests \ {r} : job'[q] = job[q]
    BY <1>12 DEF EndBackoff, Goto, World, TypeOK
  <2>2. At(r)'
    BY <1>0, <2>1 DEF At, Admitted, Jobs, Working
  <2> QED BY <1>own, <2>1, <2>2
<1>13. CASE PeerAck
  <2>1. /\ ackMode' = ackMode /\ life' = life /\ log' = log /\ exec' = exec
        /\ \A r \in Requests :
             \/ job'[r] = job[r]
             \/ job'[r] = [job[r] EXCEPT !.socket = "readable"] /\ job[r].socket = "open"
    BY <1>13 DEF PeerAck, World
  <2>2. ASSUME NEW r \in Requests PROVE At(r)'
    <3>1. /\ job'[r].pc = job[r].pc /\ job'[r].retry = job[r].retry
          /\ job'[r].ackDue = job[r].ackDue /\ job'[r].timeoutDue = job[r].timeoutDue
          /\ (job'[r].socket # "closed") <=> (job[r].socket # "closed")
      <4>1. CASE job'[r] = job[r]
        BY <4>1
      <4>2. CASE /\ job'[r] = [job[r] EXCEPT !.socket = "readable"]
                 /\ job[r].socket = "open"
        BY <1>0, <4>2 DEF Jobs
      <4> QED BY <2>1, <4>1, <4>2
    <3> QED BY <1>0, <2>1, <3>1 DEF At, Admitted, Ok
  <2> QED BY <2>1, <2>2 DEF PlaceInv, ShuttingDown
<1>14. CASE Lifecycle
  <2>0. ackMode' = ackMode /\ exec' = exec /\ job' = job /\ log' = log
    BY <1>14 DEF Lifecycle
  <2>1. CASE life' # "destroyed"
    <3>1. ASSUME NEW r \in Requests PROVE At(r)'
      BY <1>0, <1>14, <2>0, <2>1
      DEF Lifecycle, Signal, StartDestructor, CloseThreads, JoinThreads, At, Admitted, Ok
    <3>2. (ShuttingDown => exec = NoRequest)'
      BY <1>14, <2>0, <2>1
      DEF Lifecycle, Signal, StartDestructor, CloseThreads, JoinThreads, PlaceInv, ShuttingDown
    <3> QED BY <3>1, <3>2 DEF PlaceInv
  <2>2. CASE JoinThreads
    <3>1. exec = NoRequest /\ exec' = NoRequest
      BY <2>0, <2>2 DEF JoinThreads, PlaceInv, ShuttingDown
    <3>2. ASSUME NEW r \in Requests PROVE At(r)'
      BY <1>0, <2>0, <2>2, <3>1 DEF JoinThreads, WorkersJoined, At, Admitted, Ok, Working
    <3> QED BY <3>1, <3>2 DEF PlaceInv
  <2> QED BY <1>14, <2>1, <2>2 DEF Lifecycle, Signal, StartDestructor, CloseThreads
<1>15. CASE Tick \/ UNCHANGED vars
  <2>1. UNCHANGED <<ackMode, life, exec, job, log>>
    BY <1>15 DEF Tick, vars
  <2>2. ASSUME NEW r \in Requests PROVE At(r)'
    BY <1>0, <2>1 DEF At, Admitted, Ok
  <2> QED BY <2>1, <2>2 DEF PlaceInv, ShuttingDown
<1> QED
  BY <1>1, <1>2, <1>3, <1>4, <1>5, <1>6, <1>7, <1>8, <1>9, <1>10, <1>11, <1>12,
     <1>13, <1>14, <1>15 DEF Next, Callback, Thread, Terminated

LEMMA PlaceInvariant == Spec => [](TypeOK /\ PlaceInv)
  BY InitType, InitPlace, StepType, StepPlace, PTL DEF Spec

\* However timers, workers, retries and the destructor interleave, a request
\* ends by one terminal event at most, with no timer of it left.
THEOREM OneEnd == Spec => []OneTerminal
<1>1. TypeOK /\ PlaceInv => OneTerminal
  BY DEF PlaceInv, At, Place, OneTerminal
<1> QED BY <1>1, PlaceInvariant, PTL

\* The two timers of a waiting mock attempt, armed by separate questions to
\* PlanAckTerminal, are never both armed and, while the node is up, never both
\* off.
THEOREM TimersExclusive == Spec => []ExactlyOneTimer
<1>1. TypeOK /\ PlaceInv => ExactlyOneTimer
  BY DEF PlaceInv, At, Place, ExactlyOneTimer
<1> QED BY <1>1, PlaceInvariant, PTL

\* Updates of the other fields leave the count of sends alone.
LEMMA SendFields ==
  ASSUME TypeOK, NEW r \in Requests, NEW q \in Requests, NEW x
  PROVE  /\ [log EXCEPT ![r].terminals = Append(@, x)][q].sends = log[q].sends
         /\ [log EXCEPT ![r].admittedAt = x][q].sends = log[q].sends
         /\ [log EXCEPT ![r].clearedAt = x][q].sends = log[q].sends
<1>1. log \in [Requests -> Logs]
  BY DEF TypeOK
<1>2. [log EXCEPT ![r].terminals = Append(@, x)][q].sends = log[q].sends
  BY <1>1 DEF Logs
<1>3. [log EXCEPT ![r].admittedAt = x][q].sends = log[q].sends
  BY <1>1 DEF Logs
<1>4. [log EXCEPT ![r].clearedAt = x][q].sends = log[q].sends
  BY <1>1 DEF Logs
<1> QED BY <1>2, <1>3, <1>4

\* Only SendFrame counts a send, and of the request it works on.
LEMMA SendsBySendFrame ==
  ASSUME TypeOK, [Next]_vars, NEW r \in Requests, log'[r].sends # log[r].sends
  PROVE  SendFrame(r)
<1>1. ASSUME NEW q \in Requests, NEW x,
             \/ log' = log
             \/ log' = [log EXCEPT ![q].terminals = Append(@, x)]
             \/ log' = [log EXCEPT ![q].admittedAt = x]
             \/ log' = [log EXCEPT ![q].clearedAt = x]
      PROVE  FALSE
  <2>1. /\ [log EXCEPT ![q].terminals = Append(@, x)][r].sends = log[r].sends
        /\ [log EXCEPT ![q].admittedAt = x][r].sends = log[r].sends
        /\ [log EXCEPT ![q].clearedAt = x][r].sends = log[r].sends
    BY SendFields
  <2> QED BY <1>1, <2>1
<1>2. ASSUME NEW q \in Requests, Callback(q) PROVE FALSE
  <2>1. \/ log' = log
        \/ \E s : log' = [log EXCEPT ![q].terminals = Append(@, s)]
        \/ log' = [log EXCEPT ![q].admittedAt = now]
    <3>1. CASE OnPlannerCommand(q)
      BY <3>1 DEF OnPlannerCommand, Admit, Refuse, Finish, Stop, Publish
    <3>2. CASE MockAckFires(q) \/ TimeoutFires(q)
      BY <3>2 DEF MockAckFires, TimeoutFires, Publish
    <3> QED BY <1>2, <3>1, <3>2 DEF Callback
  <2> QED BY <1>1, <2>1
<1>3. ASSUME NEW q \in Requests, Thread(q), ~SendFrame(q) PROVE FALSE
  <2>1. \/ log' = log
        \/ \E s : log' = [log EXCEPT ![q].terminals = Append(@, s)]
        \/ log' = [log EXCEPT ![q].clearedAt = now]
    BY <1>3
    DEF Thread, BeginAttempt, ClearToSend, OpenAckSocket, StartAckWait, WorkerAcked,
        WorkerGivesUp, OnAckTimeout, EndBackoff, Finish, Stop, Publish
  <2> QED BY <1>1, <2>1
<1>4. ASSUME NEW q \in Requests, SendFrame(q), q # r PROVE FALSE
  <2>1. \/ \E s : log' = [log EXCEPT ![q].terminals = Append(@, s)]
        \/ log' = [log EXCEPT ![q].sends = @ + 1]
    BY <1>4 DEF SendFrame, Finish, Publish
  <2>2. log' # [log EXCEPT ![q].sends = @ + 1]
    BY <1>4 DEF TypeOK
  <2> QED BY <1>1, <2>1, <2>2
<1>5. ~PeerAck /\ ~Lifecycle /\ ~Tick /\ ~UNCHANGED vars
  BY DEF PeerAck, Lifecycle, Tick, World, vars
<1> QED BY <1>2, <1>3, <1>4, <1>5 DEF Next, Terminated

\* Neither a request that has ended nor a destroyed bridge sends a frame.
THEOREM QuietAtTheEnd == Spec => QuietAfterEnd
<1>1. /\ TypeOK /\ PlaceInv /\ [Next]_vars
      => [\A r \in Requests :
            log[r].terminals # << >> \/ life = "destroyed" => log'[r].sends = log[r].sends]_vars
  <2> SUFFICES ASSUME TypeOK, PlaceInv, [Next]_vars, NEW r \in Requests,
                      log[r].terminals # << >> \/ life = "destroyed",
                      log'[r].sends # log[r].sends
               PROVE  FALSE
    OBVIOUS
  <2>1. job[r].pc = "send"
    BY SendsBySendFrame DEF SendFrame
  <2> QED BY <2>1 DEF PlaceInv, At, Place, Owner, Working
<1> QED BY <1>1, PlaceInvariant, PTL DEF Spec, QuietAfterEnd
-----------------------------------------------------------------------------
(* ACKs.  What is on the bus or answered was sent; the answer to the attempt *)
(* a request waits for is in its receiver; a full receiver, and an           *)
(* acknowledged request, had an answer to a frame of the same content.       *)

Answered(r) == \E f \in answered : Frame[f.req] = Frame[r]

AckAt(r) ==
  /\ job[r].pc \in {"sent", "wait"} /\ job[r].socket # "closed"
     /\ [req |-> r, attempt |-> job[r].retry] \in answered
     => job[r].socket = "readable"
  /\ job[r].socket = "readable" => Answered(r)
  /\ ackMode = "socketcan" /\ log[r].terminals = <<"ack_received">> => Answered(r)

AckInv == /\ \A f \in wire \cup answered : f.attempt < log[f.req].sends
          /\ \A r \in Requests : AckAt(r)

LEMMA InitAck == Init => AckInv
<1> SUFFICES ASSUME Init PROVE AckInv
  OBVIOUS
<1>1. ASSUME NEW r \in Requests PROVE AckAt(r)
  <2>1. job[r].pc = "new" /\ job[r].socket = "closed" /\ log[r].terminals = << >>
    BY DEF Init
  <2> QED BY <2>1 DEF AckAt
<1> QED BY <1>1 DEF Init, AckInv

\* Sends are only ever counted up.
LEMMA SendsGrow ==
  ASSUME TypeOK, [Next]_vars, NEW r \in Requests
  PROVE  log[r].sends \in Nat /\ log'[r].sends \in Nat /\ log[r].sends <= log'[r].sends
<1>1. log[r].sends \in Nat /\ log[r] \in Logs
  BY Update DEF Logs
<1>2. CASE SendFrame(r) /\ log' = [log EXCEPT ![r].sends = @ + 1]
  BY <1>1, <1>2 DEF TypeOK, Logs
<1>3. CASE Finish(r, "send_failed")
  <2>1. log' = [log EXCEPT ![r].terminals = Append(@, "send_failed")]
    BY <1>3 DEF Finish, Publish
  <2> QED BY <1>1, <2>1, SendFields
<1> QED BY <1>1, <1>2, <1>3, SendsBySendFrame DEF SendFrame

\* What Finish makes of the terminals of the request, and what is left alone.
LEMMA FinishAck ==
  ASSUME TypeOK, PlaceInv, AckInv, NEW r \in Requests,
         Stop(r) \/ \E s \in Statuses : /\ Finish(r, s)
                                        /\ s = "ack_received" => Answered(r),
         job[r].pc # "ended", ackMode' = ackMode, answered' = answered
  PROVE  \A q \in Requests : AckAt(q)'
<1>1. /\ job'[r] = [job[r] EXCEPT !.pc = "ended", !.socket = "closed"]
      /\ \A q \in Requests \ {r} : job'[q] = job[q] /\ log'[q] = log[q]
      /\ \/ log'[r] = log[r]
         \/ \E s \in Statuses : /\ log'[r] = [log[r] EXCEPT !.terminals = Append(@, s)]
                                /\ s = "ack_received" => Answered(r)
  BY FinishFields, StopFields
<1>2. /\ job[r] \in Jobs /\ log[r] \in Logs /\ log[r].terminals = << >> /\ AckAt(r)
  BY Update DEF PlaceInv, At, Place, AckInv
<1>3. job'[r].pc = "ended" /\ job'[r].socket = "closed"
  BY <1>1, <1>2 DEF Jobs
<1>4. log'[r].terminals = <<"ack_received">> => Answered(r)
  <2>1. CASE log'[r] = log[r]
    <3>1. log'[r].terminals = << >>
      BY <1>2, <2>1
    <3>2. Len(<< >>) = 0 /\ Len(<<"ack_received">>) = 1
      OBVIOUS
    <3> QED BY <3>1, <3>2
  <2>2. ASSUME NEW s \in Statuses, log'[r] = [log[r] EXCEPT !.terminals = Append(@, s)],
               s = "ack_received" => Answered(r), log'[r].terminals = <<"ack_received">>
        PROVE  Answered(r)
    <3>1. log'[r].terminals = Append(<< >>, s)
      BY <1>2, <2>2 DEF Logs
    <3>2. s = "ack_received"
      BY <2>2, <3>1
    <3> QED BY <2>2, <3>2
  <2> QED BY <1>1, <2>1, <2>2
<1>5. AckAt(r)'
  BY <1>3, <1>4 DEF AckAt, Answered
<1>6. ASSUME NEW q \in Requests \ {r} PROVE AckAt(q)'
  BY <1>1 DEF AckInv, AckAt, Answered
<1> QED BY <1>5, <1>6

LEMMA StepAck == TypeOK /\ PlaceInv /\ AckInv /\ [Next]_vars => AckInv'
<1> SUFFICES ASSUME TypeOK, PlaceInv, AckInv, [Next]_vars PROVE AckInv'
  OBVIOUS
<1>0. ASSUME NEW r \in Requests
      PROVE  /\ job[r] \in Jobs /\ log[r] \in Logs /\ At(r) /\ AckAt(r)
  BY Update DEF PlaceInv, AckInv
<1>a. \A f \in wire \cup answered : f \in Attempts /\ f.req \in Requests /\ f.attempt \in Nat
  BY DEF TypeOK, Attempts
\* A frame that was there before the step was sent before it.
<1>b. \A f \in wire \cup answered : f.attempt < log'[f.req].sends
  BY <1>a, SendsGrow DEF AckInv
\* It is enough that the request a step works on keeps its ACKs.
<1>own. ASSUME NEW r \in Requests, AckAt(r)', ackMode' = ackMode, answered' = answered,
               wire' = wire, \A q \in Requests \ {r} : job'[q] = job[q] /\ log'[q] = log[q]
        PROVE  AckInv'
  BY <1>own, <1>b DEF AckInv, AckAt, Answered
<1>end. ASSUME NEW r \in Requests,
               Stop(r) \/ \E s \in Statuses : /\ Finish(r, s)
                                              /\ s = "ack_received" => Answered(r),
               job[r].pc # "ended", ackMode' = ackMode, UNCHANGED Bus
        PROVE  AckInv'
  BY <1>b, <1>end, FinishAck DEF AckInv, Bus
<1>1. ASSUME NEW r \in Requests, OnPlannerCommand(r) PROVE AckInv'
  <2>1. CASE Admit(r)
    <3>1. /\ job'[r] = [job[r] EXCEPT !.pc = "attempt"]
          /\ log'[r] = [log[r] EXCEPT !.admittedAt = now]
          /\ \A q \in Requests \ {r} : job'[q] = job[q] /\ log'[q] = log[q]
          /\ ackMode' = ackMode /\ answered' = answered /\ wire' = wire
      BY <1>1, <2>1 DEF OnPlannerCommand, Admit, Goto, TypeOK, Bus
    <3>2. /\ job'[r].pc = "attempt" /\ job'[r].socket = job[r].socket
          /\ log'[r].terminals = log[r].terminals
      BY <1>0, <3>1 DEF Jobs, Logs
    <3>3. AckAt(r)'
      BY <1>0, <3>1, <3>2 DEF AckAt, Answered
    <3> QED BY <1>own, <3>1, <3>3
  <2>2. CASE ~Admit(r)
    BY <1>1, <1>end, <2>2 DEF OnPlannerCommand, Refuse, Statuses
  <2> QED BY <2>1, <2>2
<1>2. ASSUME NEW r \in Requests,
             BeginAttempt(r) \/ OnAckTimeout(r) \/ WorkerGivesUp(r)
      PROVE  AckInv'
  <2>1. CASE Stop(r) \/ Finish(r, "rejected") \/ Finish(r, "retry_exhausted")
    BY <1>2, <1>end, <2>1 DEF BeginAttempt, OnAckTimeout, WorkerGivesUp, World, Statuses
  <2>2. CASE ~(Stop(r) \/ Finish(r, "rejected") \/ Finish(r, "retry_exhausted"))
    <3>1. /\ ackMode' = ackMode /\ answered' = answered /\ wire' = wire /\ log' = log
          /\ \A q \in Requests \ {r} : job'[q] = job[q]
          /\ \/ job'[r] = [job[r] EXCEPT !.pc = "delay", !.wake = After(SendDelay)]
             \/ job'[r] = [job[r] EXCEPT !.pc = "backoff", !.retry = @ + 1,
                                         !.wake = After(Backoff)]
             \/ job'[r] = [job[r] EXCEPT !.pc = "timedout", !.socket = "closed"]
      BY <1>2, <2>2 DEF BeginAttempt, OnAckTimeout, WorkerGivesUp, World, Bus, TypeOK
    <3>2. /\ job'[r].pc \notin {"sent", "wait"}
          /\ job'[r].socket = "readable" => job[r].socket = "readable"
      BY <1>0, <3>1 DEF Jobs
    <3>3. AckAt(r)'
      BY <1>0, <3>1, <3>2 DEF AckAt, Answered
    <3> QED BY <1>own, <3>1, <3>3
  <2> QED BY <2>1, <2>2
<1>3. ASSUME NEW r \in Requests, ClearToSend(r) PROVE AckInv'
  <2>1. CASE Stop(r) \/ Finish(r, "rejected")
    BY <1>3, <1>end, <2>1 DEF ClearToSend, World, Statuses
  <2>2. CASE ~(Stop(r) \/ Finish(r, "rejected"))
    <3>1. /\ job'[r] = [job[r] EXCEPT !.pc = "open"]
          /\ log'[r] = [log[r] EXCEPT !.clearedAt = now]
          /\ \A q \in Requests \ {r} : job'[q] = job[q] /\ log'[q] = log[q]
          /\ ackMode' = ackMode /\ answered' = answered /\ wire' = wire
      BY <1>3, <2>2 DEF ClearToSend, Goto, World, Bus, TypeOK
    <3>2. /\ job'[r].pc = "open" /\ job'[r].socket = job[r].socket
          /\ log'[r].terminals = log[r].terminals
      BY <1>0, <3>1 DEF Jobs, Logs
    <3>3. AckAt(r)'
      BY <1>0, <3>1, <3>2 DEF AckAt, Answered
    <3> QED BY <1>own, <3>1, <3>3
  <2> QED BY <2>1, <2>2
<1>4. ASSUME NEW r \in Requests, OpenAckSocket(r) PROVE AckInv'
  <2>1. PICK s \in {"closed", "open"} : job' = [job EXCEPT ![r].pc = "send", ![r].socket = s]
    BY <1>4 DEF OpenAckSocket
  <2>2. /\ ackMode' = ackMode /\ answered' = answered /\ wire' = wire /\ log' = log
        /\ \A q \in Requests \ {r} : job'[q] = job[q]
        /\ job'[r] = [job[r] EXCEPT !.pc = "send", !.socket = s]
    BY <1>4, <2>1 DEF OpenAckSocket, World, Bus, TypeOK
  <2>3. job'[r].pc = "send" /\ job'[r].socket = s
    BY <1>0, <2>2 DEF Jobs
  <2>4. AckAt(r)'
    BY <1>0, <2>2, <2>3 DEF AckAt, Answered
  <2> QED BY <1>own, <2>2, <2>4
<1>5. ASSUME NEW r \in Requests, SendFrame(r) PROVE AckInv'
  <2>1. CASE Finish(r, "send_failed")
    <3>1. UNCHANGED Bus
      \* The other branch of SendFrame goes to "sent".
      <4>1. job' # Goto(r, "sent")
        BY <1>0, <2>1 DEF Finish, Goto, TypeOK, Jobs
      <4> QED BY <1>5, <4>1 DEF SendFrame
    <3> QED BY <1>5, <1>end, <2>1, <3>1 DEF SendFrame, World, Statuses
  <2>2. CASE ~Finish(r, "send_failed")
    <3> DEFINE f == [req |-> r, attempt |-> job[r].retry]
    <3>1. /\ job[r].pc = "send" /\ job'[r] = [job[r] EXCEPT !.pc = "sent"]
          /\ log'[r] = [log[r] EXCEPT !.sends = @ + 1]
          /\ \A q \in Requests \ {r} : job'[q] = job[q] /\ log'[q] = log[q]
          /\ ackMode' = ackMode /\ answered' = answered /\ wire' \subseteq wire \cup {f}
      BY <1>5, <2>2 DEF SendFrame, Goto, World, TypeOK
    <3>2. /\ job'[r].pc = "sent" /\ job'[r].socket = job[r].socket
          /\ job'[r].retry = job[r].retry
          /\ log'[r].terminals = log[r].terminals /\ log'[r].sends = log[r].sends + 1
          /\ log[r].sends = job[r].retry /\ job[r].retry \in Nat
      BY <1>0, <3>1 DEF Jobs, Logs, At, Count
    \* The attempt just sent cannot have been answered already.
    <3>3. f \notin answered
      <4>1. f \in answered => f.attempt < log[f.req].sends
        BY DEF AckInv
      <4> QED BY <3>2, <4>1
    <3>4. AckAt(r)'
      BY <1>0, <3>1, <3>2, <3>3 DEF AckAt, Answered
    <3>5. ASSUME NEW g \in wire' \cup answered' PROVE g.attempt < log'[g.req].sends
      <4>1. CASE g = f
        <5>1. g.req = r /\ g.attempt = job[r].retry
          BY <4>1
        <5> QED BY <3>2, <5>1
      <4>2. CASE g # f
        BY <1>b, <3>1, <4>2
      <4> QED BY <4>1, <4>2
    <3>6. ASSUME NEW q \in Requests PROVE AckAt(q)'
      <4>1. CASE q = r
        BY <3>4, <4>1
      <4>2. CASE q # r
        <5>1. AckAt(q) /\ job'[q] = job[q] /\ log'[q] = log[q]
          BY <3>1, <4>2 DEF AckInv
        <5>2. ackMode' = ackMode /\ answered' = answered
          BY <3>1
        <5> QED BY <5>1, <5>2 DEF AckAt, Answered
      <4> QED BY <4>1, <4>2
    <3> QED BY <3>5, <3>6 DEF AckInv
  <2> QED BY <2>1, <2>2
<1>6. ASSUME NEW r \in Requests, StartAckWait(r) PROVE AckInv'
  <2>1. CASE Stop(r)
    BY <1>6, <1>end, <2>1 DEF StartAckWait, World
  <2>2. CASE ~Stop(r)
    <3>1. /\ job[r].pc = "sent"
          /\ ackMode' = ackMode /\ answered' = answered /\ wire' = wire /\ log' = log
          /\ \A q \in Requests \ {r} : job'[q] = job[q]
          /\ \/ job'[r] = [job[r] EXCEPT !.pc = "ended"]
             \/ job'[r] = [job[r] EXCEPT !.pc = "wait", !.wake = After(AckTimeout)]
             \/ job'[r] = [job[r] EXCEPT !.pc = "wait", !.ackDue = MockAckDue(r),
                                         !.timeoutDue = TimeoutDue(r)]
      BY <1>6, <2>2 DEF StartAckWait, Goto, World, Bus, TypeOK
    <3>2. job'[r].socket = job[r].socket /\ job'[r].retry = job[r].retry
      BY <1>0, <3>1 DEF Jobs
    <3>3. AckAt(r)'
      BY <1>0, <3>1, <3>2 DEF AckAt, Answered
    <3> QED BY <1>own, <3>1, <3>3
  <2> QED BY <2>1, <2>2
<1>7. ASSUME NEW r \in Requests, MockAckFires(r) PROVE AckInv'
  <2>1. /\ ackMode = "mock" /\ ackMode' = ackMode /\ answered' = answered /\ wire' = wire
        /\ job[r].socket = "closed"
    BY <1>0, <1>7 DEF MockAckFires, Due, World, Bus, At, Place, Socket
  <2>2. /\ \A q \in Requests \ {r} : job'[q] = job[q] /\ log'[q] = log[q]
        /\ \/ job'[r] = [job[r] EXCEPT !.pc = "ended", !.ackDue = Off]
           \/ job'[r] = [job[r] EXCEPT !.ackDue = Off]
    BY <1>7 DEF MockAckFires, Publish, TypeOK
  <2>3. job'[r].socket = "closed"
    BY <1>0, <2>1, <2>2 DEF Jobs
  <2>4. AckAt(r)'
    BY <2>1, <2>3 DEF AckAt
  <2> QED BY <1>own, <2>1, <2>2, <2>4
<1>8. ASSUME NEW r \in Requests, TimeoutFires(r) PROVE AckInv'
  <2>1. /\ ackMode = "mock" /\ ackMode' = ackMode /\ answered' = answered /\ wire' = wire
        /\ job[r].socket = "closed" /\ log' = log
    BY <1>0, <1>8 DEF TimeoutFires, Due, World, Bus, At, Place, Socket
  <2>2. /\ \A q \in Requests \ {r} : job'[q] = job[q]
        /\ \/ job'[r] = [job[r] EXCEPT !.pc = "timedout", !.timeoutDue = Off]
           \/ job'[r] = [job[r] EXCEPT !.timeoutDue = Off]
    BY <1>8 DEF TimeoutFires, TypeOK
  <2>3. job'[r].socket = "closed"
    BY <1>0, <2>1, <2>2 DEF Jobs
  <2>4. AckAt(r)'
    BY <2>1, <2>3 DEF AckAt
  <2> QED BY <1>own, <2>1, <2>2, <2>4
<1>9. ASSUME NEW r \in Requests, WorkerAcked(r) PROVE AckInv'
  <2>1. Answered(r)
    BY <1>0, <1>9 DEF WorkerAcked, AckAt
  <2> QED BY <1>9, <1>end, <2>1 DEF WorkerAcked, World, Statuses
<1>10. ASSUME NEW r \in Requests, EndBackoff(r) PROVE AckInv'
  <2>1. /\ ackMode' = ackMode /\ answered' = answered /\ wire' = wire /\ log' = log
        /\ \A q \in Requests \ {r} : job'[q] = job[q]
        /\ job'[r] = [job[r] EXCEPT !.pc = "attempt"]
    BY <1>10 DEF EndBackoff, Goto, World, Bus, TypeOK
  <2>2. job'[r].pc = "attempt" /\ job'[r].socket = job[r].socket
    BY <1>0, <2>1 DEF Jobs
  <2>3. AckAt(r)'
    BY <1>0, <2>1, <2>2 DEF AckAt, Answered
  <2> QED BY <1>own, <2>1, <2>3
<1>11. CASE PeerAck
  <2>1. PICK f \in wire :
          /\ wire' = wire \ {f} /\ answered' = answered \cup {f}
          /\ ackMode' = ackMode /\ log' = log
          /\ \A r \in Requests :
               job'[r] = IF job[r].socket = "open" /\ AckMatches(r, f.req)
                         THEN [job[r] EXCEPT !.socket = "readable"] ELSE job[r]
    BY <1>11 DEF PeerAck, World
  <2>2. ASSUME NEW r \in Requests PROVE AckAt(r)'
    <3>1. Answered(r) => Answered(r)'
      BY <2>1 DEF Answered
    <3>2. CASE job[r].socket = "open" /\ AckMatches(r, f.req)
      <4>1. job'[r].socket = "readable"
        BY <1>0, <2>1, <3>2 DEF Jobs
      <4>2. Frame[f.req] = Frame[r]
        BY <1>a, <3>2, RequestsAssumption DEF AckMatches
      <4> QED BY <2>1, <4>1, <4>2 DEF AckAt, Answered
    <3>3. CASE ~(job[r].socket = "open" /\ AckMatches(r, f.req))
      <4>1. job'[r] = job[r]
        BY <2>1, <3>3
      \* An open receiver of r takes every frame of r.
      <4>2. f = [req |-> r, attempt |-> job[r].retry] => job[r].socket # "open"
        BY <3>3 DEF AckMatches
      <4>3. job[r].socket \in {"closed", "open", "readable"}
        BY <1>0 DEF Jobs
      <4> QED BY <1>0, <2>1, <3>1, <4>1, <4>2, <4>3 DEF AckAt
    <3> QED BY <3>2, <3>3
  <2> QED BY <1>b, <2>1, <2>2 DEF AckInv
<1>12. CASE Lifecycle \/ Tick \/ UNCHANGED vars
  BY <1>12 DEF Lifecycle, Tick, vars, Bus, AckInv, AckAt, Answered
<1> QED
  BY <1>1, <1>2, <1>3, <1>4, <1>5, <1>6, <1>7, <1>8, <1>9, <1>10, <1>11, <1>12
  DEF Next, Callback, Thread, Terminated

LEMMA AckInvariant == Spec => [](TypeOK /\ PlaceInv /\ AckInv)
<1> DEFINE I == TypeOK /\ PlaceInv /\ AckInv
<1>1. Init => I
  BY InitType, InitPlace, InitAck
<1>2. I /\ [Next]_vars => I'
  BY StepType, StepPlace, StepAck
<1> QED BY <1>1, <1>2, PTL DEF Spec

\* The peer may answer before the worker waits: because the receiver is bound
\* before the frame is written, the answer is in it.
THEOREM NoAckLost == Spec => []EarlyAckKept
<1>1. AckInv => EarlyAckKept
  BY DEF AckInv, AckAt, EarlyAckKept
<1> QED BY <1>1, AckInvariant, PTL

\* With any number of requests in flight, answers to other frames with the same
\* CAN id, and late answers to earlier attempts, no request is acknowledged
\* unless a frame of its own id and payload was answered.
THEOREM GenuineAcks == Spec => []AckIsGenuine
<1>1. AckInv => AckIsGenuine
  BY DEF AckInv, AckAt, AckIsGenuine, Answered
<1> QED BY <1>1, AckInvariant, PTL
-----------------------------------------------------------------------------
(* The pace of retries.  At every stage of an attempt, the clock or the wake *)
(* time of the stage is as far past the admission as the earlier attempts    *)
(* took; only a wake time cut off at the horizon says nothing.               *)

Elapsed(n) == n * RetryPeriod
Since(r, t, d) == t = MaxTime \/ t - log[r].admittedAt >= d

PaceAt(r) ==
  /\ log[r].clearedAt # Absent =>
       /\ log[r].clearedAt <= now
       /\ log[r].clearedAt - log[r].admittedAt <= Ttl + Skew
  /\ log[r].sends > 0 =>
       /\ log[r].clearedAt # Absent
       /\ Since(r, log[r].clearedAt, SendDelay + Elapsed(log[r].sends - 1))
  /\ job[r].pc = "attempt" => Since(r, now, Elapsed(job[r].retry))
  /\ job[r].pc = "delay" => Since(r, job[r].wake, SendDelay + Elapsed(job[r].retry))
  /\ job[r].pc \in {"open", "send", "sent"} =>
       /\ log[r].clearedAt # Absent
       /\ Since(r, log[r].clearedAt, SendDelay + Elapsed(job[r].retry))
  /\ job[r].pc = "wait" /\ ackMode = "socketcan" =>
       Since(r, job[r].wake, SendDelay + AckTimeout + Elapsed(job[r].retry))
  /\ job[r].pc = "wait" /\ job[r].timeoutDue # Off =>
       Since(r, job[r].timeoutDue, SendDelay + AckTimeout + Elapsed(job[r].retry))
  /\ job[r].pc = "timedout" => Since(r, now, SendDelay + AckTimeout + Elapsed(job[r].retry))
  /\ job[r].pc = "backoff" => Since(r, job[r].wake, Elapsed(job[r].retry))

Paced == ackMode = "mock" \/ ~SocketFaults
PaceInv == Paced => \A r \in Requests : PaceAt(r)

LEMMA PeriodInNat == RetryPeriod \in Nat
  BY ParametersAssumption DEF RetryPeriod

LEMMA ElapsedGrows ==
  ASSUME NEW n \in Nat
  PROVE  /\ Elapsed(n) \in Nat
         /\ Elapsed(n + 1) = Elapsed(n) + RetryPeriod
         /\ Elapsed(0) = 0
<1> DEFINE p == RetryPeriod
<1>1. p \in Nat
  BY PeriodInNat
<1> HIDE DEF p
<1>2. n * p \in Nat /\ (n + 1) * p = n * p + p /\ 0 * p = 0
  BY <1>1
<1> QED BY <1>2 DEF Elapsed, p

LEMMA InitPace == Init => PaceInv
<1> SUFFICES ASSUME Init, NEW r \in Requests PROVE PaceAt(r)
  BY DEF PaceInv
<1>1. /\ job[r].pc = "new" /\ log[r].sends = 0 /\ log[r].clearedAt = Absent
  BY DEF Init
<1> QED BY <1>1 DEF PaceAt

\* Neither a step of another request nor the clock disturbs the pace of q.
LEMMA PaceKept ==
  ASSUME TypeOK, NEW q \in Requests, PaceAt(q), ackMode' = ackMode,
         now' = now \/ (now < MaxTime /\ now' = now + 1),
         \/ job'[q] = job[q]
         \/ job'[q] = [job[q] EXCEPT !.socket = "readable"],
         log'[q] = log[q]
  PROVE  PaceAt(q)'
<1>1. /\ now \in Int /\ MaxTime \in Int /\ now <= MaxTime
      /\ job[q] \in Jobs /\ log[q] \in Logs
  BY Update, ParametersAssumption DEF TypeOK, Time
<1>2. /\ job[q].wake \in Int /\ job[q].retry \in Nat /\ log[q].sends \in Nat
      /\ log[q].admittedAt \in Int /\ log[q].clearedAt \in Int
  BY <1>1 DEF Jobs, Logs, Time, Absent
<1>3. /\ job'[q].pc = job[q].pc /\ job'[q].retry = job[q].retry /\ job'[q].wake = job[q].wake
      /\ job'[q].timeoutDue = job[q].timeoutDue
  BY <1>1 DEF Jobs
<1>4. Elapsed(job[q].retry) \in Nat /\ SendDelay \in Nat /\ AckTimeout \in Nat
  BY <1>2, ElapsedGrows, ParametersAssumption
<1> QED BY <1>1, <1>2, <1>3, <1>4 DEF PaceAt, Since

\* An ended request is at no stage any more, and its frames stay sent in time.
LEMMA EndsInPace ==
  ASSUME TypeOK, NEW r \in Requests, PaceInv,
         Stop(r) \/ \E s : Finish(r, s), ackMode' = ackMode, now' = now
  PROVE  PaceInv'
<1>0. SUFFICES ASSUME Paced, NEW q \in Requests PROVE PaceAt(q)'
  BY DEF PaceInv, Paced
<1>1. PaceAt(q)
  BY <1>0 DEF PaceInv
<1>2. CASE q # r
  <2>1. job'[q] = job[q] /\ log'[q] = log[q]
    BY <1>2, FinishFields, StopFields
  <2> QED BY <1>1, <2>1, PaceKept
<1>3. CASE q = r
  <2>1. /\ job'[r] = [job[r] EXCEPT !.pc = "ended", !.socket = "closed"]
        /\ log'[r] = log[r] \/ \E s : log'[r] = [log[r] EXCEPT !.terminals = Append(@, s)]
    BY FinishFields, StopFields
  <2>2. job[r] \in Jobs /\ log[r] \in Logs
    BY Update
  <2>3. /\ job'[r].pc = "ended"
        /\ log'[r].sends = log[r].sends /\ log'[r].clearedAt = log[r].clearedAt
        /\ log'[r].admittedAt = log[r].admittedAt
    BY <2>1, <2>2 DEF Jobs, Logs
  <2> QED BY <1>1, <1>3, <2>3 DEF PaceAt, Since
<1> QED BY <1>2, <1>3

LEMMA StepPace ==
  TypeOK /\ PlaceInv /\ AdmissionInv /\ PaceInv /\ [Next]_vars => PaceInv'
<1> SUFFICES ASSUME TypeOK, PlaceInv, AdmissionInv, PaceInv, [Next]_vars PROVE PaceInv'
  OBVIOUS
<1>c. /\ now \in Int /\ MaxTime \in Nat /\ 0 <= now /\ now <= MaxTime
      /\ SendDelay \in Nat /\ AckTimeout \in Nat /\ Backoff \in Nat
      /\ Ttl \in Nat /\ Skew \in Nat /\ Absent = -1 /\ Off = -1
  BY ParametersAssumption DEF TypeOK, Time, Absent, Off
<1>0. ASSUME NEW r \in Requests
      PROVE  /\ job[r] \in Jobs /\ log[r] \in Logs /\ At(r) /\ Stamp[r] \in Int
             /\ job[r].wake \in Int /\ job[r].retry \in Nat /\ log[r].sends \in Nat
             /\ log[r].admittedAt \in Int /\ log[r].clearedAt \in Int
             /\ job[r].timeoutDue \in Int
             /\ Elapsed(job[r].retry) \in Nat
             /\ Elapsed(job[r].retry + 1) = Elapsed(job[r].retry) + RetryPeriod
             /\ RetryPeriod = SendDelay + AckTimeout + Backoff
  <2>1. job[r] \in Jobs /\ log[r] \in Logs /\ At(r) /\ Stamp[r] \in Int
    BY Update, RequestsAssumption DEF PlaceInv
  <2>2. /\ job[r].wake \in Int /\ job[r].retry \in Nat /\ log[r].sends \in Nat
        /\ log[r].admittedAt \in Int /\ log[r].clearedAt \in Int
        /\ job[r].timeoutDue \in Int
    BY <2>1, <1>c DEF Jobs, Logs, Time
  <2> QED BY <2>1, <2>2, ElapsedGrows DEF RetryPeriod
\* A wake time is a full sleep ahead or at the horizon.
<1>after. ASSUME NEW d \in Nat
          PROVE  /\ After(d) \in Int
                 /\ After(d) = MaxTime \/ After(d) = now + d
                 /\ now = MaxTime => After(d) = MaxTime
  BY <1>c, <1>after DEF After
<1>own. ASSUME NEW r \in Requests, PaceAt(r)', ackMode' = ackMode, now' = now,
               \A q \in Requests \ {r} : job'[q] = job[q] /\ log'[q] = log[q]
        PROVE  PaceInv'
  <2>0. SUFFICES ASSUME Paced, NEW q \in Requests \ {r} PROVE PaceAt(q)'
    BY <1>own DEF PaceInv, Paced
  <2> QED BY <1>own, <2>0, PaceKept DEF PaceInv
<1>p. SUFFICES ASSUME Paced PROVE PaceInv'
  <2>1. ackMode' = ackMode
    BY DEF Next, Callback, Thread, OnPlannerCommand, MockAckFires, TimeoutFires,
           BeginAttempt, ClearToSend, OpenAckSocket, SendFrame, StartAckWait, WorkerAcked,
           WorkerGivesUp, OnAckTimeout, EndBackoff, PeerAck, Lifecycle, Tick, Terminated,
           World, vars
  <2> QED BY <2>1 DEF PaceInv, Paced
<1>pace. ASSUME NEW r \in Requests PROVE PaceAt(r)
  BY <1>p DEF PaceInv
<1>1. ASSUME NEW r \in Requests, OnPlannerCommand(r) PROVE PaceInv'
  <2>0. job[r].pc = "new" /\ ackMode' = ackMode /\ now' = now
    BY <1>1 DEF OnPlannerCommand
  <2>1. CASE Admit(r)
    <3>1. /\ job'[r] = [job[r] EXCEPT !.pc = "attempt"]
          /\ log'[r] = [log[r] EXCEPT !.admittedAt = now]
          /\ \A q \in Requests \ {r} : job'[q] = job[q] /\ log'[q] = log[q]
      BY <2>1 DEF Admit, Goto, TypeOK
    <3>2. /\ job'[r].pc = "attempt" /\ job'[r].retry = 0 /\ job[r].retry = 0
          /\ log'[r].admittedAt = now /\ log'[r].clearedAt = log[r].clearedAt
          /\ log'[r].sends = 0
      BY <1>0, <2>0, <3>1 DEF Jobs, Logs, At, Count
    <3>3. Elapsed(0) = 0 /\ 0 <= Ttl + Skew
      BY ElapsedGrows, <1>c
    \* A frame is cleared for sending only in an attempt, so after the admission.
    <3>4. PaceAt(r)'
      BY <1>c, <1>0, <1>pace, <2>0, <3>2, <3>3 DEF PaceAt, Since
    <3> QED BY <1>own, <2>0, <3>1, <3>4
  <2>2. CASE ~Admit(r)
    BY <1>1, <2>0, <2>2, EndsInPace DEF OnPlannerCommand, Refuse
  <2> QED BY <2>1, <2>2
<1>2. ASSUME NEW r \in Requests, BeginAttempt(r) PROVE PaceInv'
  <2>0. job[r].pc = "attempt" /\ ackMode' = ackMode /\ now' = now
    BY <1>2 DEF BeginAttempt, World
  <2>1. CASE Finish(r, "rejected")
    BY <2>0, <2>1, EndsInPace
  <2>2. CASE ~Finish(r, "rejected")
    <3>1. /\ job'[r] = [job[r] EXCEPT !.pc = "delay", !.wake = After(SendDelay)] /\ log' = log
          /\ \A q \in Requests \ {r} : job'[q] = job[q]
      BY <1>2, <2>2 DEF BeginAttempt, TypeOK
    <3>2. /\ job'[r].pc = "delay" /\ job'[r].wake = After(SendDelay)
          /\ job'[r].retry = job[r].retry
      BY <1>0, <3>1 DEF Jobs
    <3>3. Since(r, After(SendDelay), SendDelay + Elapsed(job[r].retry))
      BY <1>c, <1>0, <1>after, <1>pace, <2>0 DEF PaceAt, Since
    <3>4. PaceAt(r)'
      BY <1>0, <1>pace, <2>0, <3>1, <3>2, <3>3 DEF PaceAt, Since
    <3> QED BY <1>own, <2>0, <3>1, <3>4
  <2> QED BY <2>1, <2>2
<1>3. ASSUME NEW r \in Requests, ClearToSend(r) PROVE PaceInv'
  <2>0. job[r].pc = "delay" /\ now >= job[r].wake /\ ackMode' = ackMode /\ now' = now
    BY <1>3 DEF ClearToSend, World
  <2>1. CASE Finish(r, "rejected") \/ Stop(r)
    BY <2>0, <2>1, EndsInPace
  <2>2. CASE ~(Finish(r, "rejected") \/ Stop(r))
    <3>1. /\ job'[r] = [job[r] EXCEPT !.pc = "open"] /\ Valid(r)
          /\ log'[r] = [log[r] EXCEPT !.clearedAt = now]
          /\ \A q \in Requests \ {r} : job'[q] = job[q] /\ log'[q] = log[q]
      BY <1>3, <2>2 DEF ClearToSend, Goto, TypeOK
    <3>2. /\ job'[r].pc = "open" /\ job'[r].retry = job[r].retry
          /\ log'[r].clearedAt = now /\ log'[r].admittedAt = log[r].admittedAt
          /\ log'[r].sends = log[r].sends /\ log[r].sends = job[r].retry
      BY <1>0, <2>0, <3>1 DEF Jobs, Logs, At, Count
    <3>3. Since(r, now, SendDelay + Elapsed(job[r].retry))
      BY <1>c, <1>0, <1>pace, <2>0 DEF PaceAt, Since
    \* The guard allows no command older than its time to live.
    <3>4. now - log[r].admittedAt <= Ttl + Skew
      <4>1. now - Stamp[r] <= Ttl
        BY <3>1 DEF Valid
      <4>2. Stamp[r] <= log[r].admittedAt + Skew
        BY <1>0, <2>0 DEF AdmissionInv, At, Count
      <4> QED BY <1>c, <1>0, <4>1, <4>2
    <3>5. job[r].retry > 0 =>
            Since(r, now, SendDelay + Elapsed(job[r].retry - 1))
      <4>1. job[r].retry > 0 => Elapsed(job[r].retry) = Elapsed(job[r].retry - 1) + RetryPeriod
                                /\ Elapsed(job[r].retry - 1) \in Nat
        <5>1. ASSUME job[r].retry > 0
              PROVE  job[r].retry - 1 \in Nat /\ (job[r].retry - 1) + 1 = job[r].retry
          BY <1>0, <5>1
        <5> QED BY <5>1, ElapsedGrows
      <4> QED BY <1>c, <1>0, <3>3, <4>1, PeriodInNat DEF Since
    <3>6. PaceAt(r)'
      BY <1>c, <1>0, <2>0, <3>2, <3>3, <3>4, <3>5 DEF PaceAt, Since
    <3> QED BY <1>own, <2>0, <3>1, <3>6
  <2> QED BY <2>1, <2>2
<1>4. ASSUME NEW r \in Requests, OpenAckSocket(r) PROVE PaceInv'
  <2>1. PICK s \in {"closed", "open"} : job' = [job EXCEPT ![r].pc = "send", ![r].socket = s]
    BY <1>4 DEF OpenAckSocket
  <2>2. /\ job[r].pc = "open" /\ ackMode' = ackMode /\ now' = now /\ log' = log
        /\ \A q \in Requests \ {r} : job'[q] = job[q]
        /\ job'[r] = [job[r] EXCEPT !.pc = "send", !.socket = s]
    BY <1>4, <2>1 DEF OpenAckSocket, World, TypeOK
  <2>3. job'[r].pc = "send" /\ job'[r].retry = job[r].retry
    BY <1>0, <2>2 DEF Jobs
  <2>4. PaceAt(r)'
    BY <1>pace, <2>2, <2>3 DEF PaceAt, Since
  <2> QED BY <1>own, <2>2, <2>4
<1>5. ASSUME NEW r \in Requests, SendFrame(r) PROVE PaceInv'
  <2>0. job[r].pc = "send" /\ ackMode' = ackMode /\ now' = now
    BY <1>5 DEF SendFrame, World
  <2>1. CASE Finish(r, "send_failed")
    BY <2>0, <2>1, EndsInPace
  <2>2. CASE ~Finish(r, "send_failed")
    <3>1. /\ job'[r] = [job[r] EXCEPT !.pc = "sent"]
          /\ log'[r] = [log[r] EXCEPT !.sends = @ + 1]
          /\ \A q \in Requests \ {r} : job'[q] = job[q] /\ log'[q] = log[q]
      BY <1>5, <2>2 DEF SendFrame, Goto, TypeOK
    <3>2. /\ job'[r].pc = "sent" /\ job'[r].retry = job[r].retry
          /\ log'[r].clearedAt = log[r].clearedAt /\ log'[r].admittedAt = log[r].admittedAt
          /\ log'[r].sends = log[r].sends + 1 /\ log[r].sends = job[r].retry
          /\ log'[r].sends - 1 = job[r].retry
      BY <1>0, <2>0, <3>1 DEF Jobs, Logs, At, Count
    <3>3. PaceAt(r)'
      BY <1>pace, <2>0, <3>2 DEF PaceAt, Since
    <3> QED BY <1>own, <2>0, <3>1, <3>3
  <2> QED BY <2>1, <2>2
<1>6. ASSUME NEW r \in Requests, StartAckWait(r) PROVE PaceInv'
  <2>0. /\ job[r].pc = "sent" /\ ackMode' = ackMode /\ now' = now
        /\ job[r].timeoutDue = Off
    BY <1>0, <1>6 DEF StartAckWait, World, At, Place
  <2>1. CASE Stop(r)
    BY <2>0, <2>1, EndsInPace
  <2>2. CASE ~Stop(r)
    <3>1. /\ log' = log
          /\ \A q \in Requests \ {r} : job'[q] = job[q]
          /\ \/ job'[r] = [job[r] EXCEPT !.pc = "ended"]
             \/ job'[r] = [job[r] EXCEPT !.pc = "wait", !.wake = After(AckTimeout)]
             \/ /\ ackMode = "mock"
                /\ job'[r] = [job[r] EXCEPT !.pc = "wait", !.ackDue = MockAckDue(r),
                                            !.timeoutDue = TimeoutDue(r)]
      BY <1>6, <2>2 DEF StartAckWait, Goto, TypeOK
    <3>2. Since(r, After(AckTimeout), SendDelay + AckTimeout + Elapsed(job[r].retry))
      BY <1>c, <1>0, <1>after, <1>pace, <2>0 DEF PaceAt, Since
    <3>3. TimeoutDue(r) \in {Off, After(AckTimeout)}
      BY DEF TimeoutDue
    <3>4. PaceAt(r)'
      <4>1. CASE job'[r] = [job[r] EXCEPT !.pc = "ended"]
        <5>1. job'[r].pc = "ended"
          BY <1>0, <4>1 DEF Jobs
        <5> QED BY <1>pace, <2>0, <3>1, <5>1 DEF PaceAt, Since
      <4>2. CASE job'[r] = [job[r] EXCEPT !.pc = "wait", !.wake = After(AckTimeout)]
        <5>1. /\ job'[r].pc = "wait" /\ job'[r].wake = After(AckTimeout)
              /\ job'[r].retry = job[r].retry /\ job'[r].timeoutDue = Off
          BY <1>0, <2>0, <4>2 DEF Jobs
        <5> QED BY <1>pace, <2>0, <3>1, <3>2, <5>1 DEF PaceAt, Since
      <4>3. CASE /\ ackMode = "mock"
                 /\ job'[r] = [job[r] EXCEPT !.pc = "wait", !.ackDue = MockAckDue(r),
                                             !.timeoutDue = TimeoutDue(r)]
        <5>1. /\ job'[r].pc = "wait" /\ job'[r].timeoutDue = TimeoutDue(r)
              /\ job'[r].retry = job[r].retry
          BY <1>0, <4>3 DEF Jobs
        <5> QED BY <1>pace, <2>0, <3>1, <3>2, <3>3, <4>3, <5>1 DEF PaceAt, Since
      <4> QED BY <3>1, <4>1, <4>2, <4>3
    <3> QED BY <1>own, <2>0, <3>1, <3>4
  <2> QED BY <2>1, <2>2
<1>7. ASSUME NEW r \in Requests, MockAckFires(r) PROVE PaceInv'
  <2>0. /\ job[r].pc = "wait" /\ ackMode = "mock" /\ ackMode' = ackMode /\ now' = now
        /\ job[r].timeoutDue = Off
        /\ \A q \in Requests \ {r} : job'[q] = job[q] /\ log'[q] = log[q]
    BY <1>0, <1>7 DEF MockAckFires, Publish, Due, World, At, Place, TypeOK
  <2>1. /\ \/ job'[r] = [job[r] EXCEPT !.pc = "ended", !.ackDue = Off]
           \/ job'[r] = [job[r] EXCEPT !.ackDue = Off]
        /\ \/ log'[r] = log[r]
           \/ log'[r] = [log[r] EXCEPT !.terminals = Append(@, "ack_received")]
    BY <1>7 DEF MockAckFires, Publish, TypeOK
  <2>2. job'[r].pc \in {"wait", "ended"} /\ job'[r].timeoutDue = Off
    BY <1>0, <2>0, <2>1 DEF Jobs
  <2>3. /\ log'[r].sends = log[r].sends /\ log'[r].clearedAt = log[r].clearedAt
        /\ log'[r].admittedAt = log[r].admittedAt
    BY <1>0, <2>1 DEF Logs
  <2>4. PaceAt(r)'
    BY <1>pace, <2>0, <2>2, <2>3 DEF PaceAt, Since
  <2> QED BY <1>own, <2>0, <2>4
<1>8. ASSUME NEW r \in Requests, TimeoutFires(r) PROVE PaceInv'
  <2>0. /\ job[r].pc = "wait" /\ ackMode = "mock" /\ ackMode' = ackMode /\ now' = now
        /\ job[r].timeoutDue # Off /\ now >= job[r].timeoutDue /\ log' = log
        /\ \A q \in Requests \ {r} : job'[q] = job[q]
        /\ \/ job'[r] = [job[r] EXCEPT !.pc = "timedout", !.timeoutDue = Off]
           \/ job'[r] = [job[r] EXCEPT !.timeoutDue = Off]
    BY <1>0, <1>8 DEF TimeoutFires, Due, World, At, Place, TypeOK
  <2>1. /\ job'[r].pc \in {"wait", "timedout"} /\ job'[r].timeoutDue = Off
        /\ job'[r].retry = job[r].retry
    BY <1>0, <2>0 DEF Jobs
  <2>2. Since(r, now, SendDelay + AckTimeout + Elapsed(job[r].retry))
    BY <1>c, <1>0, <1>pace, <2>0 DEF PaceAt, Since
  <2>3. PaceAt(r)'
    BY <1>pace, <2>0, <2>1, <2>2 DEF PaceAt, Since
  <2> QED BY <1>own, <2>0, <2>3
<1>9. ASSUME NEW r \in Requests, WorkerAcked(r) PROVE PaceInv'
  BY <1>9, EndsInPace DEF WorkerAcked, World
<1>10. ASSUME NEW r \in Requests, WorkerGivesUp(r) PROVE PaceInv'
  <2>0. /\ ackMode = "socketcan" /\ job[r].pc = "wait" /\ ackMode' = ackMode /\ now' = now
        /\ job[r].socket # "closed"
    BY <1>0, <1>10, <1>p DEF WorkerGivesUp, World, At, Socket, Paced
  <2>1. CASE Stop(r)
    BY <2>0, <2>1, EndsInPace
  <2>2. CASE ~Stop(r)
    <3>1. /\ log' = log /\ now >= job[r].wake
          /\ \A q \in Requests \ {r} : job'[q] = job[q]
          /\ job'[r] = [job[r] EXCEPT !.pc = "timedout", !.socket = "closed"]
      BY <1>10, <1>p, <2>0, <2>2 DEF WorkerGivesUp, Paced, TypeOK
    <3>2. job'[r].pc = "timedout" /\ job'[r].retry = job[r].retry
      BY <1>0, <3>1 DEF Jobs
    <3>3. Since(r, now, SendDelay + AckTimeout + Elapsed(job[r].retry))
      BY <1>c, <1>0, <1>pace, <2>0, <3>1 DEF PaceAt, Since
    <3>4. PaceAt(r)'
      BY <1>pace, <2>0, <3>1, <3>2, <3>3 DEF PaceAt, Since
    <3> QED BY <1>own, <2>0, <3>1, <3>4
  <2> QED BY <2>1, <2>2
<1>11. ASSUME NEW r \in Requests, OnAckTimeout(r) PROVE PaceInv'
  <2>0. job[r].pc = "timedout" /\ ackMode' = ackMode /\ now' = now
    BY <1>11 DEF OnAckTimeout, World
  <2>1. CASE Finish(r, "retry_exhausted")
    BY <2>0, <2>1, EndsInPace
  <2>2. CASE ~Finish(r, "retry_exhausted")
    <3>1. /\ log' = log /\ \A q \in Requests \ {r} : job'[q] = job[q]
          /\ job'[r] = [job[r] EXCEPT !.pc = "backoff", !.retry = @ + 1, !.wake = After(Backoff)]
      BY <1>11, <2>2 DEF OnAckTimeout, TypeOK
    <3>2. /\ job'[r].pc = "backoff" /\ job'[r].wake = After(Backoff)
          /\ job'[r].retry = job[r].retry + 1
      BY <1>0, <3>1 DEF Jobs
    <3>3. Since(r, After(Backoff), Elapsed(job[r].retry + 1))
      BY <1>c, <1>0, <1>after, <1>pace, <2>0 DEF PaceAt, Since
    <3>4. PaceAt(r)'
      BY <1>pace, <2>0, <3>1, <3>2, <3>3 DEF PaceAt, Since
    <3> QED BY <1>own, <2>0, <3>1, <3>4
  <2> QED BY <2>1, <2>2
<1>12. ASSUME NEW r \in Requests, EndBackoff(r) PROVE PaceInv'
  <2>1. /\ job[r].pc = "backoff" /\ now >= job[r].wake /\ ackMode' = ackMode /\ now' = now
        /\ job'[r] = [job[r] EXCEPT !.pc = "attempt"] /\ log' = log
        /\ \A q \in Requests \ {r} : job'[q] = job[q]
    BY <1>12 DEF EndBackoff, Goto, World, TypeOK
  <2>2. job'[r].pc = "attempt" /\ job'[r].retry = job[r].retry
    BY <1>0, <2>1 DEF Jobs
  <2>3. Since(r, now, Elapsed(job[r].retry))
    <3>1. Since(r, job[r].wake, Elapsed(job[r].retry))
      BY <1>pace, <2>1 DEF PaceAt
    <3>2. now >= job[r].wake
      BY <2>1
    <3> QED BY <1>c, <1>0, <3>1, <3>2 DEF Since
  <2>4. PaceAt(r)'
    BY <1>pace, <2>1, <2>2, <2>3 DEF PaceAt, Since
  <2> QED BY <1>own, <2>1, <2>4
<1>13. CASE PeerAck
  <2>1. /\ ackMode' = ackMode /\ now' = now /\ log' = log
        /\ \A r \in Requests : \/ job'[r] = job[r]
                               \/ job'[r] = [job[r] EXCEPT !.socket = "readable"]
    BY <1>13 DEF PeerAck, World
  <2> QED BY <1>pace, <2>1, PaceKept DEF PaceInv
<1>14. CASE Lifecycle \/ Tick \/ UNCHANGED vars
  <2>1. /\ ackMode' = ackMode /\ job' = job /\ log' = log
        /\ now' = now \/ (now < MaxTime /\ now' = now + 1)
    BY <1>14 DEF Lifecycle, Tick, vars
  <2> QED BY <1>pace, <2>1, PaceKept DEF PaceInv
<1> QED
  BY <1>1, <1>2, <1>3, <1>4, <1>5, <1>6, <1>7, <1>8, <1>9, <1>10, <1>11, <1>12,
     <1>13, <1>14 DEF Next, Callback, Thread, Terminated

\* With working sockets a request's sends are a full retry period apart, so
\* their number is bounded by the life the guard allows the command.
THEOREM RetriesFitLifetime == Spec => []SendsFitLifetime
<1> DEFINE I == TypeOK /\ PlaceInv /\ AdmissionInv /\ PaceInv
<1>1. Init => I
  BY InitType, InitPlace, InitAdmission, InitPace
<1>2. I /\ [Next]_vars => I'
  BY StepType, StepPlace, StepAdmission, StepPace
<1>3. I => SendsFitLifetime
  <2> SUFFICES ASSUME TypeOK, PaceInv, Paced, NEW r \in Requests,
                      log[r].sends > 0, log[r].clearedAt < MaxTime
               PROVE  /\ SendDelay + Elapsed(log[r].sends - 1)
                           <= log[r].clearedAt - log[r].admittedAt
                      /\ SendDelay + Elapsed(log[r].sends - 1) <= Ttl + Skew
    BY DEF SendsFitLifetime, Paced, Elapsed
  <2>1. log[r].sends - 1 \in Nat
    BY Update DEF Logs
  <2>2. /\ log[r].clearedAt \in Int /\ log[r].admittedAt \in Int
        /\ Elapsed(log[r].sends - 1) \in Nat
    <3>1. log[r].clearedAt \in Int /\ log[r].admittedAt \in Int
      BY Update, ParametersAssumption DEF Logs, Time, Absent
    <3> QED BY <2>1, <3>1, ElapsedGrows
  <2>3. PaceAt(r)
    BY DEF PaceInv
  <2> QED BY <2>2, <2>3, ParametersAssumption DEF PaceAt, Since
<1> QED BY <1>1, <1>2, <1>3, PTL DEF Spec
-----------------------------------------------------------------------------
(* The bridge implements CommandLifecycle, its liveness aside: each step is  *)
(* a step of the abstract specification or leaves its variables alone.       *)

PromisedStatus == [r \in Requests |-> Outcome(r)]
PromisedSends == [r \in Requests |-> log[r].sends]

\* What the outcome of a request is, from the two log fields it depends on.
LEMMA OutcomeCases ==
  ASSUME NEW r \in Requests, log[r] \in Logs
  PROVE  /\ log[r].terminals = << >> /\ ~Admitted(r) => Outcome(r) = "new"
         /\ log[r].terminals = << >> /\ Admitted(r) => Outcome(r) = "accepted"
         /\ ~Admitted(r) => Outcome(r) \in {"new", "refused"}
         /\ \A s : log[r].terminals = <<s>> =>
              Outcome(r) = IF Admitted(r) THEN s ELSE "refused"
  BY DEF Outcome

\* A step that changes the log of one request changes that request's outcome
\* and count of sends only.
LEMMA OneChanges ==
  ASSUME NEW r \in Requests, \A q \in Requests \ {r} : log'[q] = log[q]
  PROVE  /\ PromisedStatus' = [PromisedStatus EXCEPT ![r] = Outcome(r)']
         /\ PromisedSends' = [PromisedSends EXCEPT ![r] = log'[r].sends]
<1>1. \A q \in Requests \ {r} : Outcome(q)' = Outcome(q) /\ log'[q].sends = log[q].sends
  BY DEF Outcome, Admitted
<1> QED BY <1>1 DEF PromisedStatus, PromisedSends

LEMMA SameLogSamePromise ==
  ASSUME log' = log
  PROVE  PromisedStatus' = PromisedStatus /\ PromisedSends' = PromisedSends
  BY DEF PromisedStatus, PromisedSends, Outcome, Admitted

\* The only steps of the abstract specification, in the bridge's terms.
LEMMA PromiseSteps ==
  ASSUME NEW r \in Requests
  PROVE  /\ /\ Outcome(r) = "new"
            /\ PromisedStatus' = [PromisedStatus EXCEPT ![r] = "refused"]
            /\ PromisedSends' = PromisedSends /\ Ok' = Ok
            => Promise!Refuse(r)
         /\ /\ Ok /\ Outcome(r) = "new"
            /\ \A s \in Requests \ {r} :
                 Identity[s] = Identity[r] /\ Stamp[s] = Stamp[r]
                 => Outcome(s) \in {"new", "refused"}
            /\ PromisedStatus' = [PromisedStatus EXCEPT ![r] = "accepted"]
            /\ PromisedSends' = PromisedSends /\ Ok' = Ok
            => Promise!Accept(r)
         /\ /\ Outcome(r) = "accepted" /\ log[r].sends < MaxRetries + 1
            /\ PromisedSends' = [PromisedSends EXCEPT ![r] = log[r].sends + 1]
            /\ PromisedStatus' = PromisedStatus /\ Ok' = Ok
            => Promise!Send(r)
         /\ \A s \in Statuses :
              /\ Outcome(r) = "accepted"
              /\ s = "ack_received" => log[r].sends > 0
              /\ s = "retry_exhausted" => log[r].sends = MaxRetries + 1
              /\ PromisedStatus' = [PromisedStatus EXCEPT ![r] = s]
              /\ PromisedSends' = PromisedSends /\ Ok' = Ok
              => Promise!End(r)
<1> USE DEF PromisedStatus, PromisedSends
<1>1. ASSUME Outcome(r) = "new",
             PromisedStatus' = [PromisedStatus EXCEPT ![r] = "refused"],
             PromisedSends' = PromisedSends, Ok' = Ok
      PROVE  Promise!Refuse(r)
  BY <1>1 DEF Promise!Refuse, Promise!Become
<1>2. ASSUME Ok, Outcome(r) = "new",
             \A s \in Requests \ {r} :
               Identity[s] = Identity[r] /\ Stamp[s] = Stamp[r]
               => Outcome(s) \in {"new", "refused"},
             PromisedStatus' = [PromisedStatus EXCEPT ![r] = "accepted"],
             PromisedSends' = PromisedSends, Ok' = Ok
      PROVE  Promise!Accept(r)
  BY <1>2 DEF Promise!Accept, Promise!Become
<1>3. ASSUME Outcome(r) = "accepted", log[r].sends < MaxRetries + 1,
             PromisedSends' = [PromisedSends EXCEPT ![r] = log[r].sends + 1],
             PromisedStatus' = PromisedStatus, Ok' = Ok
      PROVE  Promise!Send(r)
  BY <1>3 DEF Promise!Send
<1>4. ASSUME NEW s \in Statuses, Outcome(r) = "accepted",
             s = "ack_received" => log[r].sends > 0,
             s = "retry_exhausted" => log[r].sends = MaxRetries + 1,
             PromisedStatus' = [PromisedStatus EXCEPT ![r] = s],
             PromisedSends' = PromisedSends, Ok' = Ok
      PROVE  Promise!End(r)
  BY <1>4 DEF Promise!End, Promise!Become, Promise!Outcomes, Statuses
<1> QED BY <1>1, <1>2, <1>3, <1>4

LEMMA InitPromise == Init => Promise!Init
<1> SUFFICES ASSUME Init PROVE Promise!Init
  OBVIOUS
<1>1. \A r \in Requests : Outcome(r) = "new" /\ log[r].sends = 0
  BY DEF Init, Outcome, Admitted
<1> QED BY <1>1 DEF Init, Ok, Promise!Init

\* A step that ends the handling of an accepted request, by an event or silently.
LEMMA EndsAsPromised ==
  ASSUME TypeOK, PlaceInv, NEW r \in Requests, Admitted(r), job[r].pc # "ended",
         \/ Stop(r)
         \/ \E s \in Statuses : /\ Finish(r, s)
                                /\ s = "ack_received" => log[r].sends > 0
                                /\ s = "retry_exhausted" => log[r].sends = MaxRetries + 1,
         life' = life
  PROVE  [Promise!Next]_(Promise!vars)
<1>1. CASE Stop(r)
  BY <1>1, SameLogSamePromise DEF Stop, Promise!vars, PromisedStatus, PromisedSends, Ok
<1>2. ASSUME NEW s \in Statuses, Finish(r, s),
             s = "ack_received" => log[r].sends > 0,
             s = "retry_exhausted" => log[r].sends = MaxRetries + 1
      PROVE  Promise!End(r)
  <2>1. log[r] \in Logs /\ log[r].terminals = << >>
    BY Update DEF PlaceInv, At, Place
  <2>2. /\ log'[r] = [log[r] EXCEPT !.terminals = Append(@, s)]
        /\ \A q \in Requests \ {r} : log'[q] = log[q]
    BY <1>2, FinishFields
  <2>3. /\ log'[r].terminals = <<s>> /\ log'[r].sends = log[r].sends
        /\ log'[r].admittedAt = log[r].admittedAt
    BY <2>1, <2>2 DEF Logs
  <2>4. Outcome(r) = "accepted" /\ Outcome(r)' = s
    BY <2>1, <2>3 DEF Outcome, Admitted
  <2>5. PromisedSends' = PromisedSends
    BY <2>2, <2>3, OneChanges DEF PromisedSends
  <2>6. PromisedStatus' = [PromisedStatus EXCEPT ![r] = s]
    BY <2>2, <2>4, OneChanges
  <2> QED BY <1>2, <2>4, <2>5, <2>6, PromiseSteps DEF Ok
<1> QED BY <1>1, <1>2 DEF Promise!Next

LEMMA StepPromise ==
  ASSUME WindowCoversLife, TypeOK, PlaceInv, AdmissionInv, AdmittedOnce', [Next]_vars
  PROVE  [Promise!Next]_(Promise!vars)
<1>0. ASSUME NEW r \in Requests
      PROVE  job[r] \in Jobs /\ log[r] \in Logs /\ At(r) /\ MaxRetries \in Nat
  BY Update, ParametersAssumption DEF PlaceInv
<1>same. ASSUME log' = log, Ok' = Ok PROVE [Promise!Next]_(Promise!vars)
  BY <1>same, SameLogSamePromise DEF Promise!vars, PromisedStatus, PromisedSends
<1>end. ASSUME NEW r \in Requests, job[r].pc \notin {"new", "ended"}, life' = life,
               \/ Stop(r)
               \/ \E s \in Statuses : /\ Finish(r, s)
                                      /\ s = "ack_received" => log[r].sends > 0
                                      /\ s = "retry_exhausted" => log[r].sends = MaxRetries + 1
        PROVE  [Promise!Next]_(Promise!vars)
  BY <1>0, <1>end, EndsAsPromised DEF At, Count
<1>1. ASSUME NEW r \in Requests, OnPlannerCommand(r) PROVE [Promise!Next]_(Promise!vars)
  <2>0. /\ job[r].pc = "new" /\ life' = life
        /\ log[r].terminals = << >> /\ ~Admitted(r) /\ Outcome(r) = "new"
    BY <1>0, <1>1, OutcomeCases DEF OnPlannerCommand, At, Place, Count
  <2>1. CASE Admit(r)
    <3>1. /\ log'[r] = [log[r] EXCEPT !.admittedAt = now] /\ Ok
          /\ \A q \in Requests \ {r} : log'[q] = log[q]
      BY <2>1 DEF Admit, TypeOK
    <3>2. /\ log'[r].terminals = << >> /\ log'[r].sends = log[r].sends
          /\ log'[r].admittedAt = now /\ now # Absent
      BY <1>0, <2>0, <3>1 DEF Logs, TypeOK, Time, Absent
    <3>3. Outcome(r)' = "accepted"
      BY <3>2 DEF Outcome, Admitted
    \* The map has refused every other delivery of the command.
    <3>4. ASSUME NEW s \in Requests \ {r}, Identity[s] = Identity[r], Stamp[s] = Stamp[r]
          PROVE  Outcome(s) \in {"new", "refused"}
      <4>1. Admitted(r)'
        BY <3>2 DEF Admitted
      <4>2. ~Admitted(s)'
        BY <3>4, <4>1 DEF AdmittedOnce
      <4>3. ~Admitted(s)
        BY <3>1, <4>2 DEF Admitted
      <4> QED BY <1>0, <4>3, OutcomeCases
    <3>5. /\ PromisedStatus' = [PromisedStatus EXCEPT ![r] = "accepted"]
          /\ PromisedSends' = PromisedSends
      BY <3>1, <3>2, <3>3, OneChanges DEF PromisedSends
    <3>6. Promise!Accept(r)
      BY <2>0, <3>1, <3>4, <3>5, PromiseSteps DEF Ok
    <3> QED BY <3>6 DEF Promise!Next
  <2>2. CASE Refuse(r)
    <3>1. /\ log'[r] = [log[r] EXCEPT !.terminals = Append(@, "rejected")]
          /\ \A q \in Requests \ {r} : log'[q] = log[q]
      BY <2>2, FinishFields DEF Refuse
    <3>2. /\ log'[r].terminals = <<"rejected">> /\ log'[r].sends = log[r].sends
          /\ log'[r].admittedAt = log[r].admittedAt
      BY <1>0, <2>0, <3>1 DEF Logs
    <3>3. Outcome(r)' = "refused"
      BY <2>0, <3>2 DEF Outcome, Admitted
    <3>4. /\ PromisedStatus' = [PromisedStatus EXCEPT ![r] = "refused"]
          /\ PromisedSends' = PromisedSends
      BY <3>1, <3>2, <3>3, OneChanges DEF PromisedSends
    <3>5. Promise!Refuse(r)
      BY <2>0, <3>4, PromiseSteps DEF Ok
    <3> QED BY <3>5 DEF Promise!Next
  <2>3. CASE Stop(r)
    BY <1>same, <2>0, <2>3 DEF Stop, Ok
  <2> QED BY <1>1, <2>1, <2>2, <2>3 DEF OnPlannerCommand
<1>2. ASSUME NEW r \in Requests, SendFrame(r) PROVE [Promise!Next]_(Promise!vars)
  <2>0. /\ job[r].pc = "send" /\ life' = life /\ Admitted(r)
        /\ log[r].terminals = << >> /\ log[r].sends < MaxRetries + 1
    <3>1. job[r].pc = "send" /\ life' = life
      BY <1>2 DEF SendFrame, World
    <3>2. /\ Admitted(r) /\ log[r].terminals = << >> /\ log[r].sends = job[r].retry
          /\ job[r].retry \in 0 .. MaxRetries
      BY <1>0, <3>1 DEF At, Place, Count, Jobs
    <3> QED BY <1>0, <3>1, <3>2
  <2>1. CASE Finish(r, "send_failed")
    BY <1>end, <2>0, <2>1 DEF Statuses
  <2>2. CASE ~Finish(r, "send_failed")
    <3>1. /\ log'[r] = [log[r] EXCEPT !.sends = @ + 1]
          /\ \A q \in Requests \ {r} : log'[q] = log[q]
      BY <1>2, <2>2 DEF SendFrame, TypeOK
    <3>2. /\ log'[r].terminals = log[r].terminals /\ log'[r].sends = log[r].sends + 1
          /\ log'[r].admittedAt = log[r].admittedAt
      BY <1>0, <3>1 DEF Logs
    <3>3. Outcome(r) = "accepted" /\ Outcome(r)' = Outcome(r)
      BY <2>0, <3>2 DEF Outcome, Admitted
    <3>4. /\ PromisedStatus' = PromisedStatus
          /\ PromisedSends' = [PromisedSends EXCEPT ![r] = log[r].sends + 1]
      BY <3>1, <3>2, <3>3, OneChanges DEF PromisedStatus
    <3>5. Promise!Send(r)
      BY <2>0, <3>3, <3>4, PromiseSteps DEF Ok
    <3> QED BY <3>5 DEF Promise!Next
  <2> QED BY <2>1, <2>2
<1>3. ASSUME NEW r \in Requests, ClearToSend(r) PROVE [Promise!Next]_(Promise!vars)
  <2>0. job[r].pc = "delay" /\ life' = life
    BY <1>3 DEF ClearToSend, World
  <2>1. CASE Stop(r) \/ Finish(r, "rejected")
    BY <1>end, <2>0, <2>1 DEF Statuses
  <2>2. CASE ~(Stop(r) \/ Finish(r, "rejected"))
    <3>1. /\ log'[r] = [log[r] EXCEPT !.clearedAt = now]
          /\ \A q \in Requests \ {r} : log'[q] = log[q]
      BY <1>3, <2>2 DEF ClearToSend, TypeOK
    <3>2. /\ log'[r].terminals = log[r].terminals /\ log'[r].sends = log[r].sends
          /\ log'[r].admittedAt = log[r].admittedAt
      BY <1>0, <3>1 DEF Logs
    <3>3. Outcome(r)' = Outcome(r)
      BY <3>2 DEF Outcome, Admitted
    <3> QED BY <2>0, <3>1, <3>2, <3>3, OneChanges
            DEF Promise!vars, PromisedStatus, PromisedSends, Ok
  <2> QED BY <2>1, <2>2
<1>4. ASSUME NEW r \in Requests, BeginAttempt(r) PROVE [Promise!Next]_(Promise!vars)
  BY <1>same, <1>end, <1>4 DEF BeginAttempt, World, Ok, Statuses
<1>5. ASSUME NEW r \in Requests, OpenAckSocket(r) \/ EndBackoff(r)
      PROVE  [Promise!Next]_(Promise!vars)
  BY <1>same, <1>5 DEF OpenAckSocket, EndBackoff, World, Ok
<1>6. ASSUME NEW r \in Requests, StartAckWait(r) PROVE [Promise!Next]_(Promise!vars)
  BY <1>same, <1>6 DEF StartAckWait, Stop, World, Ok
<1>7. ASSUME NEW r \in Requests, MockAckFires(r) PROVE [Promise!Next]_(Promise!vars)
  <2>0. /\ job[r].pc = "wait" /\ life' = life /\ Admitted(r) /\ log[r].terminals = << >>
        /\ log[r].sends > 0 /\ Outcome(r) = "accepted"
    <3>1. job[r].pc = "wait" /\ life' = life
      BY <1>0, <1>7 DEF MockAckFires, Due, World, At, Place
    <3>2. /\ Admitted(r) /\ log[r].terminals = << >> /\ log[r].sends = job[r].retry + 1
          /\ job[r].retry \in 0 .. MaxRetries
      BY <1>0, <3>1 DEF At, Place, Count, Jobs
    <3> QED BY <1>0, <3>1, <3>2, OutcomeCases
  <2>1. CASE Ok
    <3>1. /\ log'[r] = [log[r] EXCEPT !.terminals = Append(@, "ack_received")]
          /\ \A q \in Requests \ {r} : log'[q] = log[q]
      BY <1>7, <2>1 DEF MockAckFires, Publish, TypeOK
    <3>2. /\ log'[r].terminals = <<"ack_received">> /\ log'[r].sends = log[r].sends
          /\ log'[r].admittedAt = log[r].admittedAt
      BY <1>0, <2>0, <3>1 DEF Logs
    <3>3. Outcome(r)' = "ack_received"
      BY <2>0, <3>2 DEF Outcome, Admitted
    <3>4. /\ PromisedStatus' = [PromisedStatus EXCEPT ![r] = "ack_received"]
          /\ PromisedSends' = PromisedSends
      BY <3>1, <3>2, <3>3, OneChanges DEF PromisedSends
    <3>5. Promise!End(r)
      BY <2>0, <3>4, PromiseSteps DEF Ok, Statuses
    <3> QED BY <3>5 DEF Promise!Next
  <2>2. CASE ~Ok
    BY <1>same, <1>7, <2>0, <2>2 DEF MockAckFires, Ok
  <2> QED BY <2>1, <2>2
<1>8. ASSUME NEW r \in Requests, TimeoutFires(r) PROVE [Promise!Next]_(Promise!vars)
  BY <1>same, <1>8 DEF TimeoutFires, World, Ok
<1>9. ASSUME NEW r \in Requests, WorkerAcked(r) PROVE [Promise!Next]_(Promise!vars)
  <2>1. job[r].pc = "wait" /\ life' = life
    BY <1>9 DEF WorkerAcked, World
  <2>2. log[r].sends > 0
    BY <1>0, <2>1 DEF At, Count, Jobs
  <2> QED BY <1>9, <1>end, <2>1, <2>2 DEF WorkerAcked, Statuses
<1>10. ASSUME NEW r \in Requests, WorkerGivesUp(r) PROVE [Promise!Next]_(Promise!vars)
  BY <1>same, <1>10 DEF WorkerGivesUp, Stop, World, Ok
<1>11. ASSUME NEW r \in Requests, OnAckTimeout(r) PROVE [Promise!Next]_(Promise!vars)
  <2>1. job[r].pc = "timedout" /\ life' = life
    BY <1>11 DEF OnAckTimeout, World
  <2>2. CASE Finish(r, "retry_exhausted") /\ job[r].retry >= MaxRetries
    <3>1. log[r].sends = MaxRetries + 1
      BY <1>0, <2>1, <2>2 DEF At, Count, Jobs
    <3> QED BY <1>end, <2>1, <2>2, <3>1 DEF Statuses
  <2>3. CASE ~(Finish(r, "retry_exhausted") /\ job[r].retry >= MaxRetries)
    BY <1>same, <1>11, <2>1, <2>3 DEF OnAckTimeout, Ok
  <2> QED BY <2>2, <2>3
<1>12. CASE Lifecycle
  <2>1. CASE Signal
    <3>1. log' = log /\ Ok /\ ~Ok'
      BY <1>12, <2>1 DEF Lifecycle, Signal, Ok
    <3> QED BY <3>1, SameLogSamePromise
            DEF Promise!Next, Promise!GoDown, PromisedStatus, PromisedSends
  <2>2. CASE ~Signal
    BY <1>12, <1>same, <2>2
    DEF Lifecycle, StartDestructor, CloseThreads, JoinThreads, Ok
  <2> QED BY <2>1, <2>2
<1>13. CASE PeerAck \/ Tick \/ UNCHANGED vars
  BY <1>13, <1>same DEF PeerAck, Tick, World, vars, Ok
<1> QED
  BY <1>1, <1>2, <1>3, <1>4, <1>5, <1>6, <1>7, <1>8, <1>9, <1>10, <1>11, <1>12, <1>13
  DEF Next, Callback, Thread, Terminated

\* If the dedup window covers the admissible life of a command, everything the
\* bridge does is allowed by the abstract command lifecycle: one acceptance per
\* command, at most MaxRetries + 1 sends, one outcome, an acknowledgement only
\* of a sent command, exhaustion only after every retry.
THEOREM ImplementsLifecycle ==
  ASSUME WindowCoversLife
  PROVE  Spec => Promise!Init /\ [][Promise!Next]_(Promise!vars)
<1> DEFINE I == TypeOK /\ PlaceInv /\ AdmissionInv
<1>1. Init => I
  BY InitType, InitPlace, InitAdmission
<1>2. I /\ [Next]_vars => I'
  BY StepType, StepPlace, StepAdmission
<1>3. I => AdmittedOnce
  BY OnceAdmitted
<1>4. I /\ AdmittedOnce' /\ [Next]_vars => [Promise!Next]_(Promise!vars)
  BY StepPromise
<1> QED BY <1>1, <1>2, <1>3, <1>4, InitPromise, PTL DEF Spec
=============================================================================
