------------------------------ MODULE Planner ------------------------------
(***************************************************************************)
(* The planner (vlm_planner_pkg/src/vlm_planner_node.py, with admission,   *)
(* recording and replay_client of planner_clients): a camera frame becomes *)
(* a model request, which is admitted, queued, answered by a backend and   *)
(* then either published as one command or abstained from.  Every result   *)
(* is appended to a recording, from which a later session can replay.      *)
(*                                                                         *)
(* A member of Frames is one DELIVERY of a camera frame.  Frame callbacks  *)
(* exclude each other (MutuallyExclusiveCallbackGroup), so one frame is    *)
(* handled at a time.  A session is one run of the process: it can die at  *)
(* any step, and only the recording outlives it.                           *)
(***************************************************************************)
EXTENDS Integers, Sequences, FiniteSets

CONSTANTS
  Frames, NoFrame,
  Key,           \* trace_id, oracle_id and sequence_id: request_id within a session
  Stamp,         \* header.timestamp_ns, the time of the observation
  Named,         \* the identity is present and the stamp is positive
  Input,         \* input_fingerprint: what the model is shown
  Ttl, Skew, Window,           \* observation_ttl_ms and _max_future_skew_ms, model_dedup_window_ms
  FailureWindow, MaxFailures,  \* model_failure_window_ms, model_failure_storm_count
  Backends,      \* what planner_backend selects at a start
  ValidDecisions, InvalidDecisions,  \* validate_decision accepts, refuses
  RecordFaults,  \* an append to the recording may fail
  MaxSessions, MaxTime               \* bounds of this model

ASSUME FramesAssumption ==
  /\ NoFrame \notin Frames
  /\ Stamp \in [Frames -> Int] /\ Named \in [Frames -> BOOLEAN]
  /\ DOMAIN Key = Frames /\ DOMAIN Input = Frames

\* The node's constructor raises outside these ranges.
Startable ==
  /\ Ttl \in Nat \ {0} /\ Skew \in Nat /\ Window \in Nat \ {0}
  /\ FailureWindow \in Nat \ {0} /\ MaxFailures \in Nat \ {0}

ASSUME SettingsAssumption ==
  /\ Startable
  /\ Backends \subseteq {"mock", "llm", "replay", "abstain"}
  /\ {"none", "error"} \cap (ValidDecisions \cup InvalidDecisions) = {}
  /\ ValidDecisions \cap InvalidDecisions = {}
  /\ RecordFaults \in BOOLEAN /\ MaxSessions \in Nat \ {0} /\ MaxTime \in Nat

VARIABLES
  now,           \* time.monotonic_ns()
  session,       \* number of the current session
  backend,       \* _active_backend
  loaded,        \* the rows the replay client read at its start
  admittedUntil, \* _admitted_until_ns: key -> expiry, or Absent
  failures,      \* _failure_timestamps_ns
  frame, pc,     \* the frame being handled and where _on_camera_frame is
  rows, file,    \* the recording, and whether it is "whole", "gapped" or "torn"
  log,           \* what became of each delivery (history)
  failedAt,      \* every backend failure of the session (history)
  storm          \* whether the last of them was reported as a storm (history)

vars == <<now, session, backend, loaded, admittedUntil, failures, frame, pc, rows, file,
          log, failedAt, storm>>

-----------------------------------------------------------------------------
Keys == {Key[f] : f \in Frames}
Absent == -1
Time == 0..MaxTime
Later(a, b) == IF a >= b THEN a ELSE b

Deadline(f) == Stamp[f] + Ttl
Expired(f) == now > Deadline(f)

\* A new ModelAdmission.
NothingAdmitted == [k \in Keys |-> Absent]

\* _purge_admitted.
Unexpired == [k \in Keys |-> IF admittedUntil[k] <= now THEN Absent ELSE admittedUntil[k]]

Admissible(f) == /\ Named[f]
                 /\ Stamp[f] <= now + Skew
                 /\ ~Expired(f)
                 /\ Unexpired[Key[f]] = Absent

\* _purge_failures pops from the front while the front is old enough.
PurgeKeepingBoundary(s) ==  \* mutant: < instead of <=
  LET Popped == {i \in DOMAIN s : \A j \in 1..i : s[j] < now - FailureWindow}
  IN  SubSeq(s, Cardinality(Popped) + 1, Len(s))
PurgeFailures(s) ==
  LET Popped == {i \in DOMAIN s : \A j \in 1..i : s[j] <= now - FailureWindow}
  IN  SubSeq(s, Cardinality(Popped) + 1, Len(s))

\* from_public_dict gives back what public_dict wrote.
ReadBack(i) == loaded[i].answer

\* ReplayPlannerClient: the one row with this input, or replay_miss.
Matches(f) == {i \in DOMAIN loaded : loaded[i].input = Input[f]}
ReplayedFirst(f) ==  \* mutant: the first of several matches
  IF Matches(f) = {} THEN "error"
  ELSE ReadBack(CHOOSE i \in Matches(f) : \A j \in Matches(f) : i <= j)
Replayed(f) ==
  IF \E i \in Matches(f) : Matches(f) = {i}
  THEN ReadBack(CHOOSE i \in Matches(f) : TRUE)
  ELSE "error"

\* plan_with_request: whatever plan raises is a result without a decision.
Guarded(decisions) == decisions \cup {"error"}

\* What the LLM client decodes has an allowed action and numbers in range; it
\* may still be a stop that moves.
Decoded == ValidDecisions \cup InvalidDecisions

\* An image the model cannot be shown, a timeout, the network, an HTTP status
\* or a body that is no decision: each raises.
LlmAnswers == Guarded(Decoded)

\* The mock client knows one decision and no failure.
MockAnswers == ValidDecisions

\* What backend.plan_with_request may return for f.
Answers(f) ==
  CASE backend = "llm" -> LlmAnswers
    [] backend = "mock" -> MockAnswers
    [] backend = "replay" -> {Replayed(f)}
    [] OTHER -> {"error"}

\* _record_model_result: an OSError is logged and the row is gone, or half
\* written, after which no later read of the file succeeds.
Record(f, answer) ==
  \/ /\ rows' = Append(rows, [input |-> Input[f], answer |-> answer])
     /\ UNCHANGED file
  \/ /\ RecordFaults
     /\ UNCHANGED rows
     /\ \/ file' = "torn"
        \/ file' = IF file = "torn" THEN "torn" ELSE "gapped"

-----------------------------------------------------------------------------
Init ==
  /\ now = 0 /\ session = 1 /\ loaded = << >> /\ rows = << >> /\ file = "whole"
  /\ backend \in Backends \ {"replay"}  \* nothing is recorded yet
  /\ admittedUntil = NothingAdmitted /\ failures = << >>
  /\ frame = NoFrame /\ pc = "idle"
  /\ log = [f \in Frames |-> [outcome |-> "new", session |-> 0, admitted |-> FALSE,
                              answer |-> "none", by |-> "none"]]
  /\ failedAt = << >> /\ storm = FALSE

Process == <<session, backend, loaded>>
Recording == <<rows, file>>
Failing == <<failures, failedAt, storm>>

\* The callback of f is over.
End(f, outcome) ==
  /\ frame' = NoFrame /\ pc' = "idle"
  /\ log' = [log EXCEPT ![f].outcome = outcome, ![f].by = backend]

\* The frame arrives and ModelAdmission.admit decides, all at one reading of
\* the clock.  Mutant: the window runs from the admission.
ReceiveWindowFromNow(f) ==
  /\ frame = NoFrame /\ log[f].outcome = "new"
  /\ frame' = f
  /\ IF Admissible(f)
     THEN /\ pc' = "queue"
          /\ admittedUntil' = [Unexpired EXCEPT ![Key[f]] = now + Window]
          /\ log' = [log EXCEPT ![f].outcome = "handled", ![f].session = session,
                                ![f].admitted = TRUE]
     ELSE /\ pc' = "reject"
          /\ admittedUntil' = Unexpired
          /\ log' = [log EXCEPT ![f].outcome = "handled", ![f].session = session]
  /\ UNCHANGED <<now, Process, Recording, Failing>>
Receive(f) ==
  /\ frame = NoFrame /\ log[f].outcome = "new"
  /\ frame' = f
  /\ \/ /\ Admissible(f)
        /\ pc' = "queue"
        /\ admittedUntil' = [Unexpired EXCEPT ![Key[f]] = Later(Deadline(f), now) + Window]
        /\ log' = [log EXCEPT ![f].outcome = "handled", ![f].session = session,
                              ![f].admitted = TRUE]
     \/ /\ ~Admissible(f)
        /\ pc' = "reject"
        /\ admittedUntil' = Unexpired
        /\ log' = [log EXCEPT ![f].outcome = "handled", ![f].session = session]
  /\ UNCHANGED <<now, Process, Recording, Failing>>

\* _reject_without_model records the rejection and abstains.
Reject(f) ==
  /\ frame = f /\ pc = "reject"
  /\ Record(f, "error")
  /\ frame' = NoFrame /\ pc' = "idle"
  /\ log' = [log EXCEPT ![f].outcome = "abstained", ![f].by = backend, ![f].answer = "error"]
  /\ UNCHANGED <<now, Process, admittedUntil, Failing>>

\* After the queue delay.  Mutant: an expired request is dropped without a word.
LeaveQueueSilently(f) ==
  /\ frame = f /\ pc = "queue"
  /\ \/ Expired(f) /\ pc' = "idle" /\ frame' = NoFrame
     \/ ~Expired(f) /\ pc' = "plan" /\ UNCHANGED frame
  /\ UNCHANGED <<now, Process, admittedUntil, Recording, Failing, log>>
LeaveQueue(f) ==
  /\ frame = f /\ pc = "queue"
  /\ \/ Expired(f) /\ pc' = "reject"
     \/ ~Expired(f) /\ pc' = "plan"
  /\ UNCHANGED <<now, Process, admittedUntil, frame, Recording, Failing, log>>

\* _plan: the backend answers, any time later, and the answer is recorded.
Plan(f) ==
  /\ frame = f /\ pc = "plan"
  /\ \E a \in Answers(f) :
       /\ Record(f, a)
       /\ log' = [log EXCEPT ![f].answer = a]
  /\ pc' = "check"
  /\ UNCHANGED <<now, Process, admittedUntil, frame, Failing>>

\* validate_decision.
Refused(decision) == decision \in InvalidDecisions

\* From planning_finished_ns to the end of the callback.
NoteBackendFailure ==
  /\ failures' = Append(PurgeFailures(failures), now)
  /\ storm' = (Len(failures') >= MaxFailures)
  /\ failedAt' = Append(failedAt, now)

Finish(f) ==
  /\ frame = f /\ pc = "check"
  /\ \/ Expired(f) /\ End(f, "abstained") /\ UNCHANGED Failing
     \/ /\ ~Expired(f) /\ log[f].answer = "error"
        /\ End(f, "abstained")
        /\ NoteBackendFailure
     \/ /\ ~Expired(f) /\ log[f].answer # "error" /\ Refused(log[f].answer)
        /\ End(f, "abstained") /\ UNCHANGED Failing
     \/ /\ ~Expired(f) /\ log[f].answer # "error" /\ ~Refused(log[f].answer)
        /\ End(f, "published") /\ UNCHANGED Failing
  /\ UNCHANGED <<now, Process, admittedUntil, Recording>>

\* read_records raises at a line that is no whole record.
Unreadable == file = "torn"

\* _configure_backend: no recording, or an unreadable one, like any unusable
\* configuration, makes the process abstain from everything.
Configured(b) == IF b = "replay" /\ (Unreadable \/ rows = << >>) THEN "abstain" ELSE b

\* The process dies and a new one starts.
Restart ==
  /\ session < MaxSessions
  /\ session' = session + 1
  /\ \E b \in Backends : backend' = Configured(b)
  /\ loaded' = IF backend' = "replay" THEN rows ELSE << >>
  /\ admittedUntil' = NothingAdmitted
  /\ failures' = << >> /\ failedAt' = << >> /\ storm' = FALSE
  /\ frame' = NoFrame /\ pc' = "idle"
  /\ log' = [f \in Frames |->
               IF f = frame THEN [log[f] EXCEPT !.outcome = "lost"] ELSE log[f]]
  /\ UNCHANGED <<now, Recording>>

Tick == now < MaxTime /\ now' = now + 1
        /\ UNCHANGED <<Process, admittedUntil, Failing, frame, pc, Recording, log>>

Handle(f) == Reject(f) \/ LeaveQueue(f) \/ Plan(f) \/ Finish(f)

Next == Restart \/ Tick \/ \E f \in Frames : Receive(f) \/ Handle(f)

Spec == Init /\ [][Next]_vars

\* The executor thread runs on, and the backend call returns (llm_timeout_s).
Fairness == \A f \in Frames : WF_vars(Handle(f))
FairSpec == Spec /\ Fairness

-----------------------------------------------------------------------------
AllAnswers == ValidDecisions \cup InvalidDecisions \cup {"error"}
Outcomes == {"new", "handled", "lost", "abstained", "published"}
BackendKinds == {"mock", "llm", "replay", "abstain"}
Rows == [input : {Input[f] : f \in Frames}, answer : AllAnswers]
Logs == [outcome : Outcomes, session : 0..MaxSessions, admitted : BOOLEAN,
         answer : AllAnswers \cup {"none"}, by : BackendKinds \cup {"none"}]

TypeOK ==
  /\ now \in Time /\ session \in 1..MaxSessions /\ backend \in BackendKinds
  /\ loaded \in Seq(Rows) /\ rows \in Seq(Rows) /\ file \in {"whole", "gapped", "torn"}
  /\ admittedUntil \in [Keys -> Int]
  /\ failures \in Seq(Time) /\ failedAt \in Seq(Time) /\ storm \in BOOLEAN
  /\ frame \in Frames \cup {NoFrame}
  /\ pc \in {"idle", "reject", "queue", "plan", "check"}
  /\ log \in [Frames -> Logs]

\* An observation that is delivered twice goes to the model once in a session,
\* for every length of the dedup window: its entry outlives its deadline.
PlannedOnce ==
  \A f, g \in Frames :
    /\ f # g /\ Key[f] = Key[g] /\ Stamp[f] = Stamp[g]
    /\ log[f].session = log[g].session
    => ~(log[f].admitted /\ log[g].admitted)

\* planner_fallback_storm is reported with a failure exactly if that failure
\* is at least the MaxFailures-th of the last FailureWindow.
StormExact ==
  failedAt # << >> =>
    LET last == failedAt[Len(failedAt)]
        recent == {i \in DOMAIN failedAt : failedAt[i] > last - FailureWindow}
    IN  storm <=> Cardinality(recent) >= MaxFailures

\* A replayed command repeats what an earlier session answered for the same
\* input; and unless rows were lost, that input was handled only once before:
\* a duplicate, a rejection or a conflicting answer makes the replay abstain.
Earlier(g) == {f \in Frames : /\ log[f].session < log[g].session
                              /\ Input[f] = Input[g]
                              /\ log[f].answer # "none"}
ReplayFaithful ==
  \A g \in Frames :
    log[g].outcome = "published" /\ log[g].by = "replay" =>
      /\ \E f \in Earlier(g) : log[f].answer = log[g].answer
      /\ file = "whole" => Cardinality(Earlier(g)) = 1

\* Every frame a session starts on ends in a command or in an abstention, or
\* the session dies first.
FrameAnswered ==
  \A f \in Frames :
    frame = f ~> log[f].outcome \in {"abstained", "published", "lost"}
=============================================================================
