----------------------------- MODULE CppPlanner -----------------------------
(***************************************************************************)
(* The C++ planner node (vlm_planner_cpp_pkg, with model_admission,        *)
(* model_contract and the mock client of cpp_core/planner), the twin of    *)
(* the Python node that Planner describes.  It differs in three ways: its  *)
(* clock readings, deadlines and expiries are int64 and saturate, every    *)
(* backend but the mock is replaced by abstention, and nothing is          *)
(* recorded or replayed.                                                   *)
(*                                                                         *)
(* The mock's one decision passes validate_decision, so the branch that    *)
(* refuses a decision is not reached.  The contention timer only burns     *)
(* time in a callback group of its own.  request_id is a hash of session,  *)
(* trace_id, oracle_id and sequence_id; Key takes it to be injective.      *)
(***************************************************************************)
EXTENDS Integers, Sequences, FiniteSets

CONSTANTS
  Frames, NoFrame,
  Key, Stamp, Named,           \* as in Planner
  Ttl, Skew, Window, FailureWindow, MaxFailures,
  Requested,                   \* what planner_backend may ask for
  MaxInt,                      \* the largest int64
  MaxSessions, MaxTime         \* bounds of this model

\* Outside these ranges the constructors throw.  A ttl is positive, of any
\* length: saturating_deadline takes it in milliseconds.
Startable ==
  /\ Ttl \in Nat \ {0} /\ Skew \in 0..MaxInt
  /\ Window \in 1..MaxInt /\ FailureWindow \in 1..MaxInt
  /\ MaxFailures \in Nat \ {0}

\* What an int64 can hold: a stamp, and a clock that has not run out.
Representable ==
  /\ \A f \in Frames : Stamp[f] \in (-MaxInt - 1)..MaxInt /\ (Named[f] => Stamp[f] > 0)
  /\ MaxTime \in Nat /\ MaxTime < MaxInt

VARIABLES
  now, session, backend,       \* as in Planner; backend is backend_selection_.active
  admittedUntil,               \* admitted_until_ns_
  failures,                    \* failure_timestamps_ns_
  frame, pc,                   \* the frame being handled and where on_camera_frame is
  log, failedAt, storm,        \* histories, as in Planner
  exact                        \* admitted_until_ns_ without a largest integer (history)

vars == <<now, session, backend, admittedUntil, failures, frame, pc, log, failedAt, storm, exact>>

-----------------------------------------------------------------------------
Keys == {Key[f] : f \in Frames}
Absent == -1
Later(a, b) == IF a >= b THEN a ELSE b

WrappingAdd(a, b) ==  \* mutant: plain int64 addition, which wraps in the build
  ((a + b + MaxInt + 1) % (2 * MaxInt + 2)) - (MaxInt + 1)
SaturatingAdd(a, b) ==
  CASE a + b > MaxInt -> MaxInt
    [] a + b < -MaxInt - 1 -> -MaxInt - 1
    [] OTHER -> a + b

\* saturating_deadline.
Deadline(f) == SaturatingAdd(Stamp[f], Ttl)
Expired(f) == Deadline(f) > 0 /\ now > Deadline(f)

\* purge_admitted, of the map and of its history.
Purged(until) == [k \in Keys |-> IF until[k] <= now THEN Absent ELSE until[k]]

\* ModelAdmission::admit gives no reason against f.
Admissible(f) == /\ Named[f]
                 /\ Stamp[f] <= SaturatingAdd(now, Skew)
                 /\ ~Expired(f)
                 /\ Purged(admittedUntil)[Key[f]] = Absent

\* purge_failures.
PurgeFailures(s) ==
  LET Popped == {i \in DOMAIN s :
                   \A j \in 1..i : s[j] <= SaturatingAdd(now, -FailureWindow)}
  IN  SubSeq(s, Cardinality(Popped) + 1, Len(s))

\* select_backend: only the mock is implemented.
Selected(b) == IF b = "mock" THEN "mock" ELSE "abstain"

\* plan: the mock's one decision, or a configuration error.
Answer == IF backend = "mock" THEN "forward" ELSE "error"

-----------------------------------------------------------------------------
Fresh == [outcome |-> "new", session |-> 0, admitted |-> FALSE, answer |-> "none", by |-> "none"]
NothingAdmitted == [k \in Keys |-> Absent]

Init ==
  /\ now = 0 /\ session = 1 /\ backend \in {Selected(b) : b \in Requested}
  /\ admittedUntil = NothingAdmitted /\ exact = NothingAdmitted /\ failures = << >>
  /\ frame = NoFrame /\ pc = "idle"
  /\ log = [f \in Frames |-> Fresh]
  /\ failedAt = << >> /\ storm = FALSE

Process == <<session, backend>>
Admitted == <<admittedUntil, exact>>
Failing == <<failures, failedAt, storm>>

\* The start of on_camera_frame, all at one reading of the clock.
Receive(f) ==
  /\ frame = NoFrame /\ log[f].outcome = "new"
  /\ frame' = f
  /\ \/ /\ Admissible(f) /\ pc' = "queue"
        /\ admittedUntil' = [Purged(admittedUntil) EXCEPT
                               ![Key[f]] = SaturatingAdd(Later(Deadline(f), now), Window)]
        /\ exact' = [Purged(exact) EXCEPT ![Key[f]] = Later(Stamp[f] + Ttl, now) + Window]
     \/ /\ ~Admissible(f) /\ pc' = "reject"
        /\ admittedUntil' = Purged(admittedUntil) /\ exact' = Purged(exact)
  /\ log' = [log EXCEPT ![f].outcome = "handled", ![f].session = session,
                        ![f].admitted = (pc' = "queue")]
  /\ UNCHANGED <<now, Process, Failing>>

\* The callback of f is over.
End(f, outcome, answer) ==
  /\ frame' = NoFrame /\ pc' = "idle"
  /\ log' = [log EXCEPT ![f].outcome = outcome, ![f].by = backend, ![f].answer = answer]

\* reject_without_model.
Reject(f) ==
  /\ frame = f /\ pc = "reject"
  /\ End(f, "abstained", "error")
  /\ UNCHANGED <<now, Process, Admitted, Failing>>

\* output_allowed after the controlled queue delay.
LeaveQueue(f) ==
  /\ frame = f /\ pc = "queue"
  /\ \/ Expired(f) /\ pc' = "reject"
     \/ ~Expired(f) /\ pc' = "plan"
  /\ UNCHANGED <<now, Process, Admitted, frame, log, Failing>>

Plan(f) ==
  /\ frame = f /\ pc = "plan"
  /\ pc' = "check"
  /\ log' = [log EXCEPT ![f].answer = Answer]
  /\ UNCHANGED <<now, Process, Admitted, frame, Failing>>

NoteBackendFailure ==
  /\ failures' = Append(PurgeFailures(failures), now)
  /\ storm' = (Len(failures') >= MaxFailures)
  /\ failedAt' = Append(failedAt, now)

\* From finished_ns to the end of on_camera_frame.
Finish(f) ==
  /\ frame = f /\ pc = "check"
  /\ \/ /\ Expired(f)
        /\ End(f, "abstained", log[f].answer)
        /\ UNCHANGED Failing
     \/ /\ ~Expired(f) /\ log[f].answer = "error"
        /\ End(f, "abstained", "error")
        /\ NoteBackendFailure
     \/ /\ ~Expired(f) /\ log[f].answer # "error"
        /\ End(f, "published", log[f].answer)
        /\ UNCHANGED Failing
  /\ UNCHANGED <<now, Process, Admitted>>

\* The process dies and a new one starts.
Restart ==
  /\ session < MaxSessions
  /\ session' = session + 1
  /\ \E b \in Requested : backend' = Selected(b)
  /\ admittedUntil' = NothingAdmitted /\ exact' = NothingAdmitted
  /\ failures' = << >> /\ failedAt' = << >> /\ storm' = FALSE
  /\ frame' = NoFrame /\ pc' = "idle"
  /\ log' = [f \in Frames |->
               IF f = frame THEN [log[f] EXCEPT !.outcome = "lost"] ELSE log[f]]
  /\ UNCHANGED now

Tick == now < MaxTime /\ now' = now + 1
        /\ UNCHANGED <<Process, Admitted, Failing, frame, pc, log>>

Handle(f) == Reject(f) \/ LeaveQueue(f) \/ Plan(f) \/ Finish(f)
Next == Restart \/ Tick \/ \E f \in Frames : Receive(f) \/ Handle(f)

-----------------------------------------------------------------------------
TypeOK ==
  /\ now \in 0..MaxTime /\ session \in 1..MaxSessions /\ backend \in {"mock", "abstain"}
  /\ admittedUntil \in [Keys -> -1..MaxInt] /\ exact \in [Keys -> Int]
  /\ failures \in Seq(0..MaxTime) /\ failedAt \in Seq(0..MaxTime) /\ storm \in BOOLEAN
  /\ frame \in Frames \cup {NoFrame}
  /\ pc \in {"idle", "reject", "queue", "plan", "check"}
  /\ DOMAIN log = Frames

\* The Python node with unbounded integers, of which every append to the
\* recording fails, so that the file misses whatever was answered.
Python == INSTANCE Planner WITH
  admittedUntil <- exact,
  Backends <- {"mock", "abstain"},
  ValidDecisions <- {"forward"}, InvalidDecisions <- {},
  Input <- Key, RecordFaults <- TRUE,
  loaded <- << >>, rows <- << >>,
  file <- IF \E f \in Frames : log[f].answer # "none" THEN "gapped" ELSE "whole"

LikePython == [Python!Next]_(Python!vars)
=============================================================================
