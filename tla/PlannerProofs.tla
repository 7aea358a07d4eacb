--------------------------- MODULE PlannerProofs ---------------------------
(***************************************************************************)
(* Proofs about Planner.  The inductive invariant says that a request      *)
(* admitted in the current session is remembered at least until its        *)
(* deadline has passed, after which the request is refused as expired.     *)
(***************************************************************************)
EXTENDS Planner, FiniteSetTheorems, WellFoundedInduction, TLAPS

Remembered ==
  \A f \in Frames :
    log[f].admitted /\ log[f].session = session =>
      admittedUntil[Key[f]] > Deadline(f) \/ now > Deadline(f)

Chronological ==
  \A f \in Frames :
    /\ log[f].session <= session
    /\ log[f].outcome = "new" => ~log[f].admitted

AdmissionInv == TypeOK /\ Remembered /\ Chronological /\ PlannedOnce

-----------------------------------------------------------------------------
\* The constants, spelled out.
LEMMA Settings ==
  /\ Ttl \in Nat \ {0} /\ Skew \in Nat /\ Window \in Nat \ {0}
  /\ FailureWindow \in Nat \ {0} /\ MaxFailures \in Nat \ {0}
  /\ Backends \subseteq {"mock", "llm", "replay", "abstain"}
  /\ {"none", "error"} \cap (ValidDecisions \cup InvalidDecisions) = {}
  /\ ValidDecisions \cap InvalidDecisions = {}
  /\ RecordFaults \in BOOLEAN /\ MaxSessions \in Nat \ {0} /\ MaxTime \in Nat
  BY SettingsAssumption DEF Startable

\* A purged map is a map, and keeps what has not expired.
LEMMA UnexpiredType ==
  ASSUME TypeOK
  PROVE  /\ Unexpired \in [Keys -> Int]
         /\ \A k \in Keys : Unexpired[k] = admittedUntil[k] \/ admittedUntil[k] <= now
  BY DEF TypeOK, Unexpired, Absent, Time, Keys

LEMMA DeadlineType == \A f \in Frames : Deadline(f) \in Int /\ Key[f] \in Keys
  BY FramesAssumption, Settings DEF Deadline, Keys

LEMMA PurgeKeeps ==
  ASSUME TypeOK, NEW g \in Frames,
         admittedUntil[Key[g]] > Deadline(g) \/ now > Deadline(g)
  PROVE  Unexpired[Key[g]] > Deadline(g) \/ now > Deadline(g)
  <1>1. now \in Int /\ Deadline(g) \in Int /\ Key[g] \in Keys
    BY DeadlineType, Settings DEF TypeOK, Time
  <1>2. admittedUntil[Key[g]] \in Int
    BY <1>1 DEF TypeOK
  <1>3. Unexpired[Key[g]] = admittedUntil[Key[g]] \/ admittedUntil[Key[g]] <= now
    BY <1>1, UnexpiredType
  <1>. QED  BY <1>1, <1>2, <1>3

\* Appending a row keeps the recording well typed, whatever happens to it.
LEMMA RecordType ==
  ASSUME TypeOK, NEW f \in Frames, NEW a \in AllAnswers, Record(f, a)
  PROVE  rows' \in Seq(Rows) /\ file' \in {"whole", "gapped", "torn"}
  <1>. DEFINE row == [input |-> Input[f], answer |-> a]
  <1>1. row \in Rows
    BY DEF Rows
  <1>2. \/ rows' = Append(rows, row) /\ UNCHANGED file
        \/ UNCHANGED rows /\ file' \in {"torn", "gapped"}
    BY DEF Record
  <1>. HIDE DEF row
  <1>3. CASE rows' = Append(rows, row) /\ UNCHANGED file
    BY <1>1, <1>3 DEF TypeOK
  <1>4. CASE UNCHANGED rows /\ file' \in {"torn", "gapped"}
    BY <1>4 DEF TypeOK
  <1>. QED  BY <1>2, <1>3, <1>4

\* Every backend answers with a known answer.
LEMMA AnswersType ==
  ASSUME TypeOK, NEW f \in Frames
  PROVE  Answers(f) \subseteq AllAnswers
  <1>1. Replayed(f) \in AllAnswers
    <2>1. CASE \E i \in Matches(f) : Matches(f) = {i}
      <3>1. PICK i \in Matches(f) : Matches(f) = {i}
        BY <2>1
      <3>2. (CHOOSE j \in Matches(f) : TRUE) \in Matches(f)
        BY <3>1
      <3>3. \A j \in Matches(f) : loaded[j] \in Rows
        BY DEF Matches, TypeOK
      <3>. QED  BY <2>1, <3>2, <3>3 DEF Replayed, ReadBack, Rows
    <2>2. CASE ~ \E i \in Matches(f) : Matches(f) = {i}
      BY <2>2 DEF Replayed, ReadBack, AllAnswers
    <2>. QED  BY <2>1, <2>2
  <1>2. CASE backend = "llm"
    BY <1>2 DEF Answers, LlmAnswers, Decoded, Guarded, AllAnswers
  <1>3. CASE backend = "mock"
    BY <1>3 DEF Answers, MockAnswers, AllAnswers
  <1>4. CASE backend = "replay"
    BY <1>1, <1>4 DEF Answers
  <1>5. CASE backend \notin {"llm", "mock", "replay"}
    BY <1>5 DEF Answers, AllAnswers
  <1>. QED  BY <1>2, <1>3, <1>4, <1>5

\* Popping from the front of the failure deque leaves a deque of times.
LEMMA PurgeType ==
  ASSUME TypeOK
  PROVE  PurgeFailures(failures) \in Seq(Time)
  <1>. DEFINE P == {i \in DOMAIN failures :
                      \A j \in 1..i : failures[j] <= now - FailureWindow}
  <1>1. IsFiniteSet(1..Len(failures))
    BY FS_Interval DEF TypeOK
  <1>2. P \subseteq 1..Len(failures)
    BY DEF TypeOK
  <1>3. Cardinality(P) \in Nat
    BY <1>1, <1>2, FS_Subset, FS_CardinalityType
  <1>. HIDE DEF P
  <1>4. SubSeq(failures, Cardinality(P) + 1, Len(failures)) \in Seq(Time)
    BY <1>3 DEF TypeOK
  <1>. QED  BY <1>4 DEF PurgeFailures, P
-----------------------------------------------------------------------------
LEMMA SessionType == TypeOK => session \in 0..MaxSessions
  BY Settings DEF TypeOK

LEMMA InitAdmission == Init => AdmissionInv
  <1>. SUFFICES ASSUME Init PROVE AdmissionInv
    OBVIOUS
  <1>1. backend \in BackendKinds
    BY Settings DEF Init, NothingAdmitted, BackendKinds
  <1>2. [outcome |-> "new", session |-> 0, admitted |-> FALSE,
         answer |-> "none", by |-> "none"] \in Logs
    BY Settings DEF Logs, Outcomes, AllAnswers, BackendKinds
  <1>3. TypeOK
    <2>1. log \in [Frames -> Logs]
      BY <1>2 DEF Init, NothingAdmitted
    <2>2. admittedUntil \in [Keys -> Int]
      BY DEF Init, NothingAdmitted, Absent
    <2>3. now \in Time /\ session \in 1..MaxSessions
      BY Settings DEF Init, NothingAdmitted, Time
    <2>4. /\ loaded \in Seq(Rows) /\ rows \in Seq(Rows)
          /\ failures \in Seq(Time) /\ failedAt \in Seq(Time)
      BY DEF Init, NothingAdmitted
    <2>. QED  BY <1>1, <2>1, <2>2, <2>3, <2>4 DEF Init, NothingAdmitted, TypeOK
  <1>. QED
    BY <1>3, Settings
    DEF Init, NothingAdmitted, AdmissionInv, Remembered, Chronological, PlannedOnce

LEMMA ReceiveStep ==
  ASSUME AdmissionInv, NEW f \in Frames, Receive(f)
  PROVE  AdmissionInv'
  <1>. USE DEF AdmissionInv
  <1>1. /\ now' = now /\ session' = session
        /\ UNCHANGED <<backend, loaded, rows, file, failures, failedAt, storm>>
    BY DEF Receive, Process, Recording, Failing
  <1>2. log[f] \in Logs /\ log[f].outcome = "new" /\ ~log[f].admitted
    BY DEF Receive, TypeOK, Chronological
  <1>3. CASE Admissible(f)
    <2>1. \E u \in Int :
             /\ u > Deadline(f)
             /\ admittedUntil' = [Unexpired EXCEPT ![Key[f]] = u]
      <3>1. Later(Deadline(f), now) + Window \in Int
            /\ Later(Deadline(f), now) + Window > Deadline(f)
        BY DeadlineType, Settings DEF Later, TypeOK, Time
      <3>. QED  BY <1>3, <3>1 DEF Receive
    <2>2. PICK u \in Int : /\ u > Deadline(f)
                           /\ admittedUntil' = [Unexpired EXCEPT ![Key[f]] = u]
      BY <2>1
    <2>3. log' = [log EXCEPT ![f] = [log[f] EXCEPT !.outcome = "handled",
                                       !.session = session, !.admitted = TRUE]]
      BY <1>2, <1>3 DEF Receive, TypeOK
    <2>4. [log[f] EXCEPT !.outcome = "handled", !.session = session, !.admitted = TRUE]
            \in Logs
      BY <1>2, SessionType DEF Logs, Outcomes
    <2>5. TypeOK'
      BY <1>1, <1>3, <2>2, <2>3, <2>4, UnexpiredType, DeadlineType DEF Receive, TypeOK
    <2>6. admittedUntil'[Key[f]] > Deadline(f) /\ now <= Deadline(f)
          /\ admittedUntil[Key[f]] <= now
      <3>1. Unexpired[Key[f]] = Absent /\ now <= Deadline(f)
        BY <1>3, DeadlineType DEF Admissible, Expired, TypeOK, Time
      <3>. QED
        BY <2>2, <3>1, UnexpiredType, DeadlineType DEF TypeOK, Absent, Time
    <2>7. \A g \in Frames : log[g] \in Logs /\ log'[g] \in Logs
      BY <2>5 DEF TypeOK
    <2>8. Remembered'
      <3>1. ASSUME NEW g \in Frames, log'[g].admitted, log'[g].session = session
            PROVE  admittedUntil'[Key[g]] > Deadline(g) \/ now > Deadline(g)
        <4>1. CASE g = f
          BY <2>6, <4>1
        <4>2. CASE g # f
          <5>1. admittedUntil[Key[g]] > Deadline(g) \/ now > Deadline(g)
            BY <2>3, <3>1, <4>2 DEF Remembered, TypeOK
          <5>2. CASE Key[g] = Key[f]
            BY <2>6, <5>1, <5>2, DeadlineType DEF TypeOK, Time
          <5>3. CASE Key[g] # Key[f]
            <6>1. admittedUntil'[Key[g]] = Unexpired[Key[g]]
              BY <2>2, <5>3, UnexpiredType, DeadlineType
            <6>. QED
              BY <5>1, <6>1, PurgeKeeps
          <5>. QED  BY <5>2, <5>3
        <4>. QED  BY <4>1, <4>2
      <3>. QED  BY <1>1, <3>1 DEF Remembered, Deadline
    <2>9. Chronological'
      BY <1>1, <2>3, <2>7, Settings DEF Chronological, TypeOK
    <2>10. PlannedOnce'
      <3>1. ASSUME NEW g \in Frames, g # f, Key[g] = Key[f], Stamp[g] = Stamp[f],
                   log[g].session = session, log[g].admitted
            PROVE  FALSE
        <4>1. Deadline(g) = Deadline(f)
          BY <3>1 DEF Deadline
        <4>2. admittedUntil[Key[f]] > Deadline(f) \/ now > Deadline(f)
          BY <3>1, <4>1 DEF Remembered
        <4>. QED
          BY <2>6, <4>2, DeadlineType DEF TypeOK, Time
      <3>2. \A g \in Frames : g # f => log'[g] = log[g]
        BY <2>3 DEF TypeOK
      <3>3. log'[f].session = session
        BY <1>2, <2>3 DEF TypeOK, Logs
      <3>. QED
        BY <3>1, <3>2, <3>3 DEF PlannedOnce
    <2>. QED  BY <2>5, <2>8, <2>9, <2>10
  <1>4. CASE ~Admissible(f)
    <2>1. log' = [log EXCEPT ![f] = [log[f] EXCEPT !.outcome = "handled",
                                       !.session = session]]
      BY <1>2, <1>4 DEF Receive, TypeOK
    <2>2. [log[f] EXCEPT !.outcome = "handled", !.session = session] \in Logs
      BY <1>2, SessionType DEF Logs, Outcomes
    <2>3. admittedUntil' = Unexpired
      BY <1>4 DEF Receive
    <2>4. TypeOK'
      BY <1>1, <1>4, <2>1, <2>2, <2>3, UnexpiredType DEF Receive, TypeOK
    <2>5. /\ ~log'[f].admitted
          /\ \A g \in Frames : g # f => log'[g] = log[g]
      BY <1>2, <2>1 DEF TypeOK, Logs
    <2>6. Remembered'
      <3>1. ASSUME NEW g \in Frames, log'[g].admitted, log'[g].session = session
            PROVE  admittedUntil'[Key[g]] > Deadline(g) \/ now > Deadline(g)
        <4>1. admittedUntil[Key[g]] > Deadline(g) \/ now > Deadline(g)
          BY <2>5, <3>1 DEF Remembered
        <4>. QED
          BY <2>3, <4>1, PurgeKeeps
      <3>. QED  BY <1>1, <3>1 DEF Remembered, Deadline
    <2>7. Chronological'
      BY <1>1, <2>1, <2>4, <2>5, Settings DEF Chronological, TypeOK
    <2>8. PlannedOnce'
      BY <2>5 DEF PlannedOnce
    <2>. QED  BY <2>4, <2>6, <2>7, <2>8
  <1>. QED  BY <1>3, <1>4

\* A step that only moves a log entry of this session on keeps the invariant.
LEMMA EntryStep ==
  ASSUME AdmissionInv, NEW f \in Frames, NEW e \in Logs,
         log' = [log EXCEPT ![f] = e],
         e.session = log[f].session, e.admitted = log[f].admitted, e.outcome # "new",
         UNCHANGED <<now, session, admittedUntil>>, TypeOK'
  PROVE  AdmissionInv'
  <1>1. /\ \A g \in Frames : g # f => log'[g] = log[g]
        /\ log'[f] = e
    BY DEF AdmissionInv, TypeOK
  <1>2. Remembered'
    BY <1>1 DEF AdmissionInv, Remembered, Deadline
  <1>3. Chronological'
    BY <1>1 DEF AdmissionInv, Chronological
  <1>4. PlannedOnce'
    BY <1>1 DEF AdmissionInv, PlannedOnce
  <1>. QED  BY <1>2, <1>3, <1>4 DEF AdmissionInv

\* A step that leaves the log alone.
LEMMA SilentStep ==
  ASSUME AdmissionInv, UNCHANGED <<now, session, admittedUntil, log>>, TypeOK'
  PROVE  AdmissionInv'
  BY DEF AdmissionInv, Remembered, Chronological, PlannedOnce, Deadline

LEMMA RejectStep ==
  ASSUME AdmissionInv, NEW f \in Frames, Reject(f)
  PROVE  AdmissionInv'
  <1>. DEFINE e == [log[f] EXCEPT !.outcome = "abstained", !.by = backend,
                                  !.answer = "error"]
  <1>1. TypeOK /\ log[f] \in Logs /\ backend \in BackendKinds
    BY DEF AdmissionInv, TypeOK
  <1>2. e \in Logs
    BY <1>1 DEF Logs, Outcomes, AllAnswers
  <1>3. /\ e.session = log[f].session /\ e.admitted = log[f].admitted
        /\ e.outcome = "abstained"
    BY <1>1 DEF Logs
  <1>4. log' = [log EXCEPT ![f] = e]
    BY <1>1 DEF Reject, TypeOK
  <1>5. rows' \in Seq(Rows) /\ file' \in {"whole", "gapped", "torn"}
    <2>1. "error" \in AllAnswers
      BY DEF AllAnswers
    <2>. QED  BY <1>1, <2>1, RecordType DEF Reject
  <1>6. UNCHANGED <<now, session, backend, loaded, admittedUntil, failures, failedAt, storm>>
    BY DEF Reject, Process, Failing
  <1>. HIDE DEF e
  <1>7. TypeOK'
    BY <1>1, <1>2, <1>4, <1>5, <1>6 DEF TypeOK, Reject
  <1>. QED  BY <1>2, <1>3, <1>4, <1>6, <1>7, EntryStep

LEMMA PlanStep ==
  ASSUME AdmissionInv, NEW f \in Frames, Plan(f)
  PROVE  AdmissionInv'
  <1>1. TypeOK /\ log[f] \in Logs
    BY DEF AdmissionInv, TypeOK
  <1>2. PICK a \in Answers(f) : Record(f, a) /\ log' = [log EXCEPT ![f].answer = a]
    BY DEF Plan
  <1>3. a \in AllAnswers
    BY <1>1, <1>2, AnswersType
  <1>4. rows' \in Seq(Rows) /\ file' \in {"whole", "gapped", "torn"}
    BY <1>1, <1>2, <1>3, RecordType
  <1>5. [log[f] EXCEPT !.answer = a] \in Logs
    BY <1>1, <1>3 DEF Logs
  <1>6. UNCHANGED <<now, session, backend, loaded, admittedUntil, failures, failedAt, storm,
                    frame>> /\ pc' = "check"
    BY DEF Plan, Process, Failing
  <1>7. TypeOK'
    BY <1>1, <1>2, <1>4, <1>5, <1>6 DEF TypeOK
  <1>8. \A g \in Frames : /\ log'[g].session = log[g].session
                          /\ log'[g].admitted = log[g].admitted
                          /\ log'[g].outcome = log[g].outcome
    BY <1>1, <1>2 DEF TypeOK, Logs
  <1>. QED
    BY <1>6, <1>7, <1>8
    DEF AdmissionInv, Remembered, Chronological, PlannedOnce, Deadline

LEMMA FinishStep ==
  ASSUME AdmissionInv, NEW f \in Frames, Finish(f)
  PROVE  AdmissionInv'
  <1>1. TypeOK /\ log[f] \in Logs /\ backend \in BackendKinds
    BY DEF AdmissionInv, TypeOK
  <1>2. PICK o \in {"abstained", "published"} : End(f, o)
    BY DEF Finish
  <1>. DEFINE e == [log[f] EXCEPT !.outcome = o, !.by = backend]
  <1>3. e \in Logs
    BY <1>1 DEF Logs, Outcomes
  <1>4. e.session = log[f].session /\ e.admitted = log[f].admitted /\ e.outcome = o
    BY <1>1 DEF Logs
  <1>5. log' = [log EXCEPT ![f] = e]
    BY <1>1, <1>2 DEF End, TypeOK
  <1>6. UNCHANGED <<now, session, backend, loaded, admittedUntil, rows, file>>
    BY DEF Finish, Process, Recording
  <1>7. failures' \in Seq(Time) /\ failedAt' \in Seq(Time) /\ storm' \in BOOLEAN
    <2>1. CASE UNCHANGED Failing
      BY <1>1, <2>1 DEF Failing, TypeOK
    <2>2. CASE NoteBackendFailure
      <3>1. PurgeFailures(failures) \in Seq(Time) /\ now \in Time /\ failedAt \in Seq(Time)
        BY <1>1, PurgeType DEF TypeOK
      <3>2. storm' \in BOOLEAN
        BY <2>2 DEF NoteBackendFailure
      <3>. QED  BY <2>2, <3>1, <3>2 DEF NoteBackendFailure
    <2>. QED  BY <2>1, <2>2 DEF Finish
  <1>. HIDE DEF e
  <1>8. TypeOK'
    BY <1>1, <1>2, <1>3, <1>5, <1>6, <1>7 DEF TypeOK, End
  <1>. QED  BY <1>3, <1>4, <1>5, <1>6, <1>8, EntryStep

LEMMA RestartStep ==
  ASSUME AdmissionInv, Restart
  PROVE  AdmissionInv'
  <1>1. TypeOK /\ session \in Int
    BY DEF AdmissionInv, TypeOK
  <1>2. \A f \in Frames :
          /\ log'[f] \in Logs
          /\ log'[f].session = log[f].session
          /\ log'[f].admitted = log[f].admitted
          /\ log'[f].outcome = "new" => log[f].outcome = "new"
    <2>1. ASSUME NEW f \in Frames
          PROVE  /\ [log[f] EXCEPT !.outcome = "lost"] \in Logs
                 /\ [log[f] EXCEPT !.outcome = "lost"].session = log[f].session
                 /\ [log[f] EXCEPT !.outcome = "lost"].admitted = log[f].admitted
                 /\ [log[f] EXCEPT !.outcome = "lost"].outcome = "lost"
      BY <1>1 DEF TypeOK, Logs, Outcomes
    <2>. QED  BY <1>1, <2>1 DEF Restart, NothingAdmitted, Configured, TypeOK
  <1>3. TypeOK'
    <2>1. log' \in [Frames -> Logs]
      BY <1>2 DEF Restart, NothingAdmitted, Configured
    <2>2. backend' \in BackendKinds
      BY Settings DEF Restart, NothingAdmitted, Configured, BackendKinds
    <2>3. admittedUntil' \in [Keys -> Int]
      BY DEF Restart, NothingAdmitted, Configured, Absent
    <2>4. session' \in 1..MaxSessions
      BY <1>1, Settings DEF Restart, NothingAdmitted, Configured, TypeOK
    <2>5. loaded' \in Seq(Rows) /\ failures' \in Seq(Time) /\ failedAt' \in Seq(Time)
      BY <1>1 DEF Restart, NothingAdmitted, Configured, TypeOK
    <2>6. UNCHANGED <<now, rows, file>> /\ frame' = NoFrame /\ pc' = "idle" /\ storm' = FALSE
      BY DEF Restart, NothingAdmitted, Configured, Recording
    <2>. QED  BY <1>1, <2>1, <2>2, <2>3, <2>4, <2>5, <2>6 DEF TypeOK
  <1>4. \A f \in Frames : log'[f].session # session' /\ log'[f].session <= session'
    <2>1. \A f \in Frames : log[f].session \in Int /\ log[f].session <= session
      BY <1>1 DEF AdmissionInv, Chronological, TypeOK, Logs
    <2>. QED  BY <1>1, <1>2, <2>1 DEF Restart, NothingAdmitted, Configured
  <1>. QED
    BY <1>2, <1>3, <1>4 DEF AdmissionInv, Remembered, Chronological, PlannedOnce

LEMMA TickStep ==
  ASSUME AdmissionInv, Tick
  PROVE  AdmissionInv'
  <1>1. UNCHANGED <<session, admittedUntil, log>> /\ now' = now + 1 /\ now \in Int
    BY DEF Tick, Process, AdmissionInv, TypeOK, Time
  <1>2. TypeOK'
    BY Settings
    DEF AdmissionInv, TypeOK, Tick, Time, Process, Failing, Recording
  <1>3. Remembered'
    <2>1. ASSUME NEW f \in Frames, now > Deadline(f) PROVE now + 1 > Deadline(f)
      BY <1>1, <2>1, DeadlineType
    <2>. QED  BY <1>1, <2>1 DEF AdmissionInv, Remembered, Deadline
  <1>. QED
    BY <1>1, <1>2, <1>3 DEF AdmissionInv, Chronological, PlannedOnce

LEMMA AdmissionInvariant == Spec => []AdmissionInv
  <1>1. AdmissionInv /\ [Next]_vars => AdmissionInv'
    <2>. SUFFICES ASSUME AdmissionInv, [Next]_vars PROVE AdmissionInv'
      OBVIOUS
    <2>1. ASSUME NEW f \in Frames, LeaveQueue(f) PROVE AdmissionInv'
      <3>1. TypeOK'
        BY <2>1 DEF LeaveQueue, Process, Recording, Failing, AdmissionInv, TypeOK
      <3>. QED  BY <2>1, <3>1, SilentStep DEF LeaveQueue, Process
    <2>2. CASE UNCHANGED vars
      <3>1. TypeOK'
        BY <2>2 DEF vars, AdmissionInv, TypeOK
      <3>. QED  BY <2>2, <3>1, SilentStep DEF vars
    <2>. QED
      BY <2>1, <2>2, ReceiveStep, RejectStep, PlanStep, FinishStep, RestartStep, TickStep
      DEF Next, Handle
  <1>. QED  BY <1>1, InitAdmission, PTL DEF Spec

\* The variables of the planner keep their types, and every answer that is
\* recorded, loaded or logged is a known one.
THEOREM TypeCorrect == Spec => []TypeOK
  <1>1. AdmissionInv => TypeOK
    BY DEF AdmissionInv
  <1>. QED  BY <1>1, AdmissionInvariant, PTL

\* Whatever the TTL, the skew and the dedup window are, an observation that is
\* delivered twice in a session goes to the model once.
THEOREM NoDoublePlanning == Spec => []PlannedOnce
  <1>1. AdmissionInv => PlannedOnce
    BY DEF AdmissionInv
  <1>. QED  BY <1>1, AdmissionInvariant, PTL

-----------------------------------------------------------------------------
(* Failure storms.  The deque is what is left of the session's failures after *)
(* popping from the front, and only failures out of the window are popped.   *)

LEMMA NatMin ==
  ASSUME NEW T \in SUBSET Nat, T # {}
  PROVE  \E n \in T : \A m \in T : n <= m
<1> DEFINE R == OpToRel(<, Nat)
<1>1. IsWellFoundedOn(R, Nat)
  BY NatLessThanWellFounded
<1>2. \A x, y \in Nat : y < x => <<y, x>> \in R
  BY DEF OpToRel
<1> HIDE DEF R
<1>3. \E x \in T : \A y \in T : ~(<<y, x>> \in R)
  BY <1>1, WFMin
<1>4. PICK x \in T : \A y \in T : ~(<<y, x>> \in R)
  BY <1>3
<1>5. ASSUME NEW y \in T PROVE x <= y
  <2>1. ~(y < x)
    BY <1>2, <1>4
  <2> QED BY <2>1
<1> QED BY <1>5

\* A set of positions that contains every earlier position is an interval.
LEMMA PrefixIsInterval ==
  ASSUME NEW n \in Nat, NEW P \in SUBSET (1..n), \A i \in P : 1..i \subseteq P
  PROVE  P = 1..Cardinality(P) /\ Cardinality(P) \in 0..n
<1> DEFINE T == {m \in Nat : m + 1 \notin P}
<1>1. n \in T
  OBVIOUS
<1>2. PICK p \in T : \A m \in T : p <= m
  BY <1>1, NatMin
<1> HIDE DEF T
<1>3. p \in 0..n /\ p + 1 \notin P
  BY <1>1, <1>2 DEF T
<1>4. ASSUME NEW i \in 1..p PROVE i \in P
  <2>1. i - 1 \in Nat /\ (i - 1) + 1 = i /\ ~(p <= i - 1)
    BY <1>3, <1>4
  <2>2. i - 1 \notin T
    BY <1>2, <2>1
  <2> QED BY <2>1, <2>2 DEF T
<1>5. ASSUME NEW i \in P PROVE i \in 1..p
  <2>1. ~(p + 1 \in 1..i)
    BY <1>3, <1>5
  <2> QED BY <1>3, <1>5, <2>1
<1>6. P = 1..p
  BY <1>4, <1>5
<1>7. Cardinality(1..p) = p
  BY <1>3, FS_Interval
<1> QED BY <1>3, <1>6, <1>7

StormInv ==
  /\ \A i, j \in DOMAIN failedAt : i <= j => failedAt[i] <= failedAt[j]
  /\ \A i \in DOMAIN failedAt : failedAt[i] <= now
  /\ \E d \in 0..Len(failedAt) :
       /\ Len(failures) = Len(failedAt) - d
       /\ \A i \in DOMAIN failures : failures[i] = failedAt[d + i]
       /\ \A i \in 1..d : failedAt[i] <= now - FailureWindow
  /\ StormExact

LEMMA DropLength ==
  ASSUME NEW S, NEW s \in Seq(S), NEW c \in 0..Len(s)
  PROVE  Len(SubSeq(s, c + 1, Len(s))) = Len(s) - c
<1>1. CASE c = Len(s)
  BY <1>1
<1>2. CASE c < Len(s)
  BY <1>2
<1> QED BY <1>1, <1>2

LEMMA FailedTimes ==
  ASSUME TypeOK
  PROVE  /\ Len(failedAt) \in Nat /\ DOMAIN failedAt = 1..Len(failedAt)
         /\ \A i \in DOMAIN failedAt : failedAt[i] \in Int
<1>1. failedAt \in Seq(Int)
  BY Settings DEF TypeOK, Time
<1> QED BY <1>1

\* Popping leaves exactly the failures of the window.
LEMMA PurgeExact ==
  ASSUME TypeOK, StormInv
  PROVE  \E k \in 0..Len(failedAt) :
           /\ Len(PurgeFailures(failures)) = Len(failedAt) - k
           /\ \A i \in 1..(Len(failedAt) - k) :
                PurgeFailures(failures)[i] = failedAt[k + i]
           /\ \A i \in DOMAIN failedAt : failedAt[i] <= now - FailureWindow <=> i <= k
<1> DEFINE n == Len(failures)
           N == Len(failedAt)
           w == now - FailureWindow
           Popped == {i \in DOMAIN failures : \A j \in 1..i : failures[j] <= w}
           c == Cardinality(Popped)
<1>1. PICK d \in 0..N :
        /\ n = N - d
        /\ \A i \in DOMAIN failures : failures[i] = failedAt[d + i]
        /\ \A i \in 1..d : failedAt[i] <= w
  BY DEF StormInv
<1>2. /\ n \in Nat /\ N \in Nat /\ w \in Int /\ d \in Int
      /\ DOMAIN failures = 1..n /\ DOMAIN failedAt = 1..N
      /\ \A i \in 1..N : failedAt[i] \in Int
  BY Settings DEF TypeOK, Time
<1>3. Popped = 1..c /\ c \in 0..n
  <2>1. Popped \in SUBSET (1..n)
    BY <1>2
  <2>2. \A i \in Popped : 1..i \subseteq Popped
    BY <1>2
  <2> HIDE DEF Popped
  <2> QED BY <1>2, <2>1, <2>2, PrefixIsInterval
<1>4. PurgeFailures(failures) = SubSeq(failures, c + 1, n)
  BY DEF PurgeFailures, c
<1> HIDE DEF c
<1>5. c + 1 \notin Popped /\ \A i \in 1..c : i \in Popped
  <2> HIDE DEF Popped
  <2> QED BY <1>2, <1>3
<1>6. \A i \in 1..c : failures[i] <= w
  BY <1>5, <1>3
<1>7. c < n => ~(failures[c + 1] <= w)
  <2> SUFFICES ASSUME c < n, failures[c + 1] <= w PROVE FALSE
    OBVIOUS
  <2>1. \A j \in 1..(c + 1) : failures[j] <= w
    BY <1>3, <1>6
  <2>2. c + 1 \in Popped
    BY <1>2, <1>3, <2>1
  <2> QED BY <1>5, <2>2
<1> HIDE DEF Popped
<1>8. /\ Len(SubSeq(failures, c + 1, n)) = n - c
      /\ \A i \in 1..(n - c) : SubSeq(failures, c + 1, n)[i] = failures[c + i]
  <2>1. failures \in Seq(Time) /\ c \in Nat /\ c <= n
    BY <1>2, <1>3 DEF TypeOK
  <2>2. Len(SubSeq(failures, c + 1, n)) = n - c
    BY <1>3, <2>1, DropLength
  <2>3. \A i \in 1..(n - c) : SubSeq(failures, c + 1, n)[i] = failures[c + i]
    BY <1>2, <2>1
  <2> QED BY <2>2, <2>3
<1> DEFINE k == d + c
<1>9. k \in 0..N /\ N - k = n - c
  BY <1>1, <1>2, <1>3
<1>10. \A i \in 1..(N - k) : SubSeq(failures, c + 1, n)[i] = failedAt[k + i]
  <2> TAKE i \in 1..(N - k)
  <2>1. c + i \in 1..n /\ d + (c + i) = k + i
    BY <1>1, <1>2, <1>3, <1>9
  <2>2. failures[c + i] = failedAt[d + (c + i)]
    BY <1>1, <1>2, <2>1
  <2> QED BY <1>8, <1>9, <2>1, <2>2
<1>11. ASSUME NEW i \in 1..N PROVE failedAt[i] <= w <=> i <= k
  <2>1. CASE i <= d
    BY <1>1, <1>2, <1>3, <2>1
  <2>2. CASE d < i /\ i <= k
    <3>1. i - d \in 1..c /\ d + (i - d) = i
      BY <1>1, <1>2, <1>3, <2>2
    <3>2. failures[i - d] = failedAt[i]
      BY <1>1, <1>2, <1>3, <3>1
    <3> QED BY <1>6, <2>2, <3>1, <3>2
  <2>3. CASE k < i
    <3>1. c < n /\ c + 1 \in 1..n /\ d + (c + 1) = k + 1 /\ k + 1 \in 1..N /\ k + 1 <= i
      BY <1>1, <1>2, <1>3, <2>3
    <3>2. failures[c + 1] = failedAt[k + 1]
      BY <1>1, <1>2, <3>1
    <3>3. failedAt[k + 1] <= failedAt[i] /\ ~(failedAt[k + 1] <= w)
      BY <1>2, <1>7, <3>1, <3>2 DEF StormInv
    <3>4. failedAt[k + 1] \in Int /\ failedAt[i] \in Int
      BY <1>2, <3>1
    <3>5. failedAt[i] > w /\ ~(i <= k)
      BY <1>1, <1>2, <1>3, <2>3, <3>3, <3>4
    <3> QED BY <1>2, <3>4, <3>5
  <2> QED BY <1>1, <1>2, <1>3, <2>1, <2>2, <2>3
<1> HIDE DEF k
<1> QED BY <1>2, <1>4, <1>8, <1>9, <1>10, <1>11

LEMMA NoteStorm ==
  ASSUME TypeOK, StormInv, NoteBackendFailure, now' = now
  PROVE  StormInv'
<1> DEFINE N == Len(failedAt)
           w == now - FailureWindow
           F == PurgeFailures(failures)
<1>1. PICK k \in 0..N :
        /\ Len(F) = N - k
        /\ \A i \in 1..(N - k) : F[i] = failedAt[k + i]
        /\ \A i \in DOMAIN failedAt : failedAt[i] <= w <=> i <= k
  BY PurgeExact
<1>2. /\ N \in Nat /\ now \in Int /\ w \in Int /\ w < now /\ DOMAIN failedAt = 1..N
      /\ \A i \in 1..N : failedAt[i] \in Int
      /\ F \in Seq(Time) /\ now \in Time
  BY PurgeType, Settings DEF TypeOK, Time
<1> HIDE DEF F
<1>3. /\ failedAt' = Append(failedAt, now) /\ failures' = Append(F, now)
      /\ storm' = (Len(failures') >= MaxFailures)
  BY DEF NoteBackendFailure, F
<1>4. /\ Len(failedAt') = N + 1 /\ DOMAIN failedAt' = 1..(N + 1)
      /\ \A i \in 1..N : failedAt'[i] = failedAt[i]
      /\ failedAt'[N + 1] = now
  BY <1>2, <1>3 DEF TypeOK
<1>5. /\ Len(failures') = N + 1 - k /\ DOMAIN failures' = 1..(N + 1 - k)
      /\ \A i \in 1..(N - k) : failures'[i] = F[i]
      /\ failures'[N + 1 - k] = now
  BY <1>1, <1>2, <1>3
<1>6. \A i, j \in DOMAIN failedAt' : i <= j => failedAt'[i] <= failedAt'[j]
  <2> SUFFICES ASSUME NEW i \in 1..(N + 1), NEW j \in 1..(N + 1), i <= j
               PROVE  failedAt'[i] <= failedAt'[j]
    BY <1>4
  <2>1. CASE j \in 1..N
    <3>1. i \in 1..N
      BY <1>2, <2>1
    <3> QED BY <1>2, <1>4, <2>1, <3>1 DEF StormInv
  <2>2. CASE j = N + 1 /\ i \in 1..N
    BY <1>2, <1>4, <2>2 DEF StormInv
  <2>3. CASE i = N + 1 /\ j = N + 1
    BY <1>2, <1>4, <2>3
  <2> QED BY <1>2, <2>1, <2>2, <2>3
<1>7. \A i \in DOMAIN failedAt' : failedAt'[i] <= now'
  <2> TAKE i \in DOMAIN failedAt'
  <2>1. i \in 1..N \/ i = N + 1
    BY <1>2, <1>4
  <2> QED BY <1>2, <1>4, <2>1 DEF StormInv
<1>8. \A i \in DOMAIN failures' : failures'[i] = failedAt'[k + i]
  <2> TAKE i \in DOMAIN failures'
  <2>1. CASE i \in 1..(N - k)
    <3>1. k + i \in 1..N
      BY <1>1, <1>2, <2>1
    <3> QED BY <1>1, <1>4, <1>5, <2>1, <3>1
  <2>2. CASE i = N + 1 - k
    <3>1. k + i = N + 1
      BY <1>1, <1>2, <2>2
    <3> QED BY <1>4, <1>5, <2>2, <3>1
  <2> QED BY <1>1, <1>2, <1>5, <2>1, <2>2
<1>9. \A i \in 1..k : failedAt'[i] <= now' - FailureWindow
  <2> TAKE i \in 1..k
  <2>1. i \in 1..N /\ i <= k
    BY <1>1, <1>2
  <2>2. failedAt[i] <= w
    BY <1>1, <1>2, <2>1
  <2>3. failedAt'[i] = failedAt[i]
    BY <1>4, <2>1
  <2> QED BY <2>2, <2>3
\* The failures of the window are the positions after k.
<1>10. StormExact'
  <2>1. {i \in DOMAIN failedAt' : failedAt'[i] > failedAt'[Len(failedAt')] - FailureWindow}
          = (k + 1)..(N + 1)
    <3>1. ASSUME NEW i \in 1..(N + 1)
          PROVE  failedAt'[i] > w <=> i \in (k + 1)..(N + 1)
      <4>1. CASE i \in 1..N
        <5>1. failedAt[i] <= w <=> i <= k
          BY <1>1, <1>2, <4>1
        <5> QED BY <1>1, <1>2, <1>4, <4>1, <5>1
      <4>2. CASE i = N + 1
        BY <1>1, <1>2, <1>4, <4>2
      <4> QED BY <1>2, <4>1, <4>2
    <3> QED BY <1>1, <1>2, <1>4, <3>1
  <2>2. Cardinality((k + 1)..(N + 1)) = N + 1 - k
    BY <1>1, <1>2, FS_Interval
  <2> QED BY <1>3, <1>5, <2>1, <2>2 DEF StormExact
<1>11. k \in 0..Len(failedAt') /\ Len(failures') = Len(failedAt') - k
  BY <1>1, <1>2, <1>4, <1>5
<1> QED BY <1>6, <1>7, <1>8, <1>9, <1>10, <1>11 DEF StormInv

LEMMA StormInvariant == Spec => []StormInv
<1>1. Init => StormInv
  BY Settings DEF Init, NothingAdmitted, StormInv, StormExact
<1>2. TypeOK /\ StormInv /\ [Next]_vars => StormInv'
  <2> SUFFICES ASSUME TypeOK, StormInv, [Next]_vars PROVE StormInv'
    OBVIOUS
  <2>1. ASSUME UNCHANGED Failing, now' = now PROVE StormInv'
    BY <2>1 DEF Failing, StormInv, StormExact
  <2>2. CASE Tick
    <3>1. UNCHANGED Failing /\ now' = now + 1 /\ now \in Int /\ FailureWindow \in Int
      BY <2>2, Settings DEF Tick, TypeOK, Time
    <3>2. \A i \in DOMAIN failedAt : failedAt[i] \in Int
      BY FailedTimes
    <3>3. \A i \in DOMAIN failedAt : failedAt[i] <= now + 1
      BY <3>1, <3>2 DEF StormInv
    <3>4. PICK d \in 0..Len(failedAt) :
             /\ Len(failures) = Len(failedAt) - d
             /\ \A i \in DOMAIN failures : failures[i] = failedAt[d + i]
             /\ \A i \in 1..d : failedAt[i] <= now - FailureWindow
      BY DEF StormInv
    <3>5. \A i \in 1..d : failedAt[i] <= now + 1 - FailureWindow
      <4> TAKE i \in 1..d
      <4>1. i \in DOMAIN failedAt
        BY DEF TypeOK
      <4> QED BY <3>1, <3>2, <3>4, <4>1
    <3>6. StormExact'
      BY <3>1 DEF Failing, StormInv, StormExact
    <3> QED BY <3>1, <3>3, <3>4, <3>5, <3>6, SMTT(20) DEF Failing, StormInv
  <2>3. CASE Restart
    <3>1. failures' = << >> /\ failedAt' = << >>
      BY <2>3 DEF Restart, NothingAdmitted, Configured
    <3> QED BY <3>1 DEF StormInv, StormExact
  <2>4. ASSUME NEW f \in Frames, Finish(f) PROVE StormInv'
    <3>1. now' = now
      BY <2>4 DEF Finish
    <3> QED BY <2>1, <2>4, <3>1, NoteStorm DEF Finish
  <2>5. ASSUME NEW f \in Frames, Receive(f) \/ Reject(f) \/ LeaveQueue(f) \/ Plan(f)
        PROVE  StormInv'
    BY <2>1, <2>5 DEF Receive, Reject, LeaveQueue, Plan
  <2>6. CASE UNCHANGED vars
    BY <2>1, <2>6 DEF vars, Failing
  <2> QED BY <2>2, <2>3, <2>4, <2>5, <2>6 DEF Next, Handle
<1>3. AdmissionInv => TypeOK
  BY DEF AdmissionInv
<1> QED BY <1>1, <1>2, <1>3, AdmissionInvariant, PTL DEF Spec

\* Popping from the front of the deque and comparing its length is exact: a
\* failure is reported as a storm if and only if the window that ends with it
\* holds MaxFailures failures, boundary instants included.
THEOREM StormsExact == Spec => []StormExact
<1>1. StormInv => StormExact
  BY DEF StormInv
<1> QED BY <1>1, StormInvariant, PTL

-----------------------------------------------------------------------------
(* Replay.  The rows of the recording are answered deliveries, and as long   *)
(* as the file is whole, all of them; what a replay session loaded are those *)
(* of the sessions before it.                                                *)

HasAnswer(f) == log[f].answer # "none"
Past(f) == log[f].session < session /\ HasAnswer(f)

FrameInv ==
  /\ frame # NoFrame => log[frame].session = session /\ log[frame].outcome = "handled"
  /\ frame # NoFrame /\ pc # "check" => ~HasAnswer(frame)
  /\ \A f \in Frames : log[f].outcome = "new" => ~HasAnswer(f)

RowOf(row, f) == row.input = Input[f] /\ row.answer = log[f].answer

RowsInv ==
  \E owner \in [DOMAIN rows -> Frames] :
    /\ \A i \in DOMAIN rows : RowOf(rows[i], owner[i])
    /\ file = "whole" => \A f \in Frames : HasAnswer(f) => \E i \in DOMAIN rows : owner[i] = f

LoadedInv ==
  backend = "replay" =>
    \E owner \in [DOMAIN loaded -> Frames] :
      /\ \A i \in DOMAIN loaded : RowOf(loaded[i], owner[i]) /\ Past(owner[i])
      /\ file = "whole" => \A f \in Frames : Past(f) => \E i \in DOMAIN loaded : owner[i] = f

Faithful(g) ==
  /\ \E f \in Earlier(g) : log[f].answer = log[g].answer
  /\ file = "whole" => Cardinality(Earlier(g)) = 1

\* A replayed answer is faithful as soon as it is there to be checked.
FaithInv ==
  \A g \in Frames :
    /\ log[g].outcome = "published" /\ log[g].by = "replay" => Faithful(g)
    /\ frame = g /\ pc = "check" /\ backend = "replay" /\ log[g].answer # "error" => Faithful(g)

ReplayInv == FrameInv /\ RowsInv /\ LoadedInv /\ FaithInv

-----------------------------------------------------------------------------
\* Only a delivery of the current session gains an answer, so what earlier
\* sessions answered stays as it is.
LEMMA FaithfulKept ==
  ASSUME NEW g \in Frames, Faithful(g),
         log'[g].session = log[g].session, log'[g].answer = log[g].answer,
         \A f \in Frames :
           \/ log'[f].session = log[f].session /\ log'[f].answer = log[f].answer
           \/ /\ ~(log[f].session < log[g].session /\ HasAnswer(f))
              /\ ~(log'[f].session < log[g].session /\ HasAnswer(f)'),
         file' = "whole" => file = "whole"
  PROVE  Faithful(g)'
<1>1. Earlier(g)' = Earlier(g)
  BY DEF Earlier, HasAnswer
<1>2. \A f \in Earlier(g) : log'[f].answer = log[f].answer
  BY DEF Earlier, HasAnswer
<1> QED BY <1>1, <1>2 DEF Faithful

\* The sole row a session loaded for an input is the sole earlier answer to it.
LEMMA ReplayedFaithful ==
  ASSUME TypeOK, LoadedInv, NEW g \in Frames, backend = "replay",
         log[g].session = session, Replayed(g) # "error"
  PROVE  /\ \E f \in Earlier(g) : log[f].answer = Replayed(g)
         /\ file = "whole" => Cardinality(Earlier(g)) = 1
<1>1. PICK owner \in [DOMAIN loaded -> Frames] :
        /\ \A i \in DOMAIN loaded : RowOf(loaded[i], owner[i]) /\ Past(owner[i])
        /\ file = "whole" => \A f \in Frames : Past(f) => \E i \in DOMAIN loaded : owner[i] = f
  BY DEF LoadedInv
<1>2. PICK i \in Matches(g) : Matches(g) = {i}
  BY DEF Replayed, ReadBack
<1>3. Replayed(g) = loaded[i].answer
  <2>1. (CHOOSE j \in Matches(g) : TRUE) = i
    BY <1>2
  <2> QED BY <1>2, <2>1 DEF Replayed, ReadBack
<1>4. i \in DOMAIN loaded /\ loaded[i].input = Input[g]
  BY <1>2 DEF Matches
<1>5. owner[i] \in Earlier(g) /\ log[owner[i]].answer = Replayed(g)
  BY <1>1, <1>3, <1>4 DEF RowOf, Past, HasAnswer, Earlier
<1>6. ASSUME file = "whole" PROVE Cardinality(Earlier(g)) = 1
  <2>1. ASSUME NEW f \in Earlier(g) PROVE f = owner[i]
    <3>1. Past(f) /\ f \in Frames /\ Input[f] = Input[g]
      BY <2>1 DEF Earlier, Past, HasAnswer
    <3>2. PICK j \in DOMAIN loaded : owner[j] = f
      BY <1>1, <1>6, <3>1
    <3>3. j \in Matches(g)
      BY <1>1, <3>1, <3>2 DEF RowOf, Matches
    <3> QED BY <1>2, <3>2, <3>3
  <2>2. Earlier(g) = {owner[i]}
    BY <1>5, <2>1
  <2> QED BY <2>2, FS_Singleton
<1> QED BY <1>5, <1>6

\* Record appends the row of the delivery that is answered, or the file is not
\* whole any more.
LEMMA RecordRows ==
  ASSUME TypeOK, RowsInv, NEW f \in Frames, NEW a \in AllAnswers, Record(f, a),
         ~HasAnswer(f), log'[f].answer = a,
         \A g \in Frames \ {f} : log'[g].answer = log[g].answer
  PROVE  RowsInv' /\ (file' = "whole" => file = "whole")
<1>0. a # "none"
  BY Settings DEF AllAnswers
<1>1. PICK owner \in [DOMAIN rows -> Frames] :
        /\ \A i \in DOMAIN rows : RowOf(rows[i], owner[i])
        /\ file = "whole" => \A g \in Frames : HasAnswer(g) => \E i \in DOMAIN rows : owner[i] = g
  BY DEF RowsInv
<1>2. rows \in Seq(Rows) /\ \A i \in DOMAIN rows : rows[i] \in Rows
  BY DEF TypeOK
\* A row answers, so it is not the row of f yet.
<1>3. \A i \in DOMAIN rows :
        /\ owner[i] \in Frames \ {f}
        /\ rows[i].input = Input[owner[i]] /\ rows[i].answer = log'[owner[i]].answer
  <2> TAKE i \in DOMAIN rows
  <2>1. rows[i].answer # "none"
    BY <1>2, Settings DEF Rows, AllAnswers
  <2>2. owner[i] \in Frames /\ RowOf(rows[i], owner[i])
    BY <1>1
  <2>3. owner[i] # f
    BY <2>1, <2>2 DEF RowOf, HasAnswer
  <2> QED BY <2>2, <2>3 DEF RowOf
<1>4. CASE rows' = Append(rows, [input |-> Input[f], answer |-> a]) /\ file' = file
  <2> DEFINE row == [input |-> Input[f], answer |-> a]
             n == Len(rows)
             new == [i \in 1..(n + 1) |-> IF i = n + 1 THEN f ELSE owner[i]]
  <2>0. row.input = Input[f] /\ row.answer = a
    OBVIOUS
  <2> HIDE DEF row
  <2>1. /\ n \in Nat /\ DOMAIN rows = 1..n /\ DOMAIN rows' = 1..(n + 1)
        /\ rows'[n + 1] = row /\ \A i \in 1..n : rows'[i] = rows[i]
    BY <1>2, <1>4 DEF row
  <2>2. new \in [DOMAIN rows' -> Frames]
    BY <1>1, <2>1
  <2>3. \A i \in 1..n : new[i] = owner[i] /\ rows'[i] = rows[i]
    BY <2>1
  <2>4. /\ new[n + 1] = f
        /\ rows'[n + 1].input = Input[f] /\ rows'[n + 1].answer = log'[f].answer
    BY <2>0, <2>1
  <2>5. \A i \in DOMAIN rows' :
          rows'[i].input = Input[new[i]] /\ rows'[i].answer = log'[new[i]].answer
    <3> TAKE i \in DOMAIN rows'
    <3>1. i = n + 1 \/ i \in 1..n
      BY <2>1
    <3> QED BY <1>3, <2>1, <2>3, <2>4, <3>1
  <2>6. file' = "whole" => \A g \in Frames : HasAnswer(g)' => \E i \in DOMAIN rows' : new[i] = g
    <3> SUFFICES ASSUME file = "whole", NEW g \in Frames, HasAnswer(g)'
                 PROVE  \E i \in DOMAIN rows' : new[i] = g
      BY <1>4
    <3>1. CASE g = f
      BY <2>1, <2>4, <3>1
    <3>2. CASE g # f
      <4>1. PICK i \in DOMAIN rows : owner[i] = g
        BY <1>1, <3>2 DEF HasAnswer
      <4> QED BY <2>1, <2>3, <4>1
    <3> QED BY <3>1, <3>2
  <2> HIDE DEF new
  <2>7. RowsInv'
    BY <2>2, <2>5, <2>6 DEF RowsInv, RowOf
  <2> QED BY <1>4, <2>7
<1>5. CASE rows' = rows /\ file' # "whole"
  BY <1>1, <1>3, <1>5 DEF RowsInv, RowOf
<1> QED BY <1>4, <1>5 DEF Record

\* What a session loaded stays true while only deliveries of this session change.
LEMMA LoadedKept ==
  ASSUME LoadedInv, UNCHANGED <<backend, loaded, session>>,
         file' = "whole" => file = "whole",
         \A f \in Frames :
           \/ log'[f].session = log[f].session /\ log'[f].answer = log[f].answer
           \/ ~Past(f) /\ ~Past(f)'
  PROVE  LoadedInv'
<1> SUFFICES ASSUME backend = "replay" PROVE LoadedInv'
  BY DEF LoadedInv
<1>1. PICK owner \in [DOMAIN loaded -> Frames] :
        /\ \A i \in DOMAIN loaded : RowOf(loaded[i], owner[i]) /\ Past(owner[i])
        /\ file = "whole" => \A f \in Frames : Past(f) => \E i \in DOMAIN loaded : owner[i] = f
  BY DEF LoadedInv
<1>2. \A f \in Frames : Past(f)' <=> Past(f)
  BY DEF Past, HasAnswer
<1>3. \A i \in DOMAIN loaded : RowOf(loaded[i], owner[i])' /\ Past(owner[i])'
  BY <1>1, <1>2 DEF RowOf, Past, HasAnswer
<1> QED BY <1>1, <1>2, <1>3 DEF LoadedInv

\* A step that leaves rows, sessions and answers alone, whatever it does to the
\* outcome of the delivery it ends.
LEMMA RowsKept ==
  ASSUME RowsInv, UNCHANGED <<rows, file>>,
         \A f \in Frames : log'[f].answer = log[f].answer
  PROVE  RowsInv'
  BY DEF RowsInv, RowOf, HasAnswer

\* The steps that answer nothing: what is published by them was faithful before.
LEMMA SilentReplay ==
  ASSUME AdmissionInv, ReplayInv, UNCHANGED <<session, backend, loaded, rows, file>>,
         \A f \in Frames : /\ log'[f].answer = log[f].answer
                           /\ log'[f].session = log[f].session \/ ~HasAnswer(f),
         \A g \in Frames :
           log'[g].outcome = "published" /\ log'[g].by = "replay" =>
             Faithful(g) /\ log'[g].session = log[g].session,
         frame' # NoFrame /\ pc' = "check" => frame' = frame /\ pc = "check" /\ log' = log,
         frame' # NoFrame => frame' \in Frames, FrameInv'
  PROVE  ReplayInv'
<1>1. RowsInv'
  BY RowsKept DEF ReplayInv
<1>2. LoadedInv'
  <2>1. \A f \in Frames : \/ log'[f].session = log[f].session /\ log'[f].answer = log[f].answer
                          \/ ~Past(f) /\ ~Past(f)'
    BY DEF Past, HasAnswer
  <2> QED BY <2>1, LoadedKept DEF ReplayInv
<1>3. ASSUME NEW g \in Frames, Faithful(g), log'[g].session = log[g].session
      PROVE  Faithful(g)'
  <2>1. \A f \in Frames :
           \/ log'[f].session = log[f].session /\ log'[f].answer = log[f].answer
           \/ /\ ~(log[f].session < log[g].session /\ HasAnswer(f))
              /\ ~(log'[f].session < log[g].session /\ HasAnswer(f)')
    BY DEF HasAnswer
  <2> QED BY <1>3, <2>1, FaithfulKept
<1>4. FaithInv'
  <2>1. ASSUME NEW g \in Frames, log'[g].outcome = "published", log'[g].by = "replay"
        PROVE  Faithful(g)'
    BY <1>3, <2>1
  <2>2. ASSUME NEW g \in Frames, frame' = g, pc' = "check", backend' = "replay",
               log'[g].answer # "error"
        PROVE  Faithful(g)'
    <3>1. frame = g /\ pc = "check" /\ log' = log
      BY <2>2, FramesAssumption
    <3> QED BY <1>3, <2>2, <3>1 DEF ReplayInv, FaithInv
  <2> QED BY <2>1, <2>2 DEF FaithInv
<1> QED BY <1>1, <1>2, <1>4 DEF ReplayInv

\* The fields of the delivery that a step handles; no other delivery changes.
LEMMA ReceiveFields ==
  ASSUME TypeOK, NEW f \in Frames, Receive(f)
  PROVE  /\ log'[f].outcome = "handled" /\ log'[f].session = session
         /\ log'[f].answer = log[f].answer
         /\ \A g \in Frames \ {f} : log'[g] = log[g]
         /\ frame' = f /\ pc' \in {"queue", "reject"} /\ log[f].outcome = "new"
         /\ UNCHANGED <<session, backend, loaded, rows, file>>
<1>1. log[f] \in Logs
  BY DEF TypeOK
<1>2. \/ log' = [log EXCEPT ![f] = [log[f] EXCEPT !.outcome = "handled", !.session = session,
                                                  !.admitted = TRUE]]
      \/ log' = [log EXCEPT ![f] = [log[f] EXCEPT !.outcome = "handled", !.session = session]]
  BY <1>1 DEF Receive, TypeOK
<1>3. /\ log'[f].outcome = "handled" /\ log'[f].session = session
      /\ log'[f].answer = log[f].answer
      /\ \A g \in Frames \ {f} : log'[g] = log[g]
  <2>1. CASE log' = [log EXCEPT ![f] = [log[f] EXCEPT !.outcome = "handled",
                                          !.session = session, !.admitted = TRUE]]
    BY <1>1, <2>1 DEF TypeOK, Logs
  <2>2. CASE log' = [log EXCEPT ![f] = [log[f] EXCEPT !.outcome = "handled",
                                          !.session = session]]
    BY <1>1, <2>2 DEF TypeOK, Logs
  <2> QED BY <1>2, <2>1, <2>2
<1> QED BY <1>3 DEF Receive, Process, Recording

LEMMA ReceiveReplay ==
  ASSUME AdmissionInv, ReplayInv, NEW f \in Frames, Receive(f)
  PROVE  ReplayInv'
<1>0. TypeOK
  BY DEF AdmissionInv
<1>1. ~HasAnswer(f)
  BY <1>0, ReceiveFields DEF ReplayInv, FrameInv
<1>2. FrameInv'
  BY <1>0, <1>1, ReceiveFields DEF ReplayInv, FrameInv, HasAnswer
<1>3. \A g \in Frames : /\ log'[g].answer = log[g].answer
                        /\ log'[g].session = log[g].session \/ ~HasAnswer(g)
  BY <1>0, <1>1, ReceiveFields
<1>4. ASSUME NEW g \in Frames, log'[g].outcome = "published", log'[g].by = "replay"
      PROVE  Faithful(g) /\ log'[g].session = log[g].session
  <2>1. g # f /\ log'[g] = log[g]
    BY <1>0, <1>4, ReceiveFields
  <2> QED BY <1>4, <2>1 DEF ReplayInv, FaithInv
<1> QED BY <1>0, <1>2, <1>3, <1>4, ReceiveFields, SilentReplay

LEMMA FinishReplay ==
  ASSUME AdmissionInv, ReplayInv, NEW f \in Frames, Finish(f)
  PROVE  ReplayInv'
<1>0. TypeOK /\ log[f] \in Logs
  BY DEF AdmissionInv, TypeOK
<1>1. PICK o \in {"abstained", "published"} :
        /\ End(f, o)
        /\ o = "published" => log[f].answer # "error"
  BY DEF Finish
<1>2. /\ log'[f].outcome = o /\ log'[f].by = backend /\ log'[f].answer = log[f].answer
      /\ log'[f].session = log[f].session
      /\ \A g \in Frames \ {f} : log'[g] = log[g]
      /\ frame' = NoFrame /\ frame = f /\ pc = "check"
      /\ UNCHANGED <<session, backend, loaded, rows, file>>
  BY <1>0, <1>1 DEF End, Finish, Process, Recording, TypeOK, Logs
<1>3. FrameInv'
  BY <1>2 DEF ReplayInv, FrameInv, HasAnswer
<1>4. ASSUME NEW g \in Frames, log'[g].outcome = "published", log'[g].by = "replay"
      PROVE  Faithful(g) /\ log'[g].session = log[g].session
  <2>1. CASE g = f
    \* What the backend answered was faithful when it was published.
    <3>1. log[f].answer # "error"
      BY <1>1, <1>2, <1>4, <2>1
    <3> QED BY <1>2, <1>4, <2>1, <3>1 DEF ReplayInv, FaithInv
  <2>2. CASE g # f
    BY <1>2, <1>4, <2>2 DEF ReplayInv, FaithInv
  <2> QED BY <2>1, <2>2
<1> QED BY <1>2, <1>3, <1>4, SilentReplay

\* A step that answers delivery f of the current session with a.
LEMMA AnswerReplay ==
  ASSUME AdmissionInv, ReplayInv, NEW f \in Frames, NEW a \in AllAnswers,
         frame = f, pc # "check", Record(f, a),
         log'[f].answer = a, log'[f].session = log[f].session,
         log'[f].outcome \in {"handled", "abstained"},
         \A g \in Frames \ {f} : log'[g] = log[g],
         UNCHANGED <<session, backend, loaded>>, FrameInv',
         \/ frame' = NoFrame
         \/ frame' = f /\ a \in Answers(f)
  PROVE  ReplayInv'
<1>0. TypeOK /\ session \in Int /\ \A g \in Frames : log[g].session \in Int
  BY DEF AdmissionInv, TypeOK, Logs
<1>1. log[f].session = session /\ ~HasAnswer(f) /\ f # NoFrame
  BY FramesAssumption DEF ReplayInv, FrameInv
<1>2. RowsInv' /\ (file' = "whole" => file = "whole")
  BY <1>0, <1>1, RecordRows DEF ReplayInv
<1>3. LoadedInv'
  <2>1. \A g \in Frames : \/ log'[g].session = log[g].session /\ log'[g].answer = log[g].answer
                          \/ ~Past(g) /\ ~Past(g)'
    BY <1>0, <1>1 DEF Past
  <2> QED BY <1>2, <2>1, LoadedKept DEF ReplayInv
<1>4. FaithInv'
  <2>1. ASSUME NEW g \in Frames, log'[g].outcome = "published", log'[g].by = "replay"
        PROVE  Faithful(g)'
    <3>1. g # f /\ log'[g] = log[g] /\ Faithful(g) /\ log[g].session <= session
      BY <2>1 DEF ReplayInv, FaithInv, AdmissionInv, Chronological
    <3>2. \A h \in Frames :
            \/ log'[h].session = log[h].session /\ log'[h].answer = log[h].answer
            \/ /\ ~(log[h].session < log[g].session /\ HasAnswer(h))
               /\ ~(log'[h].session < log[g].session /\ HasAnswer(h)')
      <4> TAKE h \in Frames
      <4>1. CASE h = f
        BY <1>0, <1>1, <3>1, <4>1
      <4>2. CASE h # f
        BY <4>2
      <4> QED BY <4>1, <4>2
    <3> QED BY <1>2, <3>1, <3>2, FaithfulKept
  <2>2. ASSUME frame' = f, pc' = "check", backend = "replay", a # "error"
        PROVE  Faithful(f)'
    <3>1. a = Replayed(f)
      BY <1>1, <2>2 DEF Answers
    <3>2. /\ \E e \in Earlier(f) : log[e].answer = a
          /\ file = "whole" => Cardinality(Earlier(f)) = 1
      BY <1>0, <1>1, <2>2, <3>1, ReplayedFaithful DEF ReplayInv
    <3>3. f \notin Earlier(f) /\ f \notin Earlier(f)'
      BY <1>0, <1>1 DEF Earlier
    <3>4. Earlier(f)' = Earlier(f)
      BY <3>3 DEF Earlier
    <3>5. \A e \in Earlier(f) : log'[e].answer = log[e].answer
      BY <3>3 DEF Earlier
    <3> QED BY <1>2, <3>2, <3>4, <3>5 DEF Faithful
  <2>3. frame' \in {NoFrame, f} /\ NoFrame \notin Frames
    BY FramesAssumption
  <2> QED BY <2>1, <2>2, <2>3 DEF FaithInv
<1> QED BY <1>2, <1>3, <1>4 DEF ReplayInv

LEMMA RejectReplay ==
  ASSUME AdmissionInv, ReplayInv, NEW f \in Frames, Reject(f)
  PROVE  ReplayInv'
<1>0. TypeOK /\ log[f] \in Logs
  BY DEF AdmissionInv, TypeOK
<1>1. /\ log'[f].answer = "error" /\ log'[f].session = log[f].session
      /\ log'[f].outcome = "abstained"
      /\ \A g \in Frames \ {f} : log'[g] = log[g]
      /\ frame = f /\ pc = "reject" /\ Record(f, "error") /\ frame' = NoFrame
      /\ UNCHANGED <<session, backend, loaded>>
  BY <1>0 DEF Reject, Process, TypeOK, Logs
<1>2. FrameInv'
  BY <1>1 DEF ReplayInv, FrameInv, HasAnswer
<1>3. "error" \in AllAnswers
  BY DEF AllAnswers
<1> QED BY <1>1, <1>2, <1>3, AnswerReplay

LEMMA PlanReplay ==
  ASSUME AdmissionInv, ReplayInv, NEW f \in Frames, Plan(f)
  PROVE  ReplayInv'
<1>0. TypeOK /\ log[f] \in Logs
  BY DEF AdmissionInv, TypeOK
<1>1. PICK a \in Answers(f) : Record(f, a) /\ log' = [log EXCEPT ![f].answer = a]
  BY DEF Plan
<1>2. /\ log'[f].answer = a /\ log'[f].session = log[f].session
      /\ log'[f].outcome = log[f].outcome
      /\ \A g \in Frames \ {f} : log'[g] = log[g]
  BY <1>0, <1>1 DEF TypeOK, Logs
<1>3. /\ frame = f /\ pc = "plan" /\ frame' = f /\ pc' = "check"
      /\ UNCHANGED <<session, backend, loaded>>
  BY DEF Plan, Process
<1>4. log[f].outcome = "handled" /\ log[f].session = session /\ f # NoFrame
  BY <1>3, FramesAssumption DEF ReplayInv, FrameInv
<1>5. FrameInv'
  BY <1>2, <1>3, <1>4 DEF ReplayInv, FrameInv, HasAnswer
<1>6. a \in AllAnswers
  BY <1>0, AnswersType
<1> QED BY <1>1, <1>2, <1>3, <1>4, <1>5, <1>6, AnswerReplay

LEMMA RestartReplay ==
  ASSUME AdmissionInv, ReplayInv, Restart
  PROVE  ReplayInv'
<1>0. /\ TypeOK /\ session \in Int /\ session' = session + 1
      /\ \A f \in Frames : log[f] \in Logs /\ log[f].session \in Int /\ log[f].session <= session
  BY DEF AdmissionInv, Chronological, TypeOK, Logs, Restart, NothingAdmitted, Configured
<1>1. \A f \in Frames :
        /\ log'[f].session = log[f].session /\ log'[f].answer = log[f].answer
        /\ log'[f] = log[f] \/ log'[f].outcome = "lost"
  <2> TAKE f \in Frames
  <2>1. log'[f] = IF f = frame THEN [log[f] EXCEPT !.outcome = "lost"] ELSE log[f]
    BY DEF Restart, NothingAdmitted, Configured
  <2> QED BY <1>0, <2>1 DEF Logs
<1>2. frame' = NoFrame /\ rows' = rows /\ file' = file
  BY DEF Restart, NothingAdmitted, Configured, Recording
<1>3. FrameInv'
  BY <1>1, <1>2 DEF ReplayInv, FrameInv, HasAnswer
<1>4. RowsInv'
  BY <1>1, <1>2, RowsKept DEF ReplayInv
\* The new session loads the recording, which is by now of earlier sessions.
<1>5. LoadedInv'
  <2> SUFFICES ASSUME backend' = "replay" PROVE LoadedInv'
    BY DEF LoadedInv
  <2>1. loaded' = rows
    BY DEF Restart, NothingAdmitted, Configured
  <2>2. PICK owner \in [DOMAIN rows -> Frames] :
          /\ \A i \in DOMAIN rows : RowOf(rows[i], owner[i])
          /\ file = "whole" => \A f \in Frames : HasAnswer(f) => \E i \in DOMAIN rows : owner[i] = f
    BY DEF ReplayInv, RowsInv
  <2>3. \A f \in Frames : Past(f)' <=> HasAnswer(f)
    BY <1>0, <1>1 DEF Past, HasAnswer
  <2>4. \A i \in DOMAIN rows :
          /\ rows[i].input = Input[owner[i]] /\ rows[i].answer = log'[owner[i]].answer
          /\ Past(owner[i])'
    <3> TAKE i \in DOMAIN rows
    <3>0. rows[i] \in Rows
      BY <1>0 DEF TypeOK
    <3>1. rows[i].answer # "none"
      BY <3>0, Settings DEF Rows, AllAnswers
    <3> QED BY <1>1, <2>2, <2>3, <3>1 DEF RowOf, HasAnswer
  <2> QED BY <1>2, <2>1, <2>2, <2>3, <2>4 DEF LoadedInv, RowOf
<1>6. FaithInv'
  <2>1. ASSUME NEW g \in Frames, log'[g].outcome = "published", log'[g].by = "replay"
        PROVE  Faithful(g)'
    <3>1. Faithful(g)
      BY <1>1, <2>1 DEF ReplayInv, FaithInv
    <3> QED BY <1>1, <1>2, <3>1, FaithfulKept
  <2> QED BY <1>2, <2>1, FramesAssumption DEF FaithInv
<1> QED BY <1>3, <1>4, <1>5, <1>6 DEF ReplayInv

LEMMA ReplayInvariant == Spec => []ReplayInv
<1>1. Init => ReplayInv
  <2> SUFFICES ASSUME Init PROVE ReplayInv
    OBVIOUS
  <2>1. \A f \in Frames : log[f].outcome = "new" /\ log[f].answer = "none"
    BY DEF Init, NothingAdmitted
  <2>2. RowsInv
    <3>1. DOMAIN rows = {}
      BY DEF Init, NothingAdmitted
    <3>2. [i \in {} |-> NoFrame] \in [DOMAIN rows -> Frames]
      BY <3>1
    <3> QED BY <2>1, <3>1, <3>2 DEF RowsInv, HasAnswer
  <2>3. FrameInv /\ LoadedInv /\ FaithInv
    BY <2>1, FramesAssumption DEF Init, NothingAdmitted, FrameInv, HasAnswer, LoadedInv, FaithInv
  <2> QED BY <2>2, <2>3 DEF ReplayInv
<1>2. AdmissionInv /\ ReplayInv /\ [Next]_vars => ReplayInv'
  <2> SUFFICES ASSUME AdmissionInv, ReplayInv, [Next]_vars PROVE ReplayInv'
    OBVIOUS
  <2>1. ASSUME UNCHANGED <<session, backend, loaded, rows, file, log, frame>>,
               pc' = "check" <=> pc = "check"
        PROVE  ReplayInv'
    <3>1. FrameInv'
      BY <2>1 DEF ReplayInv, FrameInv, HasAnswer
    <3>2. frame \in Frames \cup {NoFrame}
      BY DEF AdmissionInv, TypeOK
    <3>3. \A g \in Frames :
            log'[g].outcome = "published" /\ log'[g].by = "replay" =>
              Faithful(g) /\ log'[g].session = log[g].session
      BY <2>1 DEF ReplayInv, FaithInv
    <3> QED BY <2>1, <3>1, <3>2, <3>3, SilentReplay
  <2>2. ASSUME NEW f \in Frames, LeaveQueue(f) PROVE ReplayInv'
    <3>1. CASE pc' = "plan"
      BY <2>1, <2>2, <3>1 DEF LeaveQueue, Process, Recording
    <3>2. CASE pc' = "reject"
      BY <2>1, <2>2, <3>2 DEF LeaveQueue, Process, Recording
    <3> QED BY <2>2, <3>1, <3>2 DEF LeaveQueue
  <2>3. CASE Tick \/ UNCHANGED vars
    BY <2>1, <2>3 DEF Tick, vars, Process, Recording
  <2> QED
    BY <2>2, <2>3, ReceiveReplay, RejectReplay, PlanReplay, FinishReplay, RestartReplay
    DEF Next, Handle
<1> QED BY <1>1, <1>2, AdmissionInvariant, PTL DEF Spec

\* Across crashes, restarts and recording faults, a replayed command repeats an
\* earlier session's answer to the same input, and with a whole recording that
\* input was answered only once before.
THEOREM ReplayIsFaithful == Spec => []ReplayFaithful
<1>1. ReplayInv => ReplayFaithful
  BY DEF ReplayInv, FaithInv, Faithful, ReplayFaithful
<1> QED BY <1>1, ReplayInvariant, PTL
=============================================================================
