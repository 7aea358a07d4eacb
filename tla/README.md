# RoboTraceOpt in TLA+

Specifications of the parts of RoboTraceOpt whose behaviour depends on the order
of events: the ROS 2 nodes that carry a command from a camera frame to the CAN
bus, the probe that measures it, the scripts that run a formal experiment
session and each of its fault cases, and the path from the captured evidence
through the diagnosis to the choice of a configuration. Every definition follows
the code under `src/`; TLC checks small instances, TLAPS proves the safety
theorems for all values of the constants.
`PROJECT.json` lists the runs, the source lines of each definition, the hazards
each property is for, and the theorems.

    tlc -workers 2 -config bridge_promise.cfg MCCanBridge   # any run of the table below
    tlapm CanBridgeProofs.tla                               # any *Proofs module

## 1. The system

    camera_mock ──frame──> planner ──PlannerCommand──> action manager ──PlannerCommand──> CAN bridge ──frame──> bus
                              │                          │    ↑ goal / result                │  ↑ ACK            │
                              │ recording (JSONL)        └────┘ own action server            │  └────────────────┘
                              ▼                                                              ▼ /probe/can_frame_sent
                           later replay session                                         latency probe ──> CSV
        every node ──RuntimeEvent on /runtime/events──> runtime event logger ──> rows (JSONL)

    session ──case──> run_fault_condition ──starts, stops──> workload, candump, responder, stressor, bpftrace
                              └─> artifact manifest over rows, frames, records, kernel events

    rows ──> adapters, topology contract, stage windows ──> evidence graph of one trace ──> inference
                                                        report ──> gate ──> trials ──> decision

| Component | State it keeps | Operations | What makes it correct |
|---|---|---|---|
| **CAN bridge** `can_bridge_pkg` | dedup map `admitted_request_ns_`, one attempt per command (retry count, timers, ACK socket), ACK worker threads, shutdown flag | command callback, send attempt, mock timers, ACK worker, timeout and retry, destructor | a command is admitted once; one terminal event per command; no ACK is lost or misread; retries are paced; the destructor ends and nothing runs after it |
| **Worker thread group** `reaping_thread_group.hpp` | handles, `closed_`, a done flag per worker | `spawn`, `size`, `close` from any thread | nothing outlives `close`; nobody joins itself; handles do not pile up; no deadlock |
| **Action manager** `action_manager_node.cpp`, `goal_deadline.hpp` | goal states of its action server, client side, one worker per goal, deadline | command, goal, cancel, goal response and result callbacks, `execute_goal` | only an in-time success reaches the bridge; a cancel is honoured; every command is answered |
| **Planner (Python)** `vlm_planner_node.py`, `planner_clients/` | admission map, failure window, backend, recording file | frame callback: admit, queue, plan, record, check, publish or abstain; restart | an observation is planned once; a storm is reported exactly; a replay repeats what was recorded or abstains; every frame is answered |
| Planner backends and decision schema | none, or the loaded recording | `plan_with_request`, `validate_decision` | a decision outside the schema is never published |
| **Planner (C++)** `vlm_planner_cpp_pkg`, `cpp_core/planner` | admission map and failure window in saturating int64 | as the Python planner, mock backend, no recording | does what the Python one may do |
| **Latency probe** `latency_probe_node.cpp` | pending inputs, pending completions, completed keys, all bounded | two subscriptions | genuine rows, one per command, bounded memory |
| **Runtime event logger** | an open file | append an event | - (it defines what may be missing from, or double in, the rows) |
| Camera mock; service and minimal demos | a counter, the publisher's history | publish a frame | a lost frame is lost, never mixed with another |
| Simple action node | none | forward | - |
| Bring-up, message types | - | launch the nodes, choose their topics | the topics pair up |
| **Experiment sessions** `run_formal_experiment_session.py`, `experiments/protocol` | session directory: manifest, its hash, a directory per case with `case_started.json`, evidence, `case_result.json`, `summary.json` | plan, dry run, execute, resume, audit | no case runs twice, records are final, "completed" is true, the plan is frozen |
| Evidence capture `experiments/evidence_capture`, `capture_*.py` | collector processes, artifact manifest | start, wait until ready, stop by a ladder of signals, freeze artifacts | evidence covers the run and is of one run; every collector ends |
| **Fault injection** `experiments/fault_injection`, `run_fault_condition.py` | helpers, their statuses, the case's directory | gates, bundle, start and stop of helpers and workload, finalisation | no helper outlives the script, but for two windows of a Ctrl-C; certified evidence was recorded under the fault it names |
| Diagnosis adapters `diagnosis/adapters` | none | rows, frames and records to a lifecycle or an interval | a verdict is true of what happened, whatever was lost |
| Evidence graph and inference `diagnosis/evidence_graph`, `run_diagnosis.py` | none | topology contract, stage windows, association, scoring, report | an event goes to the trace it belongs to; a cause is named only on evidence; abstains rather than guesses |
| Optimizer `optimizer`, `run_closed_loop_optimization.py`, `run_repeated_optimization_campaign.py` | a campaign directory: gate, manifest, schedule, results, decision | gate, plan, schedule, trial, decide; kill and restart | a candidate is applied only on results that support it; records are final; a formal campaign measures one commit |
| Reporting, docs, tests, tooling | - | rendering, installation | - |

Components in bold are modelled; of the backends, the camera, the sessions, the
evidence capture, the adapters, the graph and the optimizer the parts named in
section 6 are left out. Four interactions couple them:

* **messages**: the output topic of one stage is the input topic of the next,
  any message may be delivered twice or late, and each stage defends itself
  (admission in the planner, dedup and TTL in the bridge, completed keys in the
  probe);
* **threads**: the bridge and the action manager each run one executor thread
  and hand long work to a `ReapingThreadGroup`, whose `close` is part of their
  destructors;
* **files**: the planner's recording and the session directory outlive the
  process that writes them, which may be killed between any two writes; the rows
  of a run are all that the diagnosis knows of it;
* **processes**: the fault condition owns up to five, each in a session of its
  own, and each of them, the script included, may die at any moment.

Hard behaviours: timers and workers that race for one outcome (bridge); a
worker that spawns while the owner closes (group); cancels and timeouts that
arrive between two checks (action manager); duplicates that outlive a dedup
window measured from another origin (planner, bridge); lost or torn rows that a
later session reads (planner); eviction at capacity (probe); kills between the
steps that claim a case, and invocations that overlap (sessions); helpers that die under
the run or outlive it (fault condition); rows, frames and records lost or doubled
independently of each other (diagnosis); failed trials and a HEAD that moves
during a campaign (optimizer). `PROJECT.json`
lists them one by one under `hazards`, at the line where each bites.

## 2. The modules

| Module | Models | Composed of / used by |
|---|---|---|
| `CanBridge` | the bridge, executor and workers, bus and peer | implements `CommandLifecycle`; instances in `MCCanBridge`; proofs in `CanBridgeProofs` |
| `CommandLifecycle` | abstract: what the bridge promises for each delivery | `Lifecycle` instance inside `CanBridge` |
| `ReapingThreadGroup` | the thread group at the grain of its mutex and flags | proofs in `ThreadGroupProofs` |
| `ActionManager` | action server, client and `execute_goal` | proofs in `ActionManagerProofs` |
| `Planner` | frame callback, admission, recording, replay, restart | part of `PlannerLaunch`; proofs in `PlannerProofs` |
| `CppPlanner` | the C++ planner node and its core | its steps map to steps of `Planner`; part of `PlannerLaunch` |
| `PlannerLaunch` | the primary planner, the Python node or the C++ node as `planner_implementation` says | `Planner` and `CppPlanner`; instance in `MCPlanner` |
| `LatencyProbe` | both subscriptions of the probe | proofs in `LatencyProbeProofs` |
| `ExperimentSession` | sessions on disk and the processes working on them | proofs in `ExperimentSessionProofs` |
| `FaultCondition` | `run_fault_condition.py` on one case, with the processes it owns | instances in `MCFaultCondition`; proofs in `FaultConditionProofs` |
| `TraceEvidence` | the bridge's half of W1 as rows, frames and records; the ACK adapters and the topology contract that read them | part of `DiagnosisPipeline` |
| `StageEvidence` | the planner's half of W1 as rows and kernel events; stage windows, association, trial reports of F1, F2 and F5; run alone in `stage_windows` | part of `DiagnosisPipeline`; proofs in `PipelineProofs` |
| `DiagnosisInference` | scoring, ranking and the report (operators only) | used by `OptimizationCampaign` |
| `OptimizationCampaign` | closed loop and repeated campaign on disk | part of `DiagnosisPipeline`; proofs in `PipelineProofs` |
| `DiagnosisPipeline` | composition: capture, `run_diagnosis`, campaign | instances in `MCDiagnosisPipeline`; proofs in `PipelineProofs` |

In each module the VARIABLES carry the name of the member or file they stand
for in their comment; actions are named after the function, or after the step
of it, that they model. Definitions marked *mutant* are plausible bugs: they are
not part of the specification; each is a replacement for the definition that
follows it under which one property fails.

### CanBridge
A member of `Requests` is one *delivery* of a `PlannerCommand`, so a duplicated
message is two requests with one `Identity`. `job[r]` is the local state of
whatever thread handles the request. `OnPlannerCommand` validates and admits at
one reading of the clock, as `on_planner_command` does, purging the map first.
`BeginAttempt`, `ClearToSend`, `OpenAckSocket`, `SendFrame`, `StartAckWait` are
`send_attempt` cut where it sleeps or another thread can see a difference:
validation before and after `can_send_delay_ms`, the receiver bound before the
frame is written. With `ack_mode = mock` two one-shot timers are armed
(`schedule_mock_ack`, `schedule_ack_timeout`, each asking `PlanAckTerminal` by
itself); with `socketcan` a worker waits, times out and retries on the
same thread. `exec` is the executor thread: mock retries occupy it, sleeps
included. `Lifecycle` is `main` and the destructor in order: signal, flag,
`close`, join. The peer answers a frame once, at any time or never; a matching
ACK is queued at every socket that is bound at that moment.

The abstract `CommandLifecycle` accepts or refuses each delivery, never accepts
two of one command, sends at most `max_retries + 1` frames, and ends each
accepted command in one outcome while the process is up. The refinement maps a
job's place and its terminal events to `status`.

### ReapingThreadGroup
Every `lock_guard` region is entered with `Enter` and left by `Start`,
`SizeReturns` or `OutOfThreads`; `spawn`'s read of `closed_` happens under
the mutex, `close`'s store does not. The reaping loop visits the retained
handles one by one and a join blocks until the thread has exited, so holding the
mutex through a join is visible.

### ActionManager
The executor's callbacks and a worker per goal interleave freely. `execute_goal`
is cut at every reading of the goal's state (`is_canceling()` is asked up to six
times) and of the clock. `NextWait` is `next_wait_ms` of
`goal_deadline.hpp` with its two caps. Feedback messages carry nothing a
property needs and are left out.

### Planner
`Receive` is `ModelAdmission.admit` with its purge, `LeaveQueue` the check after
the queue delay, `Plan` the backend call and `_record_model_result`, `Finish` the
rest of `_plan` to the end of the callback. What a decision says is a model
value; a backend is the set of answers it may return: `MockAnswers`, what a
recording holds, or `LlmAnswers`, which `Decoded` cuts to what the client accepts of
a reply and `Guarded` turns into a failure when the client raises. `Restart` ends the session
at any step; only `rows` and `file` survive. `file` says whether the recording
is whole, lacks rows, or ends in half a row, which makes a later load fail.

### CppPlanner
The same callback in C++, with `SaturatingAdd` for every sum of clock readings,
lifetimes and windows, `Selected` for the backend (all but the mock abstain) and
no recording. The history `exact` is the admission map with unbounded integers.
Under the mapping `Python` a state of the node is one of a Python planner that has
`exact` for a map and whose every append to the recording fails; `LikePython` says
of a step that it maps to a step of that planner or to a stutter. `request_id` is a
64 bit hash here; `Key` takes it to be injective.

`PlannerLaunch` is the primary planner of `ai_runtime.launch.py`: the two nodes have
one name and the same topics, and their state is in the same variables, so that
`PlannedOnce`, `StormExact` and `FrameAnswered` speak of either. The settings of the
C++ node are its own in the instance only, to bring its clock near the largest
integer. A relaunch keeps the implementation, and the shadow planner, whose topics
nobody reads, is left out.

### LatencyProbe
One action per subscription, with the eviction of `begin()` of an unordered
container as any element. Timestamps are positive as `on_input` and
`on_completion` require.

### ExperimentSession
Each process is somewhere in `run_formal_session`, `_resume_session` or
`_execute_and_finish`; there is one action per file operation that another
process, or a later one, can see. `_write_json` of the session script replaces a
file atomically and is one step; `session_integrity._write_json` and the hash
sidecar are written in place and take two, with a torn file in between. `Verify`
may refuse for reasons outside the model (arguments, Git state, matrix hash); `PlanRefused` is
`build_session_manifest` raising, for whatever reason, after the directory was made.
`Kill` leaves the files as they are; it also stands for the exceptions of two
processes that use one temporary name. `Change` is any later loss or
modification of evidence that a result lists.

### FaultCondition
`pc` is the step of `execute_condition` (and of `main` before it); each action is
a step another process, a Ctrl-C or a kill can come before. `Interrupt` is the
Ctrl-C by the handler it meets: none (`InterruptAlone`), the except block of
`start_socketcan_capture` (`InterruptCapture`), the `finally` of the try block
(`InterruptTry`), a cleanup (`InterruptCleanup`), and again none between the return of the
capture and the try block (`InterruptHandover`, the step `handover`). Inside `Popen`
it comes before the process exists or after it runs and before it is assigned;
`Lost` has the helpers whose handle the script lost to it. A step that can raise
has a disjunct that does: `FailInTry` unwinds through the `finally` that stops the
helpers, `Fail` ends a script that has none to stop yet. `queue` holds the helpers
the cleanup has still to stop and `NextHelper` its order; `PollHelper`, `GracefulStop` and
`ForcedKill` are `stop_process`, so that a helper may exit between the poll and
the signal. `early` has the helpers that died while the workload ran, which is
what the manifests must not hide; `strays` what an earlier run left running.
What a capture needs of its platform is named: `VcanRefused` and `PairRefused` for
the links candump listens on, `EbpfRefused` for a summary of lost or missing events,
`OutputThere`, `Exported` and `Measured` for the files main goes on with.
`files` says for each file of the directory which run wrote it: a second run gets
a new directory, as the session gives it, or the same one, as an operator may.
`Qualify` is the session's gate and `Gate` the script's, with the git tree free to
move in between. Contents of documents are reduced to whether their check passes.

### TraceEvidence
The bridge is walked attempt by attempt, coarser than in `CanBridge`: what matters
here is the order of its rows. Each row is written once, twice or not at all;
candump and the responder miss frames on their own; `Cut` is `timeout(1)`. `truth`
remembers what happened, so that `Verdict` (the adapters) and `Topology` (the
contract) can be compared with it. All commands are alike because a frame carries
no trace id; matching records to attempts is a choice of any assignment within the
adapter's rules, as record times are not kept beyond their order.

### StageEvidence
Camera, planner threads and a kernel probe share one clock that ticks at every
step. `Ended` has the rows of each way a planning ends, with the durations the
planner declares. `Windows`, `Covers`, `Best` and `Associate` are
`build_stage_windows` and `associate_system_event` for events of the planner's
process; `Verdicts` are the per-trace verdicts of the trial reports. `Dispatched`
and `Delivered` are what the F2 and the F5 adapter derive between the first rows of
a frame, each for the captures of its fault.

### DiagnosisInference
`Report(e, p)` is `infer_trace` and `build_diagnosis_report` for the evidence `e`
of a trace (topology, terminal, kinds of node present, and for each metric a high
or a low reading or none) under a profile `p`. A metric whose kind is present may
have no reading: its stage has no window in this trace, or the node carries only one
of its attributes. `_score_cause` then counts it neither for nor against a cause nor
as missing, and a cause of which nothing is read is `not_observed`. Confidence and completeness are fractions, compared
without division.

### OptimizationCampaign
`files` is the output directory. `Gate`, `Schedule`, `Trial` (`TrialRun` is the
child process), `DecideClosed` and `DecideRepeated` each write what the script writes
at that point; `OverBudget`, `BaselineRejected` and `RecordsRefused` are the errors
that end it with the directory half filled. `OutputFree` is the refusal of an existing directory. A
failed and an invalid trial are one outcome. The bootstrap is abstracted to what is
true of it for any sample: its lower bound lies between the smallest pair and the
largest. What a trial measures is the build under `safe_root/install`; the commit
in `measured` is the one the trial checked.

### DiagnosisPipeline
A capture is followed through one half of W1, `Capture` for the bridge's or
`CapturePlanner` for the planner's; the other half may then show anything. `Pick`
and `PickPlanned` are `run_diagnosis --trace-id`: they keep the topology verdict
and bounds of the node kinds of the chosen trace and forget the rest, `Infer`
chooses what else was measured within these bounds and makes the report,
`Optimize` takes the campaign's steps. A report is settled when the gate reads it.
Names are kept apart across the three parts (`logged`/`log`, `fate`/`truth`,
`captured`/`capturing`), since they share one state here.

## 3. The runs

| Run | Instance | What it shows |
|---|---|---|
| `bridge_socketcan` (1.4M states) | two commands on one CAN id with different payloads, sockets that fail, ACKs awaited or switched off, destruction at any time | `OneTerminal`: one terminal event at most, last; `EarlyAckKept`: an ACK that comes before the wait is not lost; `AckIsGenuine`: an ACK is for one's own frame; `QuietAfterEnd`: no frame is sent once the destructor has ended |
| `bridge_promise` (0.2M, liveness) | three deliveries: a command, its duplicate, and one of the same identity stamped later; window 3 > TTL 2 + skew 0; one retry; a working bus, or mock ACKs that drop the first | `AdmissionsSpaced`: admissions of an identity are a window apart. `AdmittedOnce`: hence one admission per command. `ExactlyOneTimer`: one pending timer per waiting attempt, never both, never none. `SendsFitLifetime`: sends are spaced by timeout and backoff within the command's life. `KeepsPromise`: `CanBridge` implements `CommandLifecycle`, its liveness included. `ShutdownCompletes` |
| `thread_group` (55k, liveness) | three workers and the owner | `ClosedIsEmpty`, `JoinsOnlyOthers`, `RetainedInFlight`, `CloseCompletes` |
| `action_goals` (10k, liveness) | work 4, period 2, no timeout, one inside the work, one after it | `SuccessInTime`, `CancelHonoured`, `GoalAnswered` |
| `action_stage` (violation) | the same | finding 1 |
| `planner` (0.2M, liveness) | a frame, its duplicate, a later frame of the same scene; two sessions; of the Python node with llm, replay and recording faults, or of the C++ node with a window as long as its integers and the later frame at the largest | `PlannedOnce`, `StormExact`, `ReplayFaithful`, `FrameAnswered`; `AgreesWithPython`: where the integers of the C++ node saturate, no verdict changes |
| `latency_probe` (9k) | two commands, capacity 1, 2 and 3, six messages | `SampledOnce`, `NoPairMissed` |
| `session` (1.7M) | two processes, three invocations, two cases | `ExecutedOnce`, `TerminalKept`, `CompleteIsTrue`, `ManifestFrozen` |
| `session_resume` (violation) | one process, one case, two invocations | finding 2 |
| `fault_condition` (1.4M, liveness) | eleven cases over every fault, both variants, roles the gates pass and refuse, mock, vcan and physical bus; a fit platform and a WSL one; two runs | `HelpersReleased`: no helper outlives a script that is not killed and whose cleanup is not interrupted, but for those a Ctrl-C cost it its handle of: one inside its `Popen`, or candump and the responder before the try block; `CertifiedCovered`: certified evidence was recorded under the condition it names; `EvidenceOfOneRun`: a manifest never mixes two runs; `QualifiedRuns`: the gates of session and script agree; `Settles`: every process ends, the same ones excepted |
| `pipeline` (0.4M) | bridge half: two commands, one retry, mock or vcan, one lost or doubled record; planner half: two frames, history 1, two threads, one kernel event, one lost or doubled row; three values, two or four candidates, two blocks | `AckEvidenceTrue`: an accepted ACK lifecycle is the one that happened; `CompleteLifeAdmitted`: an undamaged capture is taken at its word; `AttributionSound`: a kernel event is not given to another trace; `MeasuredTruly`: trial reports count and time what happened; `GateNeedsCause`: a campaign starts only on a confirmed cause; `DecisionSupported`: a configuration is applied only on results that support it; `RecordsFinal`: a campaign's records stay |
| `stage_windows` (violation) | two frames, one thread, an undamaged capture | finding 3 |

`TypeOK` of the modules, and `SleepWithinBudget`, `OneSide`, `WithinCapacity`,
`RowsGenuine`, `PublishedForSuccess` and `FormalFromOneCommit`, appear in no run: they are proved
(section 5; the `TypeOK` of `FaultCondition` and `CppPlanner`
documents the state).

**Bounds and why they are enough.** Clocks stop at `MaxTime` (`MaxAge`), which
exceeds the longest chain of waits the instance can produce before the TTL makes
every further step a refusal; what happens at the horizon is what happens when
time stands still. In `bridge_promise` it lies past the window, so an entry is
purged and its identity admitted again. `bridge_socketcan` stops earlier: its
properties concern overlap, not pace. Two requests are enough for every pairwise
property (`AdmittedOnce`, `AckIsGenuine`); the third is there for the later stamp.
Two workers can spawn each other and a third lets one be reaped while another
spawns. One goal is enough because goals share nothing but the executor, which
takes no time. Two sessions are one recording and one replay; a third would
replay more rows of the same kinds. Capacities 1 to 3 against two commands are
below, at and above the boundary; six messages are a repeat on either side. Two
processes and three invocations are a session, a resume, and a third that
overlaps either. In `fault_condition` one poll for live processes fails or
succeeds, and two runs are a run and one that follows it, in the same directory or
not; a third would meet the same files. For the C++ planner the largest integer is 6
and time stops at 5: every expiry saturates, and so do the deadline of the late frame
and the bound on a stamp from the future. In `pipeline` two commands (frames) are
needed for a record to be taken for another's; one retry is the first at which the
order of rows restarts; one fault against two independent recorders shows each
partial loss, and faults on both sides are what two faults would add (checked
separately with two faults on the bridge's half while the module was written). Two
blocks are enough to compare with the wrong baseline; the four outcomes are no
gain, gain, gain with a worse trace rate, and zero; HEAD moves once because a
second move could only restore it. `received`, `invocations`, `session`, `run`,
`faults`, `rowFaults`, `moves` and `now` are the only bounded counters; a run that uses one up stops, hence `CHECK_DEADLOCK FALSE`
where nothing else is left to do (`CanBridge` has `Terminated` instead, and the
thread group can always call again).

**Fairness.** Threads that can run do run: weak fairness of each thread's steps,
and of the clock. It is weak because no thread loses a chance to run for ever:
the mutex of the group is held for finitely many steps, and bodies end since
every wait is a timed `select`, a `sleep_for`, or a loop that tests the shutdown
flag. No fairness for what need not happen: signals, cancels, ACKs, restarts and
kills, and deliveries. `FrameAnswered` relies on the backend call returning,
which `llm_timeout_s` ensures. In `FaultCondition` the script runs on, `timeout(1)`
ends the workload and the capture script climbs its ladder of signals: each has a
deadline in the code; helpers need no fairness, the cleanup ends them. Sessions,
campaigns and the probe have no liveness property: nothing obliges an operator to
resume.

## 4. Findings

1. **`action_stage`**: `execute_goal` asks `is_canceling()` once for the name of
   the failure event and once more for its stage. A cancel accepted in between
   gives `action_goal_timeout` with stage `action_cancelled`, or the reverse. The
   package's README has one stage for each event name.
2. **`session_resume`**: a case is claimed by creating its directory and then
   writing `case_started.json`. A kill between the two leaves a directory that
   neither `mark_interrupted_runs` nor the skip in `_execute_and_finish`
   recognises, and `mkdir(parents=True)` raises `FileExistsError` on every later
   `--resume`. The README says an interrupted session is continued with `--resume`.

3. **`stage_windows`**: `build_stage_windows` gives an unpaired row, the end rows
   of a planning included, the window from its time to its time plus its
   duration. The planner stamps these rows at the end and the duration looks back,
   so for as long as a planning took, what its thread does afterwards is accepted
   for the finished trace. `docs/fusion/TRACE_STAGE_ASSOCIATION.md` says that
   executor waiting remains background. `AttributionSound` is what survives: an
   event in the interval of a planning is that planning's, and an event of a
   finished planning is given to it or found ambiguous, never given to another.

Not findings, but worth knowing, each met while modelling:

* bridge: an ACK cannot be told apart from one for another request with an
  identical frame (`AckIsGenuine` is stated up to the frame's content);
  `AdmittedOnce` needs `Window > Ttl + Skew`, which the defaults satisfy and the
  constructor does not check; `max_retries` is read as a 64 bit integer and cast to
  32 bits unchecked (`can_bridge_node.cpp:113`); a command is stamped when it is
  published, so the TTL bounds the age of the command, not of the observation;
* probe: with exactly `max_pending_samples` commands a repeated input evicts
  another's (`NoPairMissed` needs one fewer);
* sessions: when invocations overlap a resume can mark a running case interrupted
  and the runner replaces that record (`TerminalKept` assumes no overlap,
  `ExecutedOnce` does not);
* fault condition: a Ctrl-C between the return of `start_f6_socketcan_capture` and the
  `try` (`run_fault_condition.py:561-569`), or inside a `Popen`, leaves candump and
  the responder, which have no timeout, running after the script
  (`HelpersReleased` and `Settles` except what is `Lost` by name);
* adapters: rows of ACK and compute-delay adapters cannot enter the graph, whose
  builder knows no node type for them; dispatch and DDS bounds are associated by
  stage and time, without the trace id they carry; a planning that fails counts as
  complete in the F1 trial report and is refused by the F1 adapter;
* inference: a profile with `minimum_score` and `minimum_margin` of zero lets a tie
  be "diagnosed" with confidence 0, and only a positive `minimum_confidence` stops
  it (`GateNeedsCause` rests on that); `run_diagnosis` never yields the partial or
  invalid availability the report provides for, and as every catalogued cause has a
  registered action the gate's `no_registered_action` cannot occur;
* optimizer: trials measure the build under `safe_root/install`; the commit they
  record is that of the source tree.

## 5. What is proved

All theorems are of the form `Spec => []Inv` or `Spec => [][A]_vars`, for all
values of the constants that satisfy the named ASSUMEs: any number of requests,
workers, goals, frames, threads, keys, cases, processes and candidates, any
durations and windows. Two exceptions: `ImplementsLifecycle` states that the
bridge implements the safety part of `CommandLifecycle`, and the theorems on the
campaign alone hold of `CampaignSpec`, which `Spec` implies (`RunsCampaigns`).

| Module | Theorems | The inductive invariant and why it is needed |
|---|---|---|
| `CanBridgeProofs` | `TypeCorrect`, `AdmissionSpacing`, `NoDoubleAdmission`, `OneEnd`, `TimersExclusive`, `QuietAtTheEnd`, `NoAckLost`, `GenuineAcks`, `RetriesFitLifetime`, `ImplementsLifecycle` | `AdmissionInv`: `AdmittedOnce` does not say why a duplicate is refused. The map's entry of an identity is either at least as late as every admission of it, or absent only when a window has passed since all of them; an admitted command was valid when admitted, and `Window > Ttl + Skew` closes the gap. `PlaceInv`: the place of a request determines its terminal events, its timers and its socket, and where the executor and the destructor are. `AckInv`: a frame on the wire or answered is one that was sent, and an answer to the attempt a request waits for is in its receiver, because the receiver was open before the frame was sent. `PaceInv`: between two sends lie one timeout and one backoff, written as a bound on the time of the latest send in each place. The refinement maps each action to a step of `CommandLifecycle` or a stutter under `PlaceInv` |
| `ThreadGroupProofs` | `NothingOutlivesClose`, `NoSelfJoin`, `GroupInFlight` | a worker is in exactly one of `retained` and `pending` from its start to its join; only the mutex holder reaps, and `scan` is a part of `retained`; the handles are taken after `closed_` is set and with the mutex free, so none is added later |
| `ActionManagerProofs` | `TypeCorrect`, `OnlySuccessesPublished`, `NoLateSuccess`, `CancelNotLost`, `NoOvershoot` | ties the worker's place to the goal's state: terminal only at `end`, `succeed` only after a check whose age and cancel flag are in the history variables |
| `PlannerProofs` | `TypeCorrect`, `NoDoublePlanning`, `StormsExact`, `ReplayIsFaithful` | `AdmissionInv`: an admitted frame's key is in the map until its deadline has passed, because the expiry is measured from the later of deadline and admission. `StormInv`: failures are in order of time and the window kept is the history less a beginning that has expired, so that what a purge removes is a prefix and what it leaves is exactly what is recent. `ReplayInv`: every row is of a frame that has that answer, and of every such frame while the file is whole; what a replay session loaded is of earlier sessions; an answer replayed is faithful before it is checked, and later answers do not disturb it |
| `LatencyProbeProofs` | `NoPairLeftWaiting`, `MemoryBounded`, `OnlyGenuineRows`, `NoDoubleSample`, `EveryPairFound` | each entry is backed by a message seen; with few enough keys no eviction and no clearing ever happens, by counting, so a key once seen is waiting or completed |
| `ExperimentSessionProofs` | `NeverRerun`, `RecordsAreFinal`, `NoFalseCompletion`, `PlanIsFrozen` | one process at most creates the plan and one at most is between the directory of a case and its result, which has not been executed before; a `successful` result belongs to a case executed once, to success; without overlap all other processes are idle and the case a process is about to write has no result |
| `FaultConditionProofs` | `OneRunPerDirectory`, `HelpersEnd`, `CertifiedIsCovered`, `GatesConsistent` | four invariants. `FileInv`: no two files are of different runs, the run manifest is the first, and whoever can still write owns the bundle. `ProcInv`: what is up is queued for the cleanup, or its handle was lost to a Ctrl-C. `EarlyInv` and `CertInv`: only what was up when polled is sent a SIGINT, so that `graceful_sigint` says it lived under the workload. `GateInv`: a tree that moved never comes back |
| `PipelineProofs` | `RunsCampaigns`, `OneCommit`, `RecordsStay`, `ActsOnConfirmedCause`, `DecisionsSupported`, `AttributesSoundly`, `MeasuresTruly`, `AcceptsTruly`, `AdmitsWholeLives` | `CampaignInv`: the directory is absent or whole, what the step a campaign is at has yet to write is not there, and a trial of a formal campaign counts only at the commit its qualification names. `DecisionInv`: the schedule written is one of the campaign's mode, and a closed loop whose baseline failed has ended; on a complete record the averages of paired results are then those of the decision. `PipelineInv`: a row of a terminal event is of a command that ended, so a confirmed topology is of one, through the picked trace to the report; that a named cause is singled out is then a fact about `Report` alone (a best score with a positive margin is unique). `StageInv`: the rows of each trace are those of what happened to it, each at the tick it happened (`LogsInv`, `FateInv`); one thread plans one frame at a time and in order (`BusyInv`, `InTurn`); the kernel event carries the thread's place (`ProbeInv`). Two windows of a thread then overlap only in a finished planning's look-ahead. `LifeInv`: the step the bridge is at says what its command has been through (`PlaceInv`); the row of an end, by its retry count alone, tells how the command came to it (`EndsTold`), so that counts that fit the terminal row fit the truth; and without faults each row follows the one of the step before it, and waits, timeouts and retries are numbered without gaps (`Undamaged`). No frame stands for two attempts because each verdict takes its frames and records from what the ones before it left, which is an induction along the adapter's loop, not a state invariant |

The proof of each step has one case per action; actions that do not touch the
variables of a conjunct are dismissed together. The assumptions are those of the
modules. Three deserve a word: `IsProfile` is what `ScoringProfile.from_dict`
accepts, `Thresholds \subseteq Fraction \X Fraction` what the gate's
`_validate_threshold` does, and a `Frame` of `CanBridge` is a record of id and
payload. `RetriesFitLifetime` leaves out sends after the horizon `MaxTime`: time
stands still there, and a sleep the horizon cuts short is no evidence of pace.

Induction over data is done in set form where a proof needs it: a set of naturals
has a least element (`NatMin`, from the library's well-founded induction), a fold
is shown to have a unique value by induction on the set of indices at which it
has, and sums, counts and maxima over rows and trials follow from that. A fold over
a sequence is then a chain of values, one per element (`FoldLeftChain`), along
which the adapters' loops are followed. Only the library's theorems that take an
operator as a parameter cannot be used.

Only model-checked is liveness (`ShutdownCompletes`, `CloseCompletes`,
`GoalAnswered`, `FrameAnswered`, `Settles`, the fair part of `KeepsPromise`):
liveness under fairness and ENABLED are out of the prover's reach. Every safety
property that a passing run checks is also proved, except
`AgreesWithPython`; what is proved of `Planner` is checked of the C++ node.

## 6. What is not modelled

The components in plain type in the table of section 1 that no module of section 2
names, and inside the modelled components:

* nodes: frame encoding (`Frame` is a constant), feedback messages, event texts,
  the prompt and the requests of a backend, the replay client and the record types
  of the C++ core (its node uses neither), the C++ contention timer (it has no
  state), the simple action node (it forwards), launch files. A restart of
  the bridge: its dedup map is in memory and the repository claims deduplication
  within a process only. Unspecified order of evaluation in the C++ code is taken
  as written (finding 1 does not depend on it);
* sessions and cases: the order, rows and command lines of a manifest, the contents of
  documents (good, bad or none), child processes that survive the kill of their
  session, the output formats of bpftrace and candump;
* evidence: the adapters of the service chain (W2) and of blocking delay (F4), the
  parsing of eBPF and tracetools files, clock calibration, the summaries of
  distributions and the `compare_f*.py` statistics: they compute on complete files
  and keep no state; W3 and other chains than W1; callback identities;
* diagnosis and optimizer: the C++ twins, the legacy samplers and search spaces,
  the rendering of reports. The paired bootstrap appears by its bounds only.

Read but not modelled: `scripts/run_ai_planner_campaign.py:242` expects a stage
`planner_duplicate_request` of its condition A3, and `ai_campaign_contract.py:68`
counts it; both planners log a duplicate under the stage `planner_request_rejected`
and give `planner_duplicate_request` as its `reason_code` only.

Deliberate simplifications: a failed and an invalid trial are one outcome; `pilot`
stands for development and pilot among the kinds of campaign; the bridge's rows in
`TraceEvidence` are coarser than the bridge itself, and the adapter's tolerance of
10 ms for records out of order (`ORDER_TOLERANCE_NS`) is left out; the twelve
stages of W1 before the bridge stand as one row; the files of a campaign are
written in one step each; `TrialRun` checks HEAD and measures in one step, where
the script reads HEAD at its start and the workload runs for seconds after;
`Assess` reads the evidence of a case and writes its result in one step.

## 7. Plan

Done, in this order: `CanBridge` with `CommandLifecycle`, `ReapingThreadGroup`,
`ActionManager`, `Planner`, `LatencyProbe`, `ExperimentSession`, and their proofs;
then `FaultCondition`, `TraceEvidence`, `StageEvidence`, `DiagnosisInference`,
`OptimizationCampaign`, their composition `DiagnosisPipeline`, and
`FaultConditionProofs`, `PipelineProofs`; then the remaining safety invariants of the
bridge with the safety half of its refinement, of the planner, of the campaign, of
the stage windows and of the ACK evidence; then `CppPlanner` and `PlannerLaunch`.

Next:

1. The decision schema and `validate_decision` as a pure module, for both planners;
   a proof of `AgreesWithPython`.
2. The evidence of the service chain and of blocking delay, as a third half of
   `DiagnosisPipeline`.
3. Planner, action manager and bridge in composition, for the age of the
   observation behind a frame on the bus.
