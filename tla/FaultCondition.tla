--------------------------- MODULE FaultCondition ---------------------------
(***************************************************************************)
(* One case of a formal session: scripts/run_fault_condition.py and the    *)
(* processes it owns.  The script starts up to three helpers in sessions   *)
(* of their own (the F3 stressor, candump and the F6 responder), the ROS   *)
(* workload, and bpftrace through capture_ebpf_runtime.py; each of them    *)
(* may die at any moment.  A failed step raises, an operator may press     *)
(* Ctrl-C, the script may be killed, and a later repetition runs after it, *)
(* in a directory of its own or in the same one.  The session's            *)
(* qualification report is computed once, the git tree moves on.           *)
(* What a document contains is abstracted to whether it passes its check.  *)
(***************************************************************************)
EXTENDS Naturals, Sequences, FiniteSets

CONSTANTS Cases,          \* the cases to run: records of Case
          Platforms,      \* the platforms: [sound, wsl, ready]
          MaxPolls,       \* bound of the polls for live processes (50)
          MaxRuns         \* bound of the invocations that follow each other

ASSUME BoundsAssumption == MaxPolls \in Nat /\ MaxRuns \in Nat \ {0}

VARIABLES case, platform, tree, report,        \* inputs, git, qualification
          run, pc, poll, queue, why, cut,      \* the script
          proc, sent, status, early, exit,     \* its processes
          log,                                 \* what the CAN helpers wrote
          seen,                                \* snapshots: captured, sched
          files,                               \* directory: role -> run
          strays                               \* processes an earlier run left

inputs == <<case, platform, tree, report>>
script == <<run, pc, poll, queue, why, cut>>
procs  == <<proc, sent, status, early, exit>>
vars   == <<inputs, script, procs, log, seen, files, strays>>

-----------------------------------------------------------------------------
(* Cases and the two gates they pass: the session's and the script's.      *)

Faults   == {"F1", "F2", "F3", "F4", "F5", "F6"}
Roles    == {"development", "pilot", "calibration", "test"}
Case     == [fault : Faults, variant : {"control", "injected"}, role : Roles,
             transport : {"mock", "vcan", "physical"}]
ASSUME CasesAssumption == Cases \subseteq Case

Helpers  == {"stress", "responder", "candump"}
Procs    == Helpers \cup {"workload", "bpftrace"}

Formal(role)    == role \in {"calibration", "test"}
ChildRole(role) == IF role = "pilot" THEN "development" ELSE role

\* formal_experiment_matrix.json: what a case needs of the platform.
Requirements(c) ==
    {"runtime_event"}
      \cup (IF c.fault \in {"F2", "F3", "F5"} THEN {"ros2_tracing"} ELSE {})
      \cup (IF c.fault \in {"F3", "F4"} THEN {"identity_comparable_ebpf"} ELSE {})
      \cup (IF c.fault = "F3" THEN {"cpu_control", "scheduling_tools"} ELSE {})

\* Mutant: the session does not know that F5 is for development.
MRoleErrors(c) ==
    Formal(c.role) /\ c.variant = "control" /\ c.fault \notin {"F3", "F4"}

\* _role_errors: the cases the script refuses to run in a formal role.
RoleErrors(c) ==
    /\ Formal(c.role)
    /\ \/ c.variant = "control" /\ c.fault \notin {"F3", "F4"}
       \/ c.fault = "F5"

\* The report freezes the verdict and the tree it was given for.
Qualification(c) ==
    [allowed |-> /\ platform.sound
                 /\ ~(platform.wsl /\ Formal(c.role))
                 /\ ~(tree.dirty /\ Formal(c.role))
                 /\ Requirements(c) \subseteq platform.ready
                 /\ ~RoleErrors(c),
     tree    |-> tree]

\* The qualification the child re-checks against the tree of its own start.
FormalAllowed(c) ==
    Formal(c.role) =>
        /\ report.allowed
        /\ report.tree.commit = tree.commit
        /\ ~report.tree.dirty /\ ~tree.dirty
        /\ c.variant = "control" => c.fault \in {"F3", "F4"}
        /\ c.fault # "F5"

\* require_capabilities: SocketCAN belongs to F6 and to development.  The
\* session passes the capabilities of the catalog, so none is missing.
TransportAllowed(c) ==
    c.transport # "mock" =>
        c.fault = "F6" /\ ChildRole(c.role) = "development"

\* create_fault_manifests repeats these limits for the two manifests.
ManifestsAllowed(c) ==
    /\ TransportAllowed(c)
    /\ ChildRole(c.role) # "development" =>
          c.fault # "F5" /\ (c.variant = "control" => c.fault \in {"F3", "F4"})

GateOpen(c) == FormalAllowed(c) /\ TransportAllowed(c) /\ ManifestsAllowed(c)

\* fault_capture_plan, with the capabilities the catalog requires.
Traced(c)   == c.fault \in {"F2", "F3", "F5"}
EbpfOn(c)   == c.fault \in {"F3", "F4"}
NeedsPids(c) == Traced(c) \/ EbpfOn(c)
Stressed(c) == c.fault = "F3" /\ c.variant = "injected"

BaseRoles  == {"runtime_events", "run_manifest", "oracle_manifest",
               "command_manifest", "fault_summary"}
TraceRoles == {"process_manifest", "clock_calibration", "ros2_ctf",
               "ros2_events", "ros2_events_manifest"}
EbpfRoles  == {"process_manifest", "ebpf_events", "ebpf_capture_summary"}
RequiredRoles(fault) ==
    BaseRoles
      \cup (IF fault \in {"F2", "F3", "F5"} THEN TraceRoles ELSE {})
      \cup (IF fault \in {"F3", "F4"} THEN EbpfRoles ELSE {})
      \cup (IF fault = "F3" THEN {"scheduler_manifest"} ELSE {})

\* export_ros2_evidence reads the CTF directory into two documents.
Exported(c) == IF Traced(c) THEN {"ros2_ctf", "ros2_events", "ros2_events_manifest"} ELSE {}

\* measurement_paths and the paths main adds, as the steps below collect them.
MeasuredRoles(c) ==
    BaseRoles
      \cup (IF NeedsPids(c) THEN {"process_manifest"} ELSE {})
      \cup (IF Traced(c) THEN {"clock_calibration"} ELSE {})
      \cup Exported(c)
      \cup (IF EbpfOn(c) THEN {"ebpf_events", "ebpf_capture_summary"} ELSE {})
      \cup (IF c.fault = "F3" THEN {"scheduler_manifest"} ELSE {})

Bundle    == <<"run_manifest", "oracle_manifest", "command_manifest">>
FileNames == BaseRoles \cup TraceRoles \cup EbpfRoles
               \cup {"scheduler_manifest", "socketcan_capture_manifest",
                     "artifact_manifest", "can_logs"}

-----------------------------------------------------------------------------
NoProcs == [p \in Procs |-> "none"]

Init ==
    /\ case \in Cases
    /\ platform \in Platforms
    /\ tree \in [commit : {1}, dirty : BOOLEAN]
    /\ report = [allowed |-> FALSE, tree |-> tree]
    /\ run = 1 /\ pc = "qualify" /\ poll = 0 /\ queue = {}
    /\ why = "" /\ cut = FALSE
    /\ proc = NoProcs /\ sent = {} /\ early = {} /\ exit = "none"
    /\ status = [h \in Helpers |-> "not_applicable"]
    /\ log = {} /\ seen = {}
    /\ files = [f \in FileNames |-> 0]
    /\ strays = {}

At(label) == pc = label
Goto(label) == pc' = label /\ UNCHANGED <<run, poll, queue, why, cut>>
Write(names) == files' = [f \in FileNames |-> IF f \in names THEN run ELSE files[f]]

\* A raise before the try block of execute_condition leaves the script.
Fail(step) ==
    /\ pc' = "done" /\ why' = step
    /\ UNCHANGED <<run, poll, queue, cut>>

\* The helpers a finally or except block has to stop.
Started == {h \in Helpers : proc[h] # "none"}

\* Mutant: the helpers are started before the try block.
MFailInTry(step) == Fail(step)

\* A raise inside the try block: the finally block stops the helpers.  The
\* workload is not among them.
FailInTry(step) ==
    /\ pc' = "cleanup" /\ why' = step
    /\ queue' = Started
    /\ UNCHANGED <<run, poll, cut>>

\* A raise inside start_socketcan_capture.
FailInCapture(step) ==
    /\ pc' = "unwind" /\ why' = step
    /\ queue' = Started
    /\ UNCHANGED <<run, poll, cut>>

StartProc(p) == proc' = [proc EXCEPT ![p] = "up"]

\* Where a Ctrl-C costs the script its handles, by the reason it ends for:
\* Popen has a process running before anything is assigned, and between the
\* return of start_socketcan_capture and the try block nobody stops its two.
Losses == [candump_lost   |-> {"candump"},
           responder_lost |-> {"responder"},
           capture_lost   |-> {"candump", "responder"},
           stress_lost    |-> {"stress"}]
LostBy(step) == IF step \in DOMAIN Losses THEN Losses[step] ELSE {}
Lost == LostBy(why)

-----------------------------------------------------------------------------
(* The session's gate and the script up to its first process.              *)

Qualify ==
    /\ At("qualify")
    /\ report' = Qualification(case)
    /\ \/ /\ report'.allowed \/ case.transport # "mock"   \* run by hand
          /\ Goto("gate")
       \/ /\ ~report'.allowed /\ case.transport = "mock"
          /\ Fail("denied")
    /\ UNCHANGED <<case, platform, tree, procs, log, seen, files, strays>>

Gate ==
    /\ At("gate")
    /\ IF GateOpen(case) THEN Goto("bundle") ELSE Fail("gate")
    /\ UNCHANGED <<inputs, procs, log, seen, files, strays>>

\* Mutant: the bundle is written over an earlier one.
MBundleFree == TRUE

\* No file of the bundle may be there before the first one is written.
BundleFree == \A i \in DOMAIN Bundle : files[Bundle[i]] \in {0, run}

WriteBundle ==
    /\ At("bundle")
    /\ \/ \E i \in DOMAIN Bundle :
             /\ BundleFree
             /\ files[Bundle[i]] # run /\ \A j \in 1 .. i - 1 : files[Bundle[j]] = run
             /\ Write({Bundle[i]})
             /\ IF i = Len(Bundle) THEN Goto("calibrate") ELSE UNCHANGED script
       \/ /\ ~BundleFree
          /\ Fail("bundle exists")
          /\ UNCHANGED files
    /\ UNCHANGED <<inputs, procs, log, seen, strays>>

\* Setup checks and, for a traced case, the clock calibration.
Calibrate ==
    /\ At("calibrate")
    /\ \/ /\ Write(IF Traced(case) THEN {"clock_calibration"} ELSE {})
          /\ Goto(IF case.transport = "mock" THEN "stress" ELSE "candump")
       \/ Fail("setup") /\ UNCHANGED files
    /\ UNCHANGED <<inputs, procs, log, seen, strays>>

-----------------------------------------------------------------------------
(* start_socketcan_capture.                                                *)

CandumpStarts ==
    /\ At("candump")
    /\ files["can_logs"] = 0
    /\ Write({"can_logs"}) /\ StartProc("candump") /\ Goto("candump_wait")
    /\ UNCHANGED <<inputs, sent, status, early, exit, log, seen, strays>>

\* Outputs exist, there is no candump, or the link is no vcan that is up.
VcanRefused ==
    /\ At("candump") /\ case.transport = "vcan"
    /\ Fail("interface")
    /\ UNCHANGED <<inputs, procs, log, seen, files, strays>>

\* inspect_physical_can_pair: two links, both up and at the bitrate.
PairRefused ==
    /\ At("candump") /\ case.transport = "physical"
    /\ Fail("interface")
    /\ UNCHANGED <<inputs, procs, log, seen, files, strays>>

\* The logs are open, candump cannot be started.
CandumpFails ==
    /\ At("candump") /\ files["can_logs"] = 0
    /\ Write({"can_logs"}) /\ FailInCapture("candump")
    /\ UNCHANGED <<inputs, procs, log, seen, strays>>

StartCandump == CandumpStarts \/ CandumpFails \/ VcanRefused \/ PairRefused

StartResponder ==
    /\ At("candump_wait")
    /\ \/ proc["candump"] = "up" /\ StartProc("responder") /\ Goto("ready_wait")
       \/ proc["candump"] = "up" /\ FailInCapture("responder") /\ UNCHANGED proc
       \/ proc["candump"] = "dead" /\ FailInCapture("candump") /\ UNCHANGED proc
    /\ UNCHANGED <<inputs, sent, status, early, exit, log, seen, files, strays>>

\* wait_for_responder_ready: a dead responder or three seconds end the wait.
ResponderReady ==
    /\ At("ready_wait")
    /\ \/ proc["responder"] = "up" /\ "ready" \in log /\ Goto("handover")
       \/ /\ proc["responder"] = "dead" \/ "ready" \notin log
          /\ FailInCapture("readiness")
    /\ UNCHANGED <<inputs, procs, log, seen, files, strays>>

-----------------------------------------------------------------------------
(* The try block of execute_condition.                                     *)

\* The capture is returned, assigned, and the try block entered.
EnterTry ==
    /\ At("handover") /\ Goto("stress")
    /\ UNCHANGED <<inputs, procs, log, seen, files, strays>>

\* The log cannot be opened, or there is no stress-ng.
StartStress ==
    /\ At("stress")
    /\ \/ Stressed(case) /\ StartProc("stress") /\ Goto("stress_wait")
       \/ Stressed(case) /\ UNCHANGED proc /\ FailInTry("stress")
       \/ ~Stressed(case) /\ UNCHANGED proc /\ Goto("launch")
    /\ UNCHANGED <<inputs, sent, status, early, exit, log, seen, files, strays>>

StressAlive ==
    /\ At("stress_wait")
    /\ \/ proc["stress"] = "up" /\ Goto("launch")
       \/ proc["stress"] = "dead" /\ FailInTry("stress")
    /\ UNCHANGED <<inputs, procs, log, seen, files, strays>>

\* The workload runs under timeout(1) in a session of its own.
SpawnWorkload ==
    /\ StartProc("workload")
    /\ early' = {h \in Helpers : proc[h] # "up"}

Launch ==
    /\ At("launch")
    /\ \/ SpawnWorkload /\ Goto(IF NeedsPids(case) THEN "poll" ELSE "wait")
       \/ UNCHANGED <<proc, early>> /\ FailInTry("launch")
    /\ UNCHANGED <<inputs, sent, status, exit, log, seen, files, strays>>

AfterPoll == IF case.fault = "F3" /\ "captured" \in seen' THEN "scheduler"
             ELSE IF EbpfOn(case) THEN "ebpf" ELSE "wait"

\* A process manifest needs events that name the nodes, and the nodes alive.
Observable == proc["workload"] = "up" /\ files["runtime_events"] # 0

\* One turn of the polling loop.  A turn that sees too few processes, a wrong
\* affinity or a process that is gone goes on; the last one gives up quietly.
\* A dead stressor that is not yet reaped still answers the snapshot.
PollProcesses ==
    /\ At("poll")
    /\ \/ /\ Observable
          /\ seen' = seen \cup {"captured"}
          /\ Write({"process_manifest"})
          /\ Goto(AfterPoll)
       \/ /\ poll < MaxPolls
          /\ poll' = poll + 1
          /\ UNCHANGED <<run, pc, queue, why, cut, seen, files>>
       \/ /\ poll = MaxPolls
          /\ UNCHANGED <<seen, files>>
          /\ Goto(AfterPoll)
    /\ UNCHANGED <<inputs, procs, log, strays>>

SchedulerManifest ==
    /\ At("scheduler")
    /\ \/ seen' = seen \cup {"sched"} /\ Goto("ebpf")
       \/ UNCHANGED seen /\ FailInTry("scheduler")
    /\ UNCHANGED <<inputs, procs, log, files, strays>>

\* The manifest must exist and be comparable, a second of the run be left.
StartEbpf ==
    /\ At("ebpf")
    /\ \/ "captured" \in seen /\ StartProc("bpftrace") /\ Goto("ebpf_wait")
       \/ UNCHANGED proc /\ FailInTry("ebpf window")
    /\ UNCHANGED <<inputs, sent, status, early, exit, log, seen, files, strays>>

\* capture_ebpf_evidence: the collector has ended, and its files are there.
EbpfRecorded ==
    /\ At("ebpf_wait") /\ proc["bpftrace"] = "dead"
    /\ Write({"ebpf_events", "ebpf_capture_summary"}) /\ Goto("wait")
    /\ UNCHANGED <<inputs, procs, log, seen, strays>>

\* validate_ebpf_summary: the collector failed, lost or truncated events, or
\* has none of the kind its fault is about.
EbpfRefused ==
    /\ At("ebpf_wait") /\ proc["bpftrace"] = "dead"
    /\ FailInTry("ebpf")
    /\ UNCHANGED <<inputs, procs, log, seen, files, strays>>

EbpfDone == EbpfRecorded \/ EbpfRefused

WaitWorkload ==
    /\ At("wait") /\ proc["workload"] = "dead"
    /\ pc' = "cleanup"
    /\ queue' = Started
    /\ UNCHANGED <<inputs, run, poll, why, cut, procs, log, seen, files, strays>>

-----------------------------------------------------------------------------
(* The finally block, and the except block of start_socketcan_capture.     *)

Stopping == pc \in {"cleanup", "unwind"} /\ queue # {}

\* The finally block's order: the stressor, the responder, candump.
NextHelper ==
    IF "stress" \in queue THEN "stress"
    ELSE IF "responder" \in queue THEN "responder"
    ELSE "candump"

Stopped(h, how) ==
    /\ status' = [status EXCEPT ![h] = how]
    /\ queue' = queue \ {h}
    /\ UNCHANGED <<run, pc, poll, why, cut>>

\* stop_process: poll, SIGINT, wait for the grace, SIGKILL.
PollHelper ==
    /\ Stopping
    /\ LET h == NextHelper IN
       /\ h \notin sent
       /\ \/ /\ proc[h] = "dead" /\ Stopped(h, "already_exited")
             /\ UNCHANGED sent
          \/ /\ proc[h] = "up" /\ sent' = sent \cup {h}
             /\ UNCHANGED <<script, status>>
    /\ UNCHANGED <<inputs, proc, early, exit, log, seen, files, strays>>

GracefulStop ==
    /\ Stopping
    /\ LET h == NextHelper IN
       h \in sent /\ proc[h] = "dead" /\ Stopped(h, "graceful_sigint")
    /\ UNCHANGED <<inputs, proc, sent, early, exit, log, seen, files, strays>>

\* Mutant: the grace is over and the kill is forgotten.
MForcedKill ==
    /\ Stopping
    /\ NextHelper \in sent /\ proc[NextHelper] = "up"
    /\ Stopped(NextHelper, "forced_kill")
    /\ UNCHANGED <<inputs, proc, sent, early, exit, log, seen, files, strays>>

ForcedKill ==
    /\ Stopping
    /\ LET h == NextHelper IN
       /\ h \in sent /\ proc[h] = "up"
       /\ proc' = [proc EXCEPT ![h] = "dead"]
       /\ early' = IF proc["workload"] = "up" THEN early \cup {h} ELSE early
       /\ Stopped(h, "forced_kill")
    /\ UNCHANGED <<inputs, sent, exit, log, seen, files, strays>>

Unwound ==
    /\ At("unwind") /\ queue = {}
    /\ Goto("done")
    /\ UNCHANGED <<inputs, procs, log, seen, files, strays>>

\* Mutant: how the helpers ended is not looked at.
MCaptureSound == {"ready", "observed", "dumped"} \subseteq log

\* build_capture_manifest, and for the physical pair the link state after.
CaptureSound ==
    /\ status["responder"] = "graceful_sigint"
    /\ status["candump"] = "graceful_sigint"
    /\ {"ready", "observed", "stopped", "dumped"} \subseteq log

\* The rest of the finally block.  An exception goes on after it; why keeps
\* the step that raised first.
Finalise ==
    /\ At("cleanup") /\ queue = {}
    /\ \/ /\ proc["candump"] # "none"
          /\ ~CaptureSound \/ case.transport = "physical"
          /\ Fail(IF why = "" THEN "socketcan evidence" ELSE why)
          /\ UNCHANGED files
       \/ /\ proc["candump"] # "none" => CaptureSound
          /\ Write((IF proc["candump"] # "none"
                    THEN {"socketcan_capture_manifest"} ELSE {})
                   \cup (IF "sched" \in seen THEN {"scheduler_manifest"} ELSE {}))
          /\ Goto(IF why = "" THEN "check" ELSE "done")
    /\ UNCHANGED <<inputs, procs, log, seen, strays>>

-----------------------------------------------------------------------------
(* After the workload: its exit, its output, the exports, the manifests.   *)

\* validate_fault_output needs rows; they may still lack an event or a second
\* complete trace.
OutputThere == files["runtime_events"] # 0

\* The exit of timeout(1), live processes, and the output.
CheckOutput ==
    /\ At("check")
    /\ \/ /\ exit = "expected"
          /\ NeedsPids(case) => "captured" \in seen
          /\ OutputThere
          /\ Goto("export")
       \/ Fail("output")
    /\ UNCHANGED <<inputs, procs, log, seen, files, strays>>

ExportTrace ==
    /\ At("export")
    /\ \/ /\ case.fault = "F3" => files["scheduler_manifest"] # 0
          /\ Write(Exported(case))
          /\ Goto("summary")
       \/ Traced(case) /\ Fail("export") /\ UNCHANGED files
    /\ UNCHANGED <<inputs, procs, log, seen, strays>>

WriteSummary ==
    /\ At("summary")
    /\ Write({"fault_summary"}) /\ Goto("finalize")
    /\ UNCHANGED <<inputs, procs, log, seen, strays>>

\* build_artifact_manifest measures every artifact it lists.
Measured == \A r \in MeasuredRoles(case) : files[r] # 0

FinalizeArtifacts ==
    /\ At("finalize")
    /\ \/ /\ MeasuredRoles(case) # RequiredRoles(case.fault)
          /\ Fail("roles") /\ UNCHANGED files
       \/ /\ files["artifact_manifest"] # 0
          /\ Fail("manifest exists") /\ UNCHANGED files
       \/ /\ MeasuredRoles(case) = RequiredRoles(case.fault)
          /\ files["artifact_manifest"] = 0
          /\ Measured
          /\ Write({"artifact_manifest"}) /\ Goto("done")
    /\ UNCHANGED <<inputs, procs, log, seen, strays>>

-----------------------------------------------------------------------------
(* The processes.                                                          *)

\* A helper ends by itself: it crashes, or obeys its SIGINT.  A responder that
\* obeys leaves its last record.
HelperExits(h) ==
    /\ proc[h] = "up"
    /\ proc' = [proc EXCEPT ![h] = "dead"]
    /\ early' = IF proc["workload"] = "up" THEN early \cup {h} ELSE early
    /\ \/ UNCHANGED log
       \/ h = "responder" /\ h \in sent /\ "ready" \in log
          /\ log' = log \cup {"stopped"}
    /\ UNCHANGED <<inputs, script, sent, status, exit, seen, files, strays>>

ResponderOpens ==
    /\ proc["responder"] = "up" /\ "ready" \notin log
    /\ log' = log \cup {"ready"}
    /\ UNCHANGED <<inputs, script, procs, seen, files, strays>>

\* The responder logs every command, echoed or dropped as its policy says.
Responds == IF proc["responder"] = "up" /\ "ready" \in log THEN {"observed"} ELSE {}

\* A command frame on the bus reaches candump and a responder that is bound.
CommandFrame ==
    /\ proc["workload"] = "up" /\ case.transport # "mock"
    /\ log' = log \cup (IF proc["candump"] = "up" THEN {"dumped"} ELSE {})
                  \cup Responds
    /\ log' # log
    /\ UNCHANGED <<inputs, script, procs, seen, files, strays>>

RuntimeEvent ==
    /\ proc["workload"] = "up" /\ files["runtime_events"] # run
    /\ Write({"runtime_events"})
    /\ UNCHANGED <<inputs, script, procs, log, seen, strays>>

\* timeout(1) ends the launch, or the launch fails on its own.
WorkloadEnds ==
    /\ proc["workload"] = "up"
    /\ proc' = [proc EXCEPT !["workload"] = "dead"]
    /\ exit' \in {"expected", "unexpected"}
    /\ UNCHANGED <<inputs, script, sent, status, early, log, seen, files, strays>>

\* collect_until_timeout: the window, then SIGINT, SIGTERM and SIGKILL.
Ladder == [up |-> "int", int |-> "term", term |-> "kill", kill |-> "dead"]
CollectEbpf ==
    /\ proc["bpftrace"] \in DOMAIN Ladder
    /\ proc' \in {[proc EXCEPT !["bpftrace"] = s] :
                     s \in {"dead", Ladder[proc["bpftrace"]]}}
    /\ UNCHANGED <<inputs, script, sent, status, early, exit, log, seen, files,
                   strays>>

\* Processes an earlier run left behind end by their own timeouts; the two
\* CAN helpers have none.
StrayEnds ==
    /\ \E p \in strays \ {"candump", "responder"} : strays' = strays \ {p}
    /\ UNCHANGED <<inputs, script, procs, log, seen, files>>

-----------------------------------------------------------------------------
(* The operator, the repository and the machine.                           *)

\* Ctrl-C, at any step of the script.  Before the capture and after the cleanup
\* nothing is up that the script would have to stop.
InterruptAlone ==
    /\ pc \in {"gate", "bundle", "calibrate", "candump", "check", "export",
              "summary", "finalize"}
    /\ Fail("interrupt")
    /\ UNCHANGED <<procs, files>>

\* In start_socketcan_capture: in the waits, or in one of the two Popens.
InterruptCapture ==
    /\ \/ /\ At("candump") /\ files["can_logs"] = 0 /\ Write({"can_logs"})
          /\ \/ FailInCapture("interrupt") /\ UNCHANGED proc
             \/ FailInCapture("candump_lost") /\ StartProc("candump")
       \/ /\ pc \in {"candump_wait", "ready_wait"} /\ FailInCapture("interrupt")
          /\ UNCHANGED <<proc, files>>
       \/ /\ At("candump_wait") /\ proc["candump"] = "up"
          /\ FailInCapture("responder_lost") /\ StartProc("responder")
          /\ UNCHANGED files
    /\ UNCHANGED <<sent, status, early, exit>>

\* After its except block and before the try block.
InterruptHandover ==
    /\ At("handover") /\ Fail("capture_lost")
    /\ UNCHANGED <<procs, files>>

\* In the try block, the Popens of the stressor and of the workload included.
InterruptTry ==
    /\ \/ /\ pc \in {"stress", "stress_wait", "launch", "poll", "scheduler", "ebpf",
                    "ebpf_wait", "wait"}
          /\ FailInTry("interrupt") /\ UNCHANGED <<proc, early>>
       \/ /\ At("stress") /\ Stressed(case)
          /\ FailInTry("stress_lost") /\ StartProc("stress") /\ UNCHANGED early
       \/ At("launch") /\ FailInTry("interrupt") /\ SpawnWorkload
    /\ UNCHANGED <<sent, status, exit, files>>

\* What is left of a cleanup is not done.
InterruptCleanup ==
    /\ \/ /\ Stopping
          /\ pc' = "done" /\ why' = "interrupt" /\ cut' = TRUE
          /\ UNCHANGED <<run, poll, queue>>
       \/ /\ pc \in {"cleanup", "unwind"} /\ queue = {}
          /\ Fail(IF why = "" THEN "interrupt" ELSE why)
    /\ UNCHANGED <<procs, files>>

Interrupt ==
    /\ \/ InterruptAlone \/ InterruptCapture \/ InterruptHandover
       \/ InterruptTry \/ InterruptCleanup
    /\ UNCHANGED <<inputs, log, seen, strays>>

Kill ==
    /\ pc \notin {"qualify", "done"}
    /\ pc' = "done" /\ why' = "killed" /\ cut' = TRUE
    /\ UNCHANGED <<run, poll, queue>>
    /\ UNCHANGED <<inputs, procs, log, seen, files, strays>>

TreeChanges ==
    /\ tree.commit = 1
    /\ tree' \in {[commit |-> 2, dirty |-> FALSE], [commit |-> 1, dirty |-> TRUE]}
    /\ tree' # tree
    /\ UNCHANGED <<case, platform, report, script, procs, log, seen, files, strays>>

\* The next repetition: the session gives it a directory of its own, an
\* operator may name the same one.
NextRun ==
    /\ At("done") /\ run < MaxRuns /\ why # "denied"
    /\ run' = run + 1 /\ pc' = "gate" /\ poll' = 0 /\ queue' = {}
    /\ why' = "" /\ cut' = FALSE
    /\ strays' = strays \cup {p \in Procs : proc[p] \notin {"none", "dead"}}
    /\ proc' = NoProcs /\ sent' = {} /\ early' = {} /\ exit' = "none"
    /\ status' = [h \in Helpers |-> "not_applicable"]
    /\ log' = {} /\ seen' = {}
    /\ files' \in {files, [f \in FileNames |-> 0]}
    /\ UNCHANGED inputs

-----------------------------------------------------------------------------
Script ==
    \/ Qualify \/ Gate \/ WriteBundle \/ Calibrate
    \/ StartCandump \/ StartResponder \/ ResponderReady \/ EnterTry
    \/ StartStress \/ StressAlive \/ Launch \/ PollProcesses
    \/ SchedulerManifest \/ StartEbpf \/ EbpfDone \/ WaitWorkload
    \/ PollHelper \/ GracefulStop \/ ForcedKill \/ Unwound \/ Finalise
    \/ CheckOutput \/ ExportTrace \/ WriteSummary \/ FinalizeArtifacts

Next ==
    \/ Script
    \/ \E h \in Helpers : HelperExits(h)
    \/ ResponderOpens \/ CommandFrame \/ RuntimeEvent \/ WorkloadEnds
    \/ CollectEbpf \/ StrayEnds
    \/ Interrupt \/ Kill \/ TreeChanges \/ NextRun

\* The script runs on, timeout(1) ends the workload, and the capture script
\* climbs its ladder: all of them have deadlines of their own.
Fairness == WF_vars(Script) /\ WF_vars(WorkloadEnds) /\ WF_vars(CollectEbpf)

Spec == Init /\ [][Next]_vars /\ Fairness

-----------------------------------------------------------------------------
(* Properties.                                                             *)

TypeOK ==
    /\ case \in Cases /\ platform \in Platforms
    /\ tree \in [commit : {1, 2}, dirty : BOOLEAN]
    /\ report \in [allowed : BOOLEAN, tree : [commit : {1, 2}, dirty : BOOLEAN]]
    /\ run \in 1..MaxRuns /\ poll \in 0..MaxPolls /\ cut \in BOOLEAN
    /\ queue \subseteq Helpers
    /\ proc \in [Procs -> {"none", "up", "int", "term", "kill", "dead"}]
    /\ sent \subseteq Helpers /\ early \subseteq Helpers
    /\ exit \in {"none", "expected", "unexpected"}
    /\ status \in [Helpers -> {"not_applicable", "already_exited",
                               "graceful_sigint", "forced_kill"}]
    /\ log \subseteq {"ready", "observed", "stopped", "dumped"}
    /\ seen \subseteq {"captured", "sched"}
    /\ files \in [FileNames -> 0..MaxRuns]
    /\ strays \subseteq Procs

Ended(p) == proc[p] \in {"none", "dead"}

Left == {h \in Helpers : ~Ended(h)}

\* However the script ends, a raise or a Ctrl-C at any step included, none of
\* its helpers outlives it, but for what is killed or interrupted in a cleanup
\* and for two windows: a Ctrl-C inside Popen, once the process runs, loses that
\* helper, and one between the return of start_socketcan_capture and the try
\* block loses candump and the responder.  The workload is left running only
\* when a step between its launch and its wait raised.
HelpersReleased ==
    pc = "done" /\ ~cut =>
        /\ Left \subseteq Lost
        /\ why \notin {"interrupt", "scheduler", "ebpf window", "ebpf"}
              => Ended("workload") /\ Ended("bpftrace")

\* scheduling_pressure_adapter: an injected F3 report needs the stressor in
\* the manifest and a stressor that had to be stopped.
AdapterAccepts ==
    /\ case.fault = "F3" /\ files["scheduler_manifest"] = run
    /\ case.variant = "injected" => status["stress"] = "graceful_sigint"

\* Evidence with an artifact manifest is evidence of the condition it names:
\* timeout(1) ended the workload, and what the case injected or recorded with
\* (candump, responder; the stressor for a report the F3 adapter accepts) was
\* up for all of the workload's life.
CertifiedCovered ==
    files["artifact_manifest"] = run =>
        /\ exit = "expected"
        /\ case.transport # "mock" => {"responder", "candump"} \cap early = {}
        /\ Stressed(case) /\ AdapterAccepts => "stress" \notin early

\* A directory is evidence of one invocation: what an artifact manifest lists
\* was all written by the run that wrote the manifest, whatever an earlier run
\* in that directory left when it failed or was killed.
EvidenceOfOneRun ==
    files["artifact_manifest"] # 0 =>
        \A r \in RequiredRoles(case.fault) :
            files[r] = files["artifact_manifest"]

\* The gates of the session and of the script agree: a case the session
\* qualified is refused by the script only when the git tree has moved since,
\* and the evidence a complete run collects is what its manifest requires.
QualifiedRuns ==
    /\ why = "gate" /\ case.transport = "mock" /\ report.allowed
         => report.tree # tree
    /\ why # "roles"

\* Every process the script owns ends: the workload by its timeout, the
\* helpers by the cleanup, bpftrace by the ladder; only a cleanup cut short and
\* the Ctrl-Cs that cost the script a handle leave a helper behind.
Settles ==
    <>[] /\ pc = "done"
         /\ Ended("workload") /\ Ended("bpftrace")
         /\ cut \/ Left \subseteq Lost
=============================================================================
