------------------------ MODULE FaultConditionProofs ------------------------
(***************************************************************************)
(* Theorems about FaultCondition, for every set of cases and platforms and *)
(* any number of runs in a directory: the directory is evidence of one run *)
(* (FileInv), no helper outlives the script but one whose handle a Ctrl-C  *)
(* has cost it (ProcInv), what is certified was covered (EarlyInv,         *)
(* CertInv), and the two gates agree (GateInv).                            *)
(***************************************************************************)
EXTENDS FaultCondition, TLAPS

\* The steps before the bundle is complete, and the end.
Outside == {"qualify", "gate", "bundle", "done"}

\* The bundle is whole and this run's.
BundleOwned == \A i \in DOMAIN Bundle : files[Bundle[i]] = run

\* No two files are of different runs.
OneRun == \A f, g \in FileNames : files[f] # 0 /\ files[g] # 0 => files[f] = files[g]

\* The run's manifest is the first file of a directory.
BundleFirst == \A f \in FileNames : files[f] # 0 => files["run_manifest"] # 0

\* What an artifact manifest lists is there.
Sealed == files["artifact_manifest"] # 0 =>
            \A r \in RequiredRoles(case.fault) : files[r] # 0

\* Whatever can still write owns the bundle.
WritersOwn == pc \notin Outside \/ proc["workload"] = "up" => BundleOwned

FileInv == /\ run \in Nat \ {0} /\ DOMAIN files = FileNames /\ DOMAIN proc = Procs
           /\ OneRun /\ BundleFirst /\ Sealed /\ WritersOwn

LEMMA Names ==
  /\ \A i \in DOMAIN Bundle : Bundle[i] \in FileNames
  /\ DOMAIN Bundle = 1 .. 3 /\ Len(Bundle) = 3
  /\ Bundle[1] = "run_manifest" /\ "artifact_manifest" \in FileNames
  /\ \A i \in DOMAIN Bundle : Bundle[i] # "artifact_manifest"
  /\ \A fault : RequiredRoles(fault) \subseteq FileNames
  BY DEF Bundle, FileNames, BaseRoles, TraceRoles, EbpfRoles, RequiredRoles

\* In a directory where whatever is there is this run's, this run may write.
LEMMA OwnWrite ==
  ASSUME FileInv, NEW names, Write(names),
         \A f \in FileNames : files[f] \in {0, run},
         "run_manifest" \in names \/ files["run_manifest"] # 0,
         "artifact_manifest" \in names =>
            \A r \in RequiredRoles(case.fault) : files[r] # 0,
         run' = run, case' = case
  PROVE  /\ (DOMAIN files = FileNames /\ OneRun /\ BundleFirst /\ Sealed)'
         /\ BundleOwned => BundleOwned'
<1>1. \A f \in FileNames : files'[f] = IF f \in names THEN run ELSE files[f]
  BY DEF Write
<1>2. DOMAIN files' = FileNames
  BY DEF Write
<1>3. OneRun' /\ BundleFirst'
  BY <1>1, Names DEF FileInv, OneRun, BundleFirst, FileNames, BaseRoles
<1>4. Sealed'
  BY <1>1, Names DEF FileInv, Sealed
<1>5. BundleOwned => BundleOwned'
  BY <1>1, Names DEF BundleOwned
<1> QED BY <1>2, <1>3, <1>4, <1>5

\* With the bundle its own, nothing in the directory is another run's.
LEMMA OwnerFiles ==
  ASSUME FileInv, BundleOwned
  PROVE  files["run_manifest"] # 0 /\ \A f \in FileNames : files[f] \in {0, run}
<1>1. files["run_manifest"] = run /\ "run_manifest" \in FileNames /\ run # 0
  BY Names DEF FileInv, BundleOwned
<1> QED BY <1>1 DEF FileInv, OneRun

LEMMA InitFiles == Init => FileInv
<1> SUFFICES ASSUME Init PROVE FileInv
  OBVIOUS
<1>1. \A f \in FileNames : files[f] = 0
  BY DEF Init
<1>2. OneRun /\ BundleFirst /\ Sealed
  BY <1>1, Names DEF OneRun, BundleFirst, Sealed
<1>3. proc["workload"] # "up"
  BY DEF Init, NoProcs, Procs
<1>4. run \in Nat \ {0}
  <2>1. run = 1
    BY Zenon DEF Init
  <2> QED BY <2>1
<1>6. DOMAIN files = FileNames
  BY Zenon DEF Init
<1>7. DOMAIN proc = Procs
  BY Zenon DEF Init, NoProcs
<1>5. WritersOwn
  BY <1>3 DEF Init, WritersOwn, Outside
<1> QED BY <1>2, <1>4, <1>5, <1>6, <1>7 DEF FileInv

\* A step of the workload or of the script after the bundle, that writes.
LEMMA WriterStep ==
  ASSUME FileInv, BundleOwned, NEW names, Write(names),
         "artifact_manifest" \in names =>
            \A r \in RequiredRoles(case.fault) : files[r] # 0,
         run' = run, case' = case, DOMAIN proc' = Procs
  PROVE  FileInv'
  BY OwnerFiles, OwnWrite DEF FileInv, WritersOwn

\* A step that leaves the files alone and gives nobody the right to write who
\* does not own the bundle.
LEMMA QuietStep ==
  ASSUME FileInv, UNCHANGED <<files, case, run>>, DOMAIN proc' = Procs,
         (pc' \notin Outside \/ proc'["workload"] = "up") =>
            (pc \notin Outside \/ proc["workload"] = "up")
  PROVE  FileInv'
  BY DEF FileInv, OneRun, BundleFirst, Sealed, WritersOwn, BundleOwned

LEMMA StepFiles == FileInv /\ [Next]_vars => FileInv'
<1> SUFFICES ASSUME FileInv, [Next]_vars PROVE FileInv'
  OBVIOUS
<1> USE DEF At
<1>1. CASE Qualify
  BY <1>1, QuietStep DEF Qualify, Goto, Fail, procs, Outside, FileInv
<1>2. CASE Gate
  BY <1>2, QuietStep DEF Gate, Goto, Fail, inputs, procs, Outside, FileInv
<1>3. CASE WriteBundle
  <2>1. CASE ~BundleFree /\ Fail("bundle exists") /\ UNCHANGED files
    BY <1>3, <2>1, QuietStep DEF WriteBundle, Fail, inputs, procs, Outside, FileInv
  <2>2. ASSUME NEW i \in DOMAIN Bundle, BundleFree,
               \A j \in 1 .. i - 1 : files[Bundle[j]] = run, Write({Bundle[i]}),
               IF i = Len(Bundle) THEN Goto("calibrate") ELSE UNCHANGED script
        PROVE  FileInv'
    <3>1. UNCHANGED <<run, case, proc>>
      BY <1>3, <2>2 DEF WriteBundle, Goto, script, inputs, procs
    <3>2. \A f \in FileNames : files[f] \in {0, run}
      BY <2>2, Names DEF FileInv, OneRun, BundleFirst, BundleFree
    <3>3. "run_manifest" \in {Bundle[i]} \/ files["run_manifest"] # 0
      <4>1. CASE i = 1
        BY <4>1, Names
      <4>2. CASE i # 1
        <5>1. i \in 1 .. 3 /\ 1 \in 1 .. i - 1
          BY <4>2, <2>2, Names
        <5> QED BY <5>1, <2>2, Names DEF FileInv
      <4> QED BY <4>1, <4>2
    <3>4. "artifact_manifest" \notin {Bundle[i]}
      BY Names
    <3>5. /\ (DOMAIN files = FileNames /\ OneRun /\ BundleFirst /\ Sealed)'
          /\ BundleOwned => BundleOwned'
      BY <2>2, <3>1, <3>2, <3>3, <3>4, OwnWrite
    <3>6. WritersOwn'
      <4>1. CASE i = Len(Bundle)
        <5>1. \A j \in DOMAIN Bundle : files'[Bundle[j]] = run
          BY <4>1, <2>2, Names DEF Write
        <5> QED BY <5>1, <3>1 DEF WritersOwn, BundleOwned
      <4>2. CASE i # Len(Bundle)
        <5>1. pc' = pc /\ pc = "bundle"
          BY <4>2, <2>2, <1>3 DEF WriteBundle, script
        <5> QED BY <5>1, <3>1, <3>5 DEF FileInv, WritersOwn, Outside
      <4> QED BY <4>1, <4>2
    <3> QED BY <3>1, <3>5, <3>6 DEF FileInv
  <2> QED BY <1>3, <2>1, <2>2 DEF WriteBundle
<1> DEFINE Inside == pc \notin Outside
<1>own. Inside => BundleOwned
  BY DEF FileInv, WritersOwn
<1>4. CASE Calibrate
  BY <1>4, <1>own, QuietStep, WriterStep DEF Calibrate, Goto, Fail, inputs, procs, Outside, FileInv
<1>5. CASE StartCandump
  BY <1>5, <1>own, QuietStep, WriterStep DEF StartCandump, CandumpStarts, CandumpFails, FailInCapture, VcanRefused, PairRefused, StartProc, procs, Goto, Fail, inputs, Outside, FileInv
<1>6. CASE StartResponder \/ ResponderReady \/ EnterTry
  BY <1>6, QuietStep DEF StartResponder, ResponderReady, EnterTry, StartProc, Goto, FailInCapture, inputs, procs, Outside, FileInv
<1>7. CASE StartStress \/ StressAlive \/ Launch
  BY <1>7, QuietStep DEF StartStress, StressAlive, Launch, SpawnWorkload, StartProc, Goto, FailInTry, inputs, procs, Outside, FileInv
<1>8. CASE PollProcesses
  BY <1>8, <1>own, QuietStep, WriterStep DEF PollProcesses, Goto, inputs, procs, Outside, FileInv
<1>9. CASE SchedulerManifest \/ StartEbpf \/ WaitWorkload
  BY <1>9, QuietStep DEF SchedulerManifest, StartEbpf, WaitWorkload, StartProc, Goto, FailInTry, inputs, procs, Outside, FileInv
<1>10. CASE EbpfDone
  BY <1>10, <1>own, QuietStep, WriterStep DEF EbpfDone, EbpfRecorded, EbpfRefused, Goto, FailInTry, inputs, procs, Outside, FileInv
<1>11. CASE PollHelper \/ GracefulStop \/ ForcedKill \/ Unwound
  BY <1>11, QuietStep DEF PollHelper, GracefulStop, ForcedKill, Unwound, Stopping, Stopped, Goto, script, inputs, procs, Outside, FileInv
<1>12. CASE Finalise
  BY <1>12, <1>own, QuietStep, WriterStep DEF Finalise, Goto, Fail, inputs, procs, Outside, FileInv
<1>13. CASE CheckOutput
  BY <1>13, QuietStep DEF CheckOutput, Goto, Fail, inputs, procs, Outside, FileInv
<1>14. CASE ExportTrace \/ WriteSummary
  BY <1>14, <1>own, QuietStep, WriterStep DEF ExportTrace, WriteSummary, Exported, Goto, Fail, inputs, procs, Outside, FileInv
<1>15. CASE FinalizeArtifacts
  BY <1>15, <1>own, QuietStep, WriterStep DEF FinalizeArtifacts, Measured, Goto, Fail, inputs, procs, Outside, FileInv
<1>16. CASE \E h \in Helpers : HelperExits(h)
  BY <1>16, QuietStep DEF HelperExits, Helpers, script, inputs, Outside, FileInv
<1>17. CASE ResponderOpens \/ CommandFrame \/ StrayEnds
  BY <1>17, QuietStep DEF ResponderOpens, CommandFrame, StrayEnds, script, inputs, procs, Outside, FileInv
<1>18. CASE RuntimeEvent
  BY <1>18, WriterStep DEF RuntimeEvent, script, inputs, procs, FileInv, WritersOwn
<1>19. CASE WorkloadEnds \/ CollectEbpf
  <2>1. UNCHANGED <<files, case, run, pc>>
    BY <1>19 DEF WorkloadEnds, CollectEbpf, script, inputs
  <2>2. DOMAIN proc' = Procs
    BY <1>19 DEF WorkloadEnds, CollectEbpf, FileInv
  <2>3. proc'["workload"] \in {"dead", proc["workload"]}
    BY <1>19 DEF WorkloadEnds, CollectEbpf, FileInv, Procs
  <2> QED BY <2>1, <2>2, <2>3, QuietStep
<1>20. CASE Interrupt
  <2>1. UNCHANGED <<case, run>>
    BY <1>20 DEF Interrupt, InterruptAlone, InterruptCapture, InterruptHandover,
       InterruptTry, InterruptCleanup, Fail, FailInCapture, FailInTry, inputs
  <2>2. DOMAIN proc' = Procs
    BY <1>20 DEF Interrupt, InterruptAlone, InterruptCapture, InterruptHandover,
       InterruptTry, InterruptCleanup, SpawnWorkload, StartProc, procs, FileInv
  <2>3. CASE InterruptAlone \/ InterruptHandover \/ InterruptCleanup
    BY <2>1, <2>2, <2>3, QuietStep DEF InterruptAlone, InterruptHandover,
       InterruptCleanup, Fail, Stopping, procs, Outside
  <2>4. CASE InterruptCapture
    BY <2>1, <2>2, <2>4, <1>own, QuietStep, WriterStep DEF InterruptCapture,
       FailInCapture, StartProc, Outside
  <2>5. CASE InterruptTry
    BY <2>1, <2>2, <2>5, QuietStep DEF InterruptTry, FailInTry, Outside
  <2> QED BY <1>20, <2>3, <2>4, <2>5 DEF Interrupt
<1>21. CASE Kill
  BY <1>21, QuietStep DEF Kill, inputs, procs, Outside, FileInv
<1>22. CASE TreeChanges
  BY <1>22, QuietStep DEF TreeChanges, script, procs, Outside, FileInv
<1>23. CASE NextRun
  <2>1. /\ run' = run + 1 /\ pc' = "gate" /\ proc' = NoProcs /\ case' = case
        /\ files' \in {files, [f \in FileNames |-> 0]}
    BY <1>23 DEF NextRun, inputs
  <2>2. (DOMAIN files = FileNames /\ OneRun /\ BundleFirst /\ Sealed)'
    BY <2>1, Names DEF FileInv, OneRun, BundleFirst, Sealed
  <2>3. WritersOwn'
    BY <2>1 DEF WritersOwn, Outside, NoProcs, Procs
  <2> QED BY <2>1, <2>2, <2>3 DEF FileInv, NoProcs
<1>24. CASE UNCHANGED vars
  BY <1>24, QuietStep DEF vars, inputs, script, procs, FileInv
<1> QED BY <1>1, <1>2, <1>3, <1>4, <1>5, <1>6, <1>7, <1>8, <1>9, <1>10, <1>11,
           <1>12, <1>13, <1>14, <1>15, <1>16, <1>17, <1>18, <1>19, <1>20, <1>21,
           <1>22, <1>23, <1>24 DEF Next, Script

\* A sealed directory is evidence of one invocation, whatever failed, died or
\* was killed in it and however often a run was started there.
THEOREM OneRunPerDirectory == Spec => []EvidenceOfOneRun
<1>1. FileInv => EvidenceOfOneRun
  BY Names DEF FileInv, EvidenceOfOneRun, OneRun, Sealed
<1> QED BY <1>1, InitFiles, StepFiles, PTL DEF Spec
-----------------------------------------------------------------------------
(* Types, and who is up at which step.                                     *)

Labels == {"qualify", "gate", "bundle", "calibrate", "candump", "candump_wait",
           "ready_wait", "handover", "stress", "stress_wait", "launch", "poll", "scheduler",
           "ebpf", "ebpf_wait", "wait", "cleanup", "unwind", "check", "export",
           "summary", "finalize", "done"}

\* Steps before the helpers, before the workload, and after the cleanup.
Alone     == {"qualify", "gate", "bundle", "calibrate", "candump"}
Preparing == Alone \cup {"candump_wait", "ready_wait", "handover", "stress",
                         "stress_wait", "launch", "unwind"}
Settled   == {"check", "export", "summary", "finalize"}

\* The steps that raise while the workload may run on.
Mid == {"interrupt", "scheduler", "ebpf window", "ebpf"}

Up(p) == proc[p] # "none" /\ proc[p] # "dead"

\* While the cleanup goes on, what is up is queued or lost to it; after it
\* nothing is up but what was lost.
HelperInv ==
    /\ pc \in Alone => proc = NoProcs
    /\ pc \in {"candump_wait", "ready_wait", "handover"} => ~Up("stress")
    /\ pc \in {"cleanup", "unwind"} => \A h \in Helpers : Up(h) => h \in queue \cup Lost
    /\ pc \in Settled => \A h \in Helpers : ~Up(h)
    /\ pc = "done" /\ ~cut => \A h \in Helpers : Up(h) => h \in Lost

\* The workload is launched once, and waited for unless a step raised.
WorkloadInv ==
    /\ pc \in Preparing => proc["workload"] = "none" /\ proc["bpftrace"] = "none"
    /\ pc \notin {"ebpf_wait", "cleanup", "done"} => ~Up("bpftrace")
    /\ pc \in Settled => ~Up("workload")
    /\ pc = "cleanup" /\ why \notin Mid => ~Up("workload") /\ ~Up("bpftrace")
    /\ pc = "done" /\ ~cut /\ why \notin Mid => ~Up("workload") /\ ~Up("bpftrace")

ProcInv == /\ pc \in Labels /\ queue \subseteq Helpers
           /\ proc \in [Procs -> {"none", "up", "int", "term", "kill", "dead"}]
           /\ \A p \in Procs \ {"bpftrace"} : proc[p] \in {"none", "up", "dead"}
           /\ HelperInv /\ WorkloadInv

LEMMA LostNames ==
  /\ LostBy("") = {}
  /\ LostBy("candump_lost") = {"candump"} /\ LostBy("responder_lost") = {"responder"}
  /\ LostBy("capture_lost") = {"candump", "responder"} /\ LostBy("stress_lost") = {"stress"}
<1>1. DOMAIN Losses = {"candump_lost", "responder_lost", "capture_lost", "stress_lost"}
  BY DEF Losses
<1>2. /\ Losses["candump_lost"] = {"candump"} /\ Losses["responder_lost"] = {"responder"}
      /\ Losses["capture_lost"] = {"candump", "responder"}
      /\ Losses["stress_lost"] = {"stress"}
  BY DEF Losses
<1> QED BY <1>1, <1>2 DEF LostBy

LEMMA InitProcs == Init => ProcInv
  BY DEF Init, ProcInv, HelperInv, WorkloadInv, NoProcs, Labels, Alone, Preparing,
         Settled, Up, Procs, Helpers

\* A step of the inputs, the logs or the files.
LEMMA ProcsKept ==
  ASSUME ProcInv, UNCHANGED <<pc, queue, why, cut, proc>>
  PROVE  ProcInv'
<1> USE DEF ProcInv, HelperInv, WorkloadInv, Up, Lost
<1> QED OBVIOUS

\* A process ends.
LEMMA ProcEnds ==
  ASSUME ProcInv, NEW p \in Procs, Up(p), proc' = [proc EXCEPT ![p] = "dead"],
         UNCHANGED <<pc, queue, why, cut>>
  PROVE  ProcInv'
<1>1. \A q \in Procs : proc'[q] = IF q = p THEN "dead" ELSE proc[q]
  BY DEF ProcInv
<1>2. \A q \in Procs : (Up(q)' => Up(q)) /\ (proc[q] = "none" => proc'[q] = "none")
  BY <1>1 DEF Up
<1>3. pc \notin Alone
  BY DEF ProcInv, HelperInv, NoProcs, Up
<1>4. Helpers \subseteq Procs /\ {"stress", "workload", "bpftrace"} \subseteq Procs
  BY DEF Procs, Helpers
<1>5. HelperInv'
  BY <1>2, <1>3, <1>4 DEF ProcInv, HelperInv, Lost
<1>6. WorkloadInv'
  BY <1>2, <1>4 DEF ProcInv, WorkloadInv
<1>7. /\ proc' \in [Procs -> {"none", "up", "int", "term", "kill", "dead"}]
      /\ \A q \in Procs \ {"bpftrace"} : proc'[q] \in {"none", "up", "dead"}
  BY <1>1 DEF ProcInv
<1> QED BY <1>5, <1>6, <1>7 DEF ProcInv

LEMMA StepProcs == ProcInv /\ [Next]_vars => ProcInv'
<1> SUFFICES ASSUME ProcInv, [Next]_vars PROVE ProcInv'
  OBVIOUS
<1> USE DEF At, ProcInv, HelperInv, WorkloadInv, Labels, Alone, Preparing, Settled,
            Mid, Up, Helpers, Procs, NoProcs, Lost
<1> USE LostNames
<1>1. CASE Qualify
  BY <1>1 DEF Qualify, Goto, Fail, procs
<1>2. CASE Gate
  BY <1>2 DEF Gate, Goto, Fail, procs
<1>3. CASE WriteBundle
  BY <1>3 DEF WriteBundle, Goto, Fail, procs, script
<1>4. CASE Calibrate
  BY <1>4 DEF Calibrate, Goto, Fail, procs
<1>5. CASE StartCandump
  <2>1. CASE CandumpStarts
    BY <2>1 DEF CandumpStarts, StartProc, Goto
  <2>2. CASE CandumpFails
    BY <2>2 DEF CandumpFails, FailInCapture, Started, procs
  <2>3. CASE VcanRefused \/ PairRefused
    BY <2>3 DEF VcanRefused, PairRefused, Fail, procs
  <2> QED BY <1>5, <2>1, <2>2, <2>3 DEF StartCandump
<1>6. CASE StartResponder
  BY <1>6 DEF StartResponder, StartProc, Goto, FailInCapture, Started
<1>7. CASE ResponderReady \/ EnterTry
  BY <1>7 DEF ResponderReady, EnterTry, Goto, FailInCapture, Started, procs
<1>8. CASE StartStress
  BY <1>8 DEF StartStress, StartProc, Goto, FailInTry, Started
<1>9. CASE StressAlive
  BY <1>9 DEF StressAlive, Goto, FailInTry, Started, procs
<1>10. CASE Launch
  BY <1>10 DEF Launch, SpawnWorkload, StartProc, Goto, FailInTry, Started
<1>11. CASE PollProcesses
  BY <1>11 DEF PollProcesses, AfterPoll, Goto, procs
<1>12. CASE SchedulerManifest
  BY <1>12 DEF SchedulerManifest, Goto, FailInTry, Started, procs
<1>13. CASE StartEbpf
  BY <1>13 DEF StartEbpf, StartProc, Goto, FailInTry, Started
<1>14. CASE EbpfDone
  BY <1>14 DEF EbpfDone, EbpfRecorded, EbpfRefused, Goto, FailInTry, Started, procs
<1>15. CASE WaitWorkload
  BY <1>15 DEF WaitWorkload, Started, procs
<1>16. CASE PollHelper
  BY <1>16 DEF PollHelper, Stopping, Stopped, NextHelper, script
<1>17. CASE GracefulStop
  BY <1>17 DEF GracefulStop, Stopping, Stopped, NextHelper
<1>18. CASE ForcedKill
  BY <1>18 DEF ForcedKill, Stopping, Stopped, NextHelper
<1>19. CASE Unwound
  BY <1>19 DEF Unwound, Goto, procs
<1>20. CASE Finalise
  BY <1>20 DEF Finalise, Goto, Fail, procs
<1>21. CASE CheckOutput
  BY <1>21 DEF CheckOutput, Goto, Fail, procs
<1>22. CASE ExportTrace
  BY <1>22 DEF ExportTrace, Goto, Fail, procs
<1>23. CASE WriteSummary
  BY <1>23 DEF WriteSummary, Goto, procs
<1>24. CASE FinalizeArtifacts
  BY <1>24 DEF FinalizeArtifacts, Goto, Fail, procs
<1>25. CASE \E h \in Helpers : HelperExits(h)
  <2>1. PICK h \in Helpers : HelperExits(h)
    BY <1>25
  <2>2. h \in Procs /\ Up(h)
    BY <2>1 DEF HelperExits
  <2>3. proc' = [proc EXCEPT ![h] = "dead"] /\ UNCHANGED <<pc, queue, why, cut>>
    BY <2>1 DEF HelperExits, script
  <2> QED BY <2>2, <2>3, ProcEnds
<1>26. CASE ResponderOpens
  BY <1>26, ProcsKept DEF ResponderOpens, script, procs
<1>27. CASE CommandFrame
  BY <1>27, ProcsKept DEF CommandFrame, script, procs
<1>28. CASE RuntimeEvent
  BY <1>28, ProcsKept DEF RuntimeEvent, script, procs
<1>29. CASE WorkloadEnds
  <2>1. "workload" \in Procs /\ Up("workload")
    BY <1>29 DEF WorkloadEnds
  <2>2. proc' = [proc EXCEPT !["workload"] = "dead"] /\ UNCHANGED <<pc, queue, why, cut>>
    BY <1>29 DEF WorkloadEnds, script
  <2> QED BY <2>1, <2>2, ProcEnds
<1>30. CASE CollectEbpf
  <2>1. PICK s : proc' = [proc EXCEPT !["bpftrace"] = s] /\ s \in {"int", "term", "kill", "dead"}
    <3>1. PICK s \in {"dead", Ladder[proc["bpftrace"]]} :
             proc' = [proc EXCEPT !["bpftrace"] = s]
      BY <1>30 DEF CollectEbpf
    <3>2. proc["bpftrace"] \in {"up", "int", "term", "kill"}
      BY <1>30 DEF CollectEbpf, Ladder
    <3>3. Ladder[proc["bpftrace"]] \in {"int", "term", "kill", "dead"}
      <4>1. /\ Ladder["up"] = "int" /\ Ladder["int"] = "term"
            /\ Ladder["term"] = "kill" /\ Ladder["kill"] = "dead"
        BY DEF Ladder
      <4> QED BY <3>2, <4>1
    <3> QED BY <3>1, <3>3
  <2>2. Up("bpftrace") /\ UNCHANGED <<pc, queue, why, cut>>
    BY <1>30 DEF CollectEbpf, Ladder, script
  <2> QED BY <2>1, <2>2
<1>31. CASE StrayEnds
  BY <1>31, ProcsKept DEF StrayEnds, script, procs
<1>32. CASE Interrupt
  <2>1. CASE InterruptAlone
    BY <2>1 DEF InterruptAlone, Fail, procs
  <2>2. CASE InterruptCapture
    BY <2>2 DEF InterruptCapture, FailInCapture, Started, StartProc
  <2>3. CASE InterruptHandover
    BY <2>3 DEF InterruptHandover, Fail, procs
  <2>4. CASE InterruptTry
    <3>1. pc' = "cleanup" /\ queue' = Started
      BY <2>4 DEF InterruptTry, FailInTry
    <3>2. CASE UNCHANGED proc /\ FailInTry("interrupt")
      BY <3>1, <3>2 DEF FailInTry, Started
    <3>3. CASE At("stress") /\ FailInTry("stress_lost") /\ StartProc("stress")
      BY <3>1, <3>3 DEF FailInTry, Started, StartProc
    <3>4. CASE At("launch") /\ FailInTry("interrupt") /\ StartProc("workload")
      BY <3>1, <3>4 DEF FailInTry, Started, StartProc
    <3> QED BY <2>4, <3>2, <3>3, <3>4 DEF InterruptTry, SpawnWorkload
  <2>5. CASE InterruptCleanup
    BY <2>5 DEF InterruptCleanup, Fail, Stopping, procs
  <2> QED BY <1>32, <2>1, <2>2, <2>3, <2>4, <2>5 DEF Interrupt
<1>33. CASE Kill
  BY <1>33 DEF Kill, procs
<1>34. CASE TreeChanges
  BY <1>34, ProcsKept DEF TreeChanges, script, procs
<1>35. CASE NextRun
  BY <1>35 DEF NextRun
<1>36. CASE UNCHANGED vars
  BY <1>36, ProcsKept DEF vars, script, procs
<1> QED BY <1>1, <1>2, <1>3, <1>4, <1>5, <1>6, <1>7, <1>8, <1>9, <1>10, <1>11,
           <1>12, <1>13, <1>14, <1>15, <1>16, <1>17, <1>18, <1>19, <1>20, <1>21,
           <1>22, <1>23, <1>24, <1>25, <1>26, <1>27, <1>28, <1>29, <1>30, <1>31,
           <1>32, <1>33, <1>34, <1>35, <1>36 DEF Next, Script

\* However the script ends, short of a kill or of a Ctrl-C into its cleanup, no
\* helper outlives it but those a Ctrl-C inside Popen or before the try block
\* lost, nor the workload unless a step that ran beside it raised.
THEOREM HelpersEnd == Spec => []HelpersReleased
<1>1. ProcInv => HelpersReleased
  BY DEF ProcInv, HelperInv, WorkloadInv, HelpersReleased, Left, Ended, Up, Mid, Helpers
<1> QED BY <1>1, InitProcs, StepProcs, PTL DEF Spec

-----------------------------------------------------------------------------
(* Who died under the workload, and what the statuses say of it.           *)

\* Only what was up when it was polled is sent a SIGINT; what died under the
\* workload was not up at the end of it.
EarlyInv ==
    /\ early \subseteq Helpers /\ sent \subseteq Helpers /\ DOMAIN status = Helpers
    /\ \A h \in early : ~Up(h)
    /\ pc \in Preparing => early = {}
    /\ pc \notin {"cleanup", "unwind", "done"} \cup Settled => sent = {}
    /\ \A h \in Helpers : status[h] = "graceful_sigint" => h \in sent
    /\ (pc = "cleanup" /\ why = "") \/ pc \in Settled => sent \cap early = {}
    /\ pc \notin Alone \cup {"unwind", "done"} /\ case.transport # "mock" =>
          proc["candump"] # "none"

Covered ==
    /\ case.transport # "mock" => "responder" \notin early /\ "candump" \notin early
    /\ Stressed(case) /\ status["stress"] = "graceful_sigint" => "stress" \notin early

CertInv ==
    /\ files["artifact_manifest"] \in 0 .. run
    /\ pc \in {"export", "summary", "finalize"} => exit = "expected"
    /\ pc \in Settled => Covered
    /\ files["artifact_manifest"] = run =>
          pc = "done" /\ ~Up("workload") /\ exit = "expected" /\ Covered

LEMMA InitEarly == Init => EarlyInv
  BY DEF Init, EarlyInv, NoProcs, Preparing, Alone, Settled, Up, Helpers, Procs

LEMMA InitCert == Init => CertInv
<1> SUFFICES ASSUME Init PROVE CertInv
  OBVIOUS
<1>1. run = 1 /\ pc = "qualify" /\ files["artifact_manifest"] = 0
  BY Names DEF Init
<1> QED BY <1>1 DEF CertInv, Settled

\* A write of other files.
LEMMA CertWrite ==
  ASSUME NEW names, Write(names), "artifact_manifest" \notin names
  PROVE  files'["artifact_manifest"] = files["artifact_manifest"]
  BY Names DEF Write

\* The next run knows nothing of this one's manifest.
LEMMA CertNext ==
  ASSUME run \in Nat, files["artifact_manifest"] \in 0 .. run, run' = run + 1,
         files' \in {files, [f \in FileNames |-> 0]}
  PROVE  files'["artifact_manifest"] \in 0 .. run' /\ files'["artifact_manifest"] # run'
<1>1. "artifact_manifest" \in FileNames
  BY Names
<1>2. CASE files' = files
  BY <1>2
<1>3. CASE files' = [f \in FileNames |-> 0]
  <2>1. files'["artifact_manifest"] = 0
    BY <1>1, <1>3
  <2> QED BY <2>1
<1> QED BY <1>2, <1>3

LEMMA StepEarly ==
  ProcInv /\ EarlyInv /\ [Next]_vars => EarlyInv'
<1> SUFFICES ASSUME ProcInv /\ EarlyInv, [Next]_vars PROVE EarlyInv'
  OBVIOUS
<1> USE DEF At, ProcInv, HelperInv, WorkloadInv, Labels, Alone, Preparing, Settled, Mid, Up, Helpers, Procs, NoProcs, EarlyInv
<1>1. CASE Qualify
  BY <1>1 DEF Qualify, Goto, Fail, procs, inputs
<1>2. CASE Gate
  BY <1>2 DEF Gate, Goto, Fail, procs, inputs
<1>3. CASE WriteBundle
  BY <1>3 DEF WriteBundle, Goto, Fail, procs, script, inputs
<1>4. CASE Calibrate
  BY <1>4 DEF Calibrate, Goto, Fail, procs, inputs
<1>5. CASE StartCandump
  BY <1>5 DEF StartCandump, CandumpStarts, CandumpFails, FailInCapture, Started, VcanRefused, PairRefused, StartProc, Goto, Fail, procs, inputs
<1>6. CASE StartResponder
  BY <1>6 DEF StartResponder, StartProc, Goto, FailInCapture, Started, inputs
<1>7. CASE ResponderReady \/ EnterTry
  BY <1>7 DEF ResponderReady, EnterTry, Goto, FailInCapture, Started, procs, inputs
<1>8. CASE StartStress
  BY <1>8 DEF StartStress, StartProc, Goto, FailInTry, Started, inputs
<1>9. CASE StressAlive
  BY <1>9 DEF StressAlive, Goto, FailInTry, Started, procs, inputs
<1>10. CASE Launch
  <2>1. CASE SpawnWorkload /\ Goto(IF NeedsPids(case) THEN "poll" ELSE "wait")
    BY <1>10, <2>1 DEF Launch, SpawnWorkload, StartProc, Goto, inputs
  <2>2. CASE UNCHANGED <<proc, early>> /\ FailInTry("launch")
    BY <1>10, <2>2 DEF Launch, FailInTry, inputs
  <2> QED BY <1>10, <2>1, <2>2 DEF Launch
<1>11. CASE PollProcesses
  BY <1>11 DEF PollProcesses, AfterPoll, Goto, procs, inputs
<1>12. CASE SchedulerManifest
  BY <1>12 DEF SchedulerManifest, Goto, FailInTry, Started, procs, inputs
<1>13. CASE StartEbpf
  <2>1. UNCHANGED <<sent, early, status, case>> /\ pc = "ebpf"
    BY <1>13 DEF StartEbpf, inputs
  <2>2. \/ pc' = "ebpf_wait"
        \/ pc' = "cleanup" /\ why' = "ebpf window"
    BY <1>13 DEF StartEbpf, Goto, FailInTry
  <2>3. \A h \in Helpers : proc'[h] = proc[h]
    BY <1>13 DEF StartEbpf, StartProc
  <2>4. (\A h \in early : ~Up(h))' /\ proc'["candump"] = proc["candump"]
    BY <2>1, <2>3
  <2>5. sent = {} /\ sent' = {} /\ pc \notin Alone \cup {"unwind", "done"}
    BY <2>1
  <2> QED BY <2>1, <2>2, <2>4, <2>5
<1>14. CASE EbpfDone
  BY <1>14 DEF EbpfDone, EbpfRecorded, EbpfRefused, Goto, FailInTry, Started, procs, inputs
<1>15. CASE WaitWorkload
  BY <1>15 DEF WaitWorkload, Started, procs, inputs
<1>16. CASE PollHelper
  <2>1. UNCHANGED <<pc, why, proc, early, case>> /\ pc \in {"cleanup", "unwind"}
    BY <1>16 DEF PollHelper, Stopping, Stopped, script, inputs
  <2>2. NextHelper \in Helpers /\ NextHelper \in Procs
    BY DEF NextHelper
  <2>3. CASE /\ sent' = sent /\ status' = [status EXCEPT ![NextHelper] = "already_exited"]
    BY <2>1, <2>2, <2>3
  <2>4. CASE /\ proc[NextHelper] = "up" /\ sent' = sent \cup {NextHelper}
             /\ status' = status
    <3>1. NextHelper \notin early
      BY <2>2, <2>4
    <3>2. sent' \subseteq Helpers /\ sent \subseteq sent'
      BY <2>2, <2>4
    <3>3. sent \cap early = {} => sent' \cap early' = {}
      BY <2>1, <2>4, <3>1
    <3>4. \A h \in early' : ~Up(h)'
      BY <2>1
    <3> QED BY <2>1, <2>4, <3>2, <3>3, <3>4
  <2> QED BY <1>16, <2>3, <2>4 DEF PollHelper, Stopped
<1>17. CASE GracefulStop
  BY <1>17 DEF GracefulStop, Stopping, Stopped, NextHelper, inputs
<1>18. CASE ForcedKill
  BY <1>18 DEF ForcedKill, Stopping, Stopped, NextHelper, inputs
<1>19. CASE Unwound
  BY <1>19 DEF Unwound, Goto, procs, inputs
<1>20. CASE Finalise
  BY <1>20 DEF Finalise, Goto, Fail, procs, inputs, CaptureSound
<1>21. CASE CheckOutput
  BY <1>21 DEF CheckOutput, Goto, Fail, procs, inputs
<1>22. CASE ExportTrace
  BY <1>22 DEF ExportTrace, Goto, Fail, procs, inputs
<1>23. CASE WriteSummary
  BY <1>23 DEF WriteSummary, Goto, procs, inputs
<1>24. CASE FinalizeArtifacts
  BY <1>24 DEF FinalizeArtifacts, Goto, Fail, procs, inputs
<1>25. CASE \E h \in Helpers : HelperExits(h)
  <2>1. PICK h \in Helpers : HelperExits(h)
    BY <1>25
  <2>2. proc[h] = "up" /\ h \in Procs /\ h # "workload" /\ h # "bpftrace" /\ pc \notin Alone
    BY <2>1 DEF HelperExits
  <2>3. /\ proc' = [proc EXCEPT ![h] = "dead"]
        /\ early' = IF proc["workload"] = "up" THEN early \cup {h} ELSE early
        /\ UNCHANGED <<pc, why, cut, sent, status, case>>
    BY <2>1 DEF HelperExits, script, inputs
  <2>4. \A g \in early' : ~Up(g)'
    BY <2>2, <2>3
  <2>5. proc'["candump"] # "none" \/ proc["candump"] = "none"
    BY <2>2, <2>3
  <2> QED BY <2>1, <2>2, <2>3, <2>4, <2>5
<1>26. CASE ResponderOpens
  BY <1>26 DEF ResponderOpens, script, procs, inputs
<1>27. CASE CommandFrame
  BY <1>27 DEF CommandFrame, script, procs, inputs
<1>28. CASE RuntimeEvent
  BY <1>28 DEF RuntimeEvent, script, procs, inputs
<1>29. CASE WorkloadEnds
  BY <1>29 DEF WorkloadEnds, script, inputs
<1>30. CASE CollectEbpf
  <2>1. PICK s : proc' = [proc EXCEPT !["bpftrace"] = s]
    BY <1>30 DEF CollectEbpf
  <2>2. UNCHANGED <<pc, why, sent, early, status, case>>
    BY <1>30 DEF CollectEbpf, script, inputs
  <2>3. \A h \in Helpers : proc'[h] = proc[h]
    BY <2>1
  <2>4. ASSUME NEW h \in early PROVE ~Up(h)'
    <3>1. h \in Helpers /\ ~Up(h)
      OBVIOUS
    <3>2. proc'[h] = proc[h]
      BY <2>3, <3>1
    <3> QED BY <3>1, <3>2
  <2>5. proc'["candump"] = proc["candump"]
    BY <2>3
  <2> QED BY <2>2, <2>4, <2>5
<1>31. CASE StrayEnds
  BY <1>31 DEF StrayEnds, script, procs, inputs
<1>32. CASE Interrupt
  <2>0. case' = case
    BY <1>32 DEF Interrupt, inputs
  <2>1. CASE InterruptAlone \/ InterruptHandover
    BY <2>0, <2>1 DEF InterruptAlone, InterruptHandover, Fail, procs
  <2>2. CASE InterruptCapture
    BY <2>0, <2>2 DEF InterruptCapture, FailInCapture, StartProc
  <2>3. CASE InterruptTry
    <3>0. pc' = "cleanup" /\ why' # "" /\ UNCHANGED <<sent, status>>
          /\ pc \notin Alone \cup {"unwind", "done", "cleanup"}
      BY <2>3 DEF InterruptTry, FailInTry
    <3>1. CASE SpawnWorkload /\ At("launch")
      BY <2>0, <3>0, <3>1 DEF SpawnWorkload, StartProc
    <3>2. CASE UNCHANGED early /\ proc' = [proc EXCEPT !["stress"] = "up"] /\ At("stress")
      BY <2>0, <3>0, <3>2
    <3>3. CASE UNCHANGED <<proc, early>>
      BY <2>0, <3>0, <3>3
    <3> QED BY <2>3, <3>1, <3>2, <3>3 DEF InterruptTry, StartProc
  <2>4. CASE InterruptCleanup
    BY <2>0, <2>4 DEF InterruptCleanup, Fail, Stopping, procs
  <2> QED BY <1>32, <2>1, <2>2, <2>3, <2>4 DEF Interrupt
<1>33. CASE Kill
  BY <1>33 DEF Kill, procs, inputs
<1>34. CASE TreeChanges
  BY <1>34 DEF TreeChanges, script, procs, inputs
<1>35. CASE NextRun
  BY <1>35 DEF NextRun, inputs
<1>36. CASE UNCHANGED vars
  BY <1>36 DEF vars, script, procs, inputs
<1> QED BY <1>1, <1>2, <1>3, <1>4, <1>5, <1>6, <1>7, <1>8, <1>9, <1>10, <1>11,
           <1>12, <1>13, <1>14, <1>15, <1>16, <1>17, <1>18, <1>19, <1>20, <1>21,
           <1>22, <1>23, <1>24, <1>25, <1>26, <1>27, <1>28, <1>29, <1>30, <1>31,
           <1>32, <1>33, <1>34, <1>35, <1>36 DEF Next, Script

LEMMA StepCert ==
  FileInv /\ ProcInv /\ EarlyInv /\ CertInv /\ [Next]_vars => CertInv'
<1> SUFFICES ASSUME FileInv /\ ProcInv /\ EarlyInv /\ CertInv, [Next]_vars PROVE CertInv'
  OBVIOUS
<1> USE DEF At, ProcInv, HelperInv, WorkloadInv, Labels, Alone, Preparing, Settled, Mid, Up, Helpers, Procs, NoProcs, EarlyInv, CertInv, Covered, FileInv, Stressed
<1>1. CASE Qualify
  BY <1>1 DEF Qualify, Goto, Fail, procs, inputs
<1>2. CASE Gate
  BY <1>2 DEF Gate, Goto, Fail, procs, inputs
<1>3. CASE WriteBundle
  BY <1>3, CertWrite, Names DEF WriteBundle, Goto, Fail, procs, script, inputs
<1>4. CASE Calibrate
  BY <1>4, CertWrite DEF Calibrate, Goto, Fail, procs, inputs
<1>5. CASE StartCandump
  BY <1>5, CertWrite DEF StartCandump, CandumpStarts, CandumpFails, FailInCapture, Started, VcanRefused, PairRefused, StartProc, Goto, Fail, inputs
<1>6. CASE StartResponder
  BY <1>6 DEF StartResponder, StartProc, Goto, FailInCapture, Started, inputs
<1>7. CASE ResponderReady \/ EnterTry
  BY <1>7 DEF ResponderReady, EnterTry, Goto, FailInCapture, Started, procs, inputs
<1>8. CASE StartStress
  BY <1>8 DEF StartStress, StartProc, Goto, FailInTry, Started, inputs
<1>9. CASE StressAlive
  BY <1>9 DEF StressAlive, Goto, FailInTry, Started, procs, inputs
<1>10. CASE Launch
  BY <1>10 DEF Launch, SpawnWorkload, StartProc, Goto, FailInTry, Started, inputs
<1>11. CASE PollProcesses
  BY <1>11, CertWrite DEF PollProcesses, AfterPoll, Goto, procs, inputs
<1>12. CASE SchedulerManifest
  BY <1>12 DEF SchedulerManifest, Goto, FailInTry, Started, procs, inputs
<1>13. CASE StartEbpf
  BY <1>13 DEF StartEbpf, StartProc, Goto, FailInTry, Started, inputs
<1>14. CASE EbpfDone
  BY <1>14, CertWrite DEF EbpfDone, EbpfRecorded, EbpfRefused, Goto, FailInTry, Started, procs, inputs
<1>15. CASE WaitWorkload
  BY <1>15 DEF WaitWorkload, Started, procs, inputs
<1>16. CASE PollHelper
  BY <1>16 DEF PollHelper, Stopping, Stopped, NextHelper, script, inputs
<1>17. CASE GracefulStop
  BY <1>17 DEF GracefulStop, Stopping, Stopped, NextHelper, inputs
<1>18. CASE ForcedKill
  BY <1>18 DEF ForcedKill, Stopping, Stopped, NextHelper, inputs
<1>19. CASE Unwound
  BY <1>19 DEF Unwound, Goto, procs, inputs
<1>20. CASE Finalise
  BY <1>20, CertWrite DEF Finalise, Goto, Fail, procs, inputs, CaptureSound
<1>21. CASE CheckOutput
  BY <1>21 DEF CheckOutput, Goto, Fail, procs, inputs
<1>22. CASE ExportTrace
  BY <1>22, CertWrite DEF ExportTrace, Exported, Goto, Fail, procs, inputs
<1>23. CASE WriteSummary
  BY <1>23, CertWrite DEF WriteSummary, Goto, procs, inputs
<1>24. CASE FinalizeArtifacts
  <2>1. pc = "finalize" /\ pc' = "done" /\ UNCHANGED <<case, run, procs>>
    BY <1>24 DEF FinalizeArtifacts, Goto, Fail, inputs
  <2>2. files'["artifact_manifest"] \in {files["artifact_manifest"], run}
    BY <1>24, Names DEF FinalizeArtifacts, Write
  <2> QED BY <2>1, <2>2 DEF procs
<1>25. CASE \E h \in Helpers : HelperExits(h)
  <2>1. /\ UNCHANGED <<pc, run, case, files, exit, status>>
        /\ proc["workload"] # "up" => UNCHANGED early
        /\ proc["workload"] # "up" => proc'["workload"] # "up"
    BY <1>25 DEF HelperExits, script, inputs
  <2>2. proc'["workload"] = proc["workload"]
    BY <1>25 DEF HelperExits
  <2> QED BY <2>1, <2>2
<1>26. CASE ResponderOpens
  BY <1>26 DEF ResponderOpens, script, procs, inputs
<1>27. CASE CommandFrame
  BY <1>27 DEF CommandFrame, script, procs, inputs
<1>28. CASE RuntimeEvent
  BY <1>28, CertWrite DEF RuntimeEvent, script, procs, inputs
<1>29. CASE WorkloadEnds
  BY <1>29 DEF WorkloadEnds, script, inputs
<1>30. CASE CollectEbpf
  <2>1. proc'["workload"] = proc["workload"]
    <3>1. PICK s : proc' = [proc EXCEPT !["bpftrace"] = s]
      BY <1>30 DEF CollectEbpf
    <3> QED BY <3>1
  <2>2. UNCHANGED <<pc, run, case, files, exit, status, early>>
    BY <1>30 DEF CollectEbpf, script, inputs
  <2> QED BY <2>1, <2>2
<1>31. CASE StrayEnds
  BY <1>31 DEF StrayEnds, script, procs, inputs
<1>32. CASE Interrupt
  <2>1. CASE InterruptAlone \/ InterruptHandover \/ InterruptCleanup
    BY <1>32, <2>1 DEF Interrupt, InterruptAlone, InterruptHandover,
       InterruptCleanup, Fail, Stopping, procs, inputs
  <2>2. CASE InterruptCapture
    BY <1>32, <2>2, CertWrite DEF Interrupt, InterruptCapture, FailInCapture, StartProc, inputs
  <2>3. CASE InterruptTry
    BY <1>32, <2>3 DEF Interrupt, InterruptTry, FailInTry, StartProc, SpawnWorkload, inputs
  <2> QED BY <1>32, <2>1, <2>2, <2>3 DEF Interrupt
<1>33. CASE Kill
  BY <1>33 DEF Kill, procs, inputs
<1>34. CASE TreeChanges
  BY <1>34 DEF TreeChanges, script, procs, inputs
<1>35. CASE NextRun
  BY <1>35, CertNext DEF NextRun
<1>36. CASE UNCHANGED vars
  BY <1>36 DEF vars, script, procs, inputs
<1> QED BY <1>1, <1>2, <1>3, <1>4, <1>5, <1>6, <1>7, <1>8, <1>9, <1>10, <1>11,
           <1>12, <1>13, <1>14, <1>15, <1>16, <1>17, <1>18, <1>19, <1>20, <1>21,
           <1>22, <1>23, <1>24, <1>25, <1>26, <1>27, <1>28, <1>29, <1>30, <1>31,
           <1>32, <1>33, <1>34, <1>35, <1>36 DEF Next, Script

\* What a manifest certifies was recorded, answered and loaded to the end of a
\* workload that ran its time.
THEOREM CertifiedIsCovered == Spec => []CertifiedCovered
<1>1. FileInv /\ CertInv => CertifiedCovered
  BY DEF FileInv, CertInv, CertifiedCovered, Covered, AdapterAccepts, Stressed
<1>2. Init => FileInv /\ ProcInv /\ EarlyInv /\ CertInv
  BY InitFiles, InitProcs, InitEarly, InitCert
<1>3. /\ FileInv /\ ProcInv /\ EarlyInv /\ CertInv
      /\ [Next]_vars
      => (FileInv /\ ProcInv /\ EarlyInv /\ CertInv)'
  BY StepFiles, StepProcs, StepEarly, StepCert
<1> QED BY <1>1, <1>2, <1>3, PTL DEF Spec

-----------------------------------------------------------------------------
(* The gates.                                                              *)

T(commit, dirty) == [commit |-> commit, dirty |-> dirty]
Trees == {T(1, FALSE), T(1, TRUE), T(2, FALSE)}

\* A tree never comes back, and a report that allows a formal case was given
\* for a clean one.
GateInv ==
    /\ case \in Case /\ tree \in Trees /\ report.tree \in Trees
    /\ report.tree = T(1, TRUE) => tree # T(1, FALSE)
    /\ report.tree = T(2, FALSE) => tree = T(2, FALSE)
    /\ report.allowed => /\ Formal(case.role) => report.tree # T(1, TRUE)
                         /\ ~RoleErrors(case)
    /\ why = "gate" /\ case.transport = "mock" /\ report.allowed => report.tree # tree
    /\ pc = "qualify" => why = ""
    /\ why # "roles"

LEMMA RolesAgree == \A c : MeasuredRoles(c) = RequiredRoles(c.fault)
  BY DEF MeasuredRoles, Exported, RequiredRoles, NeedsPids, Traced, EbpfOn, BaseRoles,
         TraceRoles, EbpfRoles

LEMMA TreeParts ==
  /\ T(1, FALSE).commit = 1 /\ T(1, TRUE).commit = 1 /\ T(2, FALSE).commit = 2
  /\ ~T(1, FALSE).dirty /\ T(1, TRUE).dirty /\ ~T(2, FALSE).dirty
  /\ T(1, FALSE) # T(1, TRUE) /\ T(1, FALSE) # T(2, FALSE) /\ T(1, TRUE) # T(2, FALSE)
  BY DEF T

\* A mock case the session qualified, with the tree as it was: the script's
\* gate opens.
LEMMA GatesAgree ==
  ASSUME GateInv, report.allowed, report.tree = tree, case.transport = "mock"
  PROVE  GateOpen(case)
<1>1. Formal(case.role) => ~tree.dirty /\ ~report.tree.dirty
  BY TreeParts DEF GateInv, Trees
<1>2. Formal(case.role) => /\ case.variant = "control" => case.fault \in {"F3", "F4"}
                           /\ case.fault # "F5"
  BY DEF GateInv, RoleErrors
<1>3. FormalAllowed(case)
  BY <1>1, <1>2 DEF FormalAllowed
<1>4. TransportAllowed(case)
  BY DEF TransportAllowed
<1>5. ChildRole(case.role) # "development" => Formal(case.role)
  BY DEF GateInv, Case, Roles, ChildRole, Formal
<1>6. ManifestsAllowed(case)
  BY <1>2, <1>4, <1>5 DEF ManifestsAllowed
<1> QED BY <1>3, <1>4, <1>6 DEF GateOpen

LEMMA InitGate == Init => GateInv
<1> SUFFICES ASSUME Init PROVE GateInv
  OBVIOUS
<1>1. case \in Case
  BY CasesAssumption DEF Init
<1>2. PICK d \in BOOLEAN : tree = T(1, d)
  BY DEF Init, T
<1>3. report.tree = tree /\ ~report.allowed /\ why = ""
  BY DEF Init
<1>4. tree \in {T(1, FALSE), T(1, TRUE)}
  BY <1>2
<1> QED BY <1>1, <1>3, <1>4, TreeParts DEF GateInv, Trees

LEMMA GateKept ==
  ASSUME GateInv, UNCHANGED <<case, tree, report>>, why' # "gate" \/ why' = why,
         why' # "roles", pc' # "qualify" \/ UNCHANGED <<pc, why>>
  PROVE  GateInv'
  BY DEF GateInv, Formal, RoleErrors

LEMMA StepGate == GateInv /\ [Next]_vars => GateInv'
<1> SUFFICES ASSUME GateInv, [Next]_vars PROVE GateInv'
  OBVIOUS
<1> USE DEF At
<1>0. why # "roles"
  BY DEF GateInv
<1>1. CASE Qualify
  <2>1. report' = Qualification(case) /\ UNCHANGED <<case, tree>> /\ why' \in {why, "denied"}
    BY <1>1 DEF Qualify, Goto, Fail
  <2>2. pc' # "qualify" /\ why' # "gate" /\ why' # "roles"
    BY <1>1, <2>1 DEF Qualify, Goto, Fail, GateInv
  <2>3. report'.tree = tree
    BY <2>1 DEF Qualification
  <2>4. report'.allowed => (Formal(case.role) => ~tree.dirty) /\ ~RoleErrors(case)
    BY <2>1 DEF Qualification
  <2> QED BY <2>1, <2>2, <2>3, <2>4, TreeParts DEF GateInv, Trees, Formal, RoleErrors
<1>2. CASE Gate
  <2>1. UNCHANGED <<case, tree, report>> /\ pc' # "qualify" /\ why' \in {why, "gate"}
    BY <1>2 DEF Gate, Goto, Fail, inputs
  <2>2. CASE GateOpen(case)
    BY <1>2, <2>1, <2>2, <1>0, GateKept DEF Gate, Goto
  <2>3. CASE ~GateOpen(case)
    <3>1. case.transport = "mock" /\ report.allowed => report.tree # tree
      BY <2>3, GatesAgree
    <3> QED BY <3>1, <2>1 DEF GateInv, Formal, RoleErrors
  <2> QED BY <2>2, <2>3
<1>3. CASE WriteBundle
  BY <1>3, <1>0, GateKept DEF WriteBundle, Goto, Fail, script, inputs
<1>4. CASE Calibrate
  BY <1>4, <1>0, GateKept DEF Calibrate, Goto, Fail, inputs, script
<1>5. CASE StartCandump
  BY <1>5, <1>0, GateKept DEF StartCandump, CandumpStarts, CandumpFails, FailInCapture, Started, VcanRefused, PairRefused, StartProc, Goto, Fail, inputs, script
<1>6. CASE StartResponder
  BY <1>6, <1>0, GateKept DEF StartResponder, StartProc, Goto, FailInCapture, Started, inputs, script
<1>7. CASE ResponderReady \/ EnterTry
  BY <1>7, <1>0, GateKept DEF ResponderReady, EnterTry, Goto, FailInCapture, Started, inputs, script
<1>8. CASE StartStress
  BY <1>8, <1>0, GateKept DEF StartStress, StartProc, Goto, FailInTry, Started, inputs, script
<1>9. CASE StressAlive
  BY <1>9, <1>0, GateKept DEF StressAlive, Goto, FailInTry, Started, inputs, script
<1>10. CASE Launch
  BY <1>10, <1>0, GateKept DEF Launch, SpawnWorkload, StartProc, Goto, FailInTry, Started, inputs, script
<1>11. CASE PollProcesses
  BY <1>11, <1>0, GateKept DEF PollProcesses, AfterPoll, Goto, inputs, script
<1>12. CASE SchedulerManifest
  BY <1>12, <1>0, GateKept DEF SchedulerManifest, Goto, FailInTry, Started, inputs, script
<1>13. CASE StartEbpf
  BY <1>13, <1>0, GateKept DEF StartEbpf, StartProc, Goto, FailInTry, Started, inputs, script
<1>14. CASE EbpfDone
  BY <1>14, <1>0, GateKept DEF EbpfDone, EbpfRecorded, EbpfRefused, Goto, FailInTry, Started, inputs, script
<1>15. CASE WaitWorkload
  BY <1>15, <1>0, GateKept DEF WaitWorkload, Started, inputs, script
<1>16. CASE PollHelper
  BY <1>16, <1>0, GateKept DEF PollHelper, Stopping, Stopped, NextHelper, script, inputs
<1>17. CASE GracefulStop
  BY <1>17, <1>0, GateKept DEF GracefulStop, Stopping, Stopped, NextHelper, inputs, script
<1>18. CASE ForcedKill
  BY <1>18, <1>0, GateKept DEF ForcedKill, Stopping, Stopped, NextHelper, inputs, script
<1>19. CASE Unwound
  BY <1>19, <1>0, GateKept DEF Unwound, Goto, inputs, script
<1>20. CASE Finalise
  BY <1>20, <1>0, GateKept DEF Finalise, Goto, Fail, inputs, script
<1>21. CASE CheckOutput
  BY <1>21, <1>0, GateKept DEF CheckOutput, Goto, Fail, inputs, script
<1>22. CASE ExportTrace
  BY <1>22, <1>0, GateKept DEF ExportTrace, Goto, Fail, inputs, script
<1>23. CASE WriteSummary
  BY <1>23, <1>0, GateKept DEF WriteSummary, Goto, inputs, script
<1>24. CASE FinalizeArtifacts
  <2>2. UNCHANGED <<case, tree, report>> /\ pc' # "qualify"
    BY <1>24 DEF FinalizeArtifacts, Goto, Fail, inputs
  <2>3. why' \in {why, "manifest exists"}
    BY <1>24, RolesAgree DEF FinalizeArtifacts, Goto, Fail
  <2> QED BY <2>2, <2>3, <1>0, GateKept
<1>25. CASE \E h \in Helpers : HelperExits(h)
  BY <1>25, <1>0, GateKept DEF HelperExits, script, inputs
<1>26. CASE ResponderOpens
  BY <1>26, <1>0, GateKept DEF ResponderOpens, script, inputs
<1>27. CASE CommandFrame
  BY <1>27, <1>0, GateKept DEF CommandFrame, script, inputs
<1>28. CASE RuntimeEvent
  BY <1>28, <1>0, GateKept DEF RuntimeEvent, script, inputs
<1>29. CASE WorkloadEnds
  BY <1>29, <1>0, GateKept DEF WorkloadEnds, script, inputs
<1>30. CASE CollectEbpf
  BY <1>30, <1>0, GateKept DEF CollectEbpf, script, inputs
<1>31. CASE StrayEnds
  BY <1>31, <1>0, GateKept DEF StrayEnds, script, inputs
<1>32. CASE Interrupt
  <2>1. UNCHANGED <<case, tree, report>> /\ pc # "qualify"
    BY <1>32 DEF Interrupt, InterruptAlone, InterruptCapture, InterruptHandover,
       InterruptTry, InterruptCleanup, Stopping, inputs
  <2>2. /\ pc' \in {"done", "cleanup", "unwind"}
        /\ why' \in {why, "interrupt", "candump_lost", "responder_lost",
                      "capture_lost", "stress_lost"}
    BY <1>32 DEF Interrupt, InterruptAlone, InterruptCapture, InterruptHandover,
       InterruptTry, InterruptCleanup, Fail, FailInCapture, FailInTry
  <2> QED BY <2>1, <2>2, <1>0, GateKept
<1>33. CASE Kill
  BY <1>33, <1>0, GateKept DEF Kill, inputs, script
<1>34. CASE TreeChanges
  <2>1. UNCHANGED <<case, report, why, pc>>
    BY <1>34 DEF TreeChanges, script
  <2>2. tree.commit = 1 /\ tree' # tree /\ tree' \in {T(2, FALSE), T(1, TRUE)}
    BY <1>34 DEF TreeChanges, T
  <2>3. CASE tree = T(1, FALSE)
    BY <2>1, <2>2, <2>3, TreeParts DEF GateInv, Trees, Formal, RoleErrors
  <2>4. CASE tree = T(1, TRUE)
    BY <2>1, <2>2, <2>4, TreeParts DEF GateInv, Trees, Formal, RoleErrors
  <2>5. CASE tree = T(2, FALSE)
    BY <2>2, <2>5, TreeParts
  <2> QED BY <2>3, <2>4, <2>5 DEF GateInv, Trees
<1>35. CASE NextRun
  BY <1>35, <1>0, GateKept DEF NextRun, inputs, script
<1>36. CASE UNCHANGED vars
  BY <1>36, <1>0, GateKept DEF vars, script, inputs
<1> QED BY <1>1, <1>2, <1>3, <1>4, <1>5, <1>6, <1>7, <1>8, <1>9, <1>10, <1>11,
           <1>12, <1>13, <1>14, <1>15, <1>16, <1>17, <1>18, <1>19, <1>20, <1>21,
           <1>22, <1>23, <1>24, <1>25, <1>26, <1>27, <1>28, <1>29, <1>30, <1>31,
           <1>32, <1>33, <1>34, <1>35, <1>36 DEF Next, Script

\* The two gates agree while the tree stays, and what a complete run collects is
\* what its manifest asks for.
THEOREM GatesConsistent == Spec => []QualifiedRuns
<1>1. GateInv => QualifiedRuns
  BY DEF GateInv, QualifiedRuns
<1> QED BY <1>1, InitGate, StepGate, PTL DEF Spec
=============================================================================
