------------------------- MODULE ExperimentSession -------------------------
(***************************************************************************)
(* A formal experiment session (scripts/run_formal_experiment_session.py   *)
(* and experiments/protocol/session_integrity.py): one invocation plans    *)
(* the session and runs its cases, a later one resumes it.  Everything an  *)
(* invocation knows of the others is in the files of the session; it may   *)
(* be killed at any step, and nothing keeps two of them from overlapping.  *)
(*                                                                         *)
(* evidence stands for the expected report, the role evidence and the      *)
(* artifact manifest of a case: "good" when all of them pass the checks of *)
(* _case_result, "bad" when some file is there and they do not.            *)
(***************************************************************************)
EXTENDS Integers, FiniteSets

CONSTANTS Procs,           \* processes that may be invoked
          N,               \* the manifest's runs are 1..N
          MaxInvocations   \* bound of this model

ASSUME SessionAssumption == N \in Nat /\ MaxInvocations \in Nat /\ "none" \notin Procs

VARIABLES
  sessionDir,   \* output_dir exists
  manifest,     \* session_manifest.json: "none" or the process that planned it
  sidecar,      \* session_manifest.sha256: "none", "torn" or "written"
  caseDir, started,  \* per case: its directory, its case_started.json
  result,       \* case_result.json: "none", "torn" or the status in it
  evidence,     \* what the case's command left: "none", "bad" or "good"
  changed,      \* recorded evidence was lost or modified afterwards
  summary,      \* status in summary.json, "none" without the file
  pc, at,       \* per process: the place in the code, and the case it is at
  returned,     \* the case command's return code is 0 (execute_case)
  dryRun,       \* --dry-run
  raised,       \* the exception that ended the process's last invocation
  invocations,  \* how many there were, the bound
  executed, succeeded,  \* per case: executions, and whether one did all (history)
  overlapped    \* two invocations were active at once (history)

Session == <<sessionDir, manifest, sidecar>>
CaseFiles == <<caseDir, started, result, evidence, changed>>
Local == <<at, returned, dryRun>>
History == <<executed, succeeded, overlapped>>
vars == <<Session, CaseFiles, summary, pc, Local, raised, invocations, History>>

\* The runs of the manifest, in the order of the balanced blocks.
Cases == 1..N
Terminal == {"successful", "failed", "interrupted"}

-----------------------------------------------------------------------------
Init ==
  /\ sessionDir = FALSE /\ manifest = "none" /\ sidecar = "none"
  /\ caseDir = [c \in Cases |-> FALSE] /\ started = [c \in Cases |-> FALSE]
  /\ result = [c \in Cases |-> "none"] /\ evidence = [c \in Cases |-> "none"]
  /\ changed = [c \in Cases |-> FALSE]
  /\ summary = "none"
  /\ pc = [p \in Procs |-> "idle"] /\ at = [p \in Procs |-> 1]
  /\ returned = [p \in Procs |-> FALSE] /\ dryRun = [p \in Procs |-> FALSE]
  /\ raised = [p \in Procs |-> "none"]
  /\ invocations = 0
  /\ executed = [c \in Cases |-> 0] /\ succeeded = [c \in Cases |-> FALSE]
  /\ overlapped = FALSE

Goto(p, place) == pc' = [pc EXCEPT ![p] = place] /\ UNCHANGED raised
Raise(p, error) ==
  /\ pc' = [pc EXCEPT ![p] = "idle"]
  /\ raised' = [raised EXCEPT ![p] = error]

\* The command is started, with or without --dry-run or --resume.
Invoke(p) ==
  /\ pc[p] = "idle" /\ invocations < MaxInvocations
  /\ invocations' = invocations + 1
  /\ \E dry \in BOOLEAN, place \in {"plan", "verify"} :
       /\ dry => place = "plan"
       /\ dryRun' = [dryRun EXCEPT ![p] = dry]
       /\ pc' = [pc EXCEPT ![p] = place]
  /\ raised' = [raised EXCEPT ![p] = "none"]
  /\ overlapped' = (overlapped \/ \E q \in Procs \ {p} : pc[q] # "idle")
  /\ UNCHANGED <<Session, CaseFiles, summary, at, returned, executed, succeeded>>

\* Killed: the process is gone, its files stay.
Kill(p) ==
  /\ pc[p] # "idle"
  /\ Goto(p, "idle")
  /\ UNCHANGED <<Session, CaseFiles, summary, Local, invocations, History>>

\* run_formal_session: the check for existing output, then its creation.
CheckOutput(p) ==
  /\ pc[p] = "plan"
  /\ \/ sessionDir /\ Raise(p, "output_exists")
     \/ ~sessionDir /\ Goto(p, "create")
  /\ UNCHANGED <<Session, CaseFiles, summary, Local, invocations, History>>

CreateOutputAnyway(p) ==   \* mutant: mkdir with exist_ok
  /\ pc[p] = "create"
  /\ sessionDir' = TRUE
  /\ Goto(p, "manifest")
  /\ UNCHANGED <<manifest, sidecar, CaseFiles, summary, Local, invocations, History>>
CreateOutput(p) ==
  /\ pc[p] = "create"
  /\ \/ sessionDir /\ Raise(p, "output_exists") /\ UNCHANGED sessionDir
     \/ ~sessionDir /\ sessionDir' = TRUE /\ \E place \in {"denied", "manifest"} : Goto(p, place)
  /\ UNCHANGED <<manifest, sidecar, CaseFiles, summary, Local, invocations, History>>

Denied(p) ==
  /\ pc[p] = "denied"
  /\ summary' = "denied"
  /\ Goto(p, "idle")
  /\ UNCHANGED <<Session, CaseFiles, Local, invocations, History>>

\* build_session_manifest: a selected case has no formal role, the repetitions of
\* a group differ, or the inputs are not those of the qualification.
PlanRefused(p) ==
  /\ pc[p] = "manifest"
  /\ Raise(p, "refused")
  /\ UNCHANGED <<Session, CaseFiles, summary, Local, invocations, History>>

\* The manifest is replaced atomically, its hash is not.
WriteManifest(p) ==
  /\ pc[p] = "manifest"
  /\ manifest' = p
  /\ Goto(p, "sidecar")
  /\ UNCHANGED <<sessionDir, sidecar, CaseFiles, summary, Local, invocations, History>>
OpenSidecar(p) ==
  /\ pc[p] = "sidecar"
  /\ sidecar' = "torn"
  /\ Goto(p, "hash")
  /\ UNCHANGED <<sessionDir, manifest, CaseFiles, summary, Local, invocations, History>>
WriteSidecar(p) ==
  /\ pc[p] = "hash"
  /\ sidecar' = "written"
  /\ at' = [at EXCEPT ![p] = 1]
  /\ Goto(p, IF dryRun[p] THEN "planned" ELSE "loop")
  /\ UNCHANGED <<sessionDir, manifest, CaseFiles, summary, returned, dryRun, invocations, History>>
Planned(p) ==
  /\ pc[p] = "planned"
  /\ summary' = "planned"
  /\ Goto(p, "idle")
  /\ UNCHANGED <<Session, CaseFiles, Local, invocations, History>>

\* _resume_session: arguments, inputs or the Git state may have drifted.
Verify(p) ==
  /\ pc[p] = "verify"
  /\ \/ Raise(p, "refused") /\ UNCHANGED at
     \/ /\ manifest # "none" /\ sidecar = "written"
        /\ Goto(p, "mark")
        /\ at' = [at EXCEPT ![p] = 1]
  /\ UNCHANGED <<Session, CaseFiles, summary, returned, dryRun, invocations, History>>

\* mark_interrupted_runs, which does not write through a temporary file.
MarkAllStarted(p) ==       \* mutant: the result is not looked for
  /\ pc[p] = "mark"
  /\ \/ at[p] > N /\ Goto(p, "loop") /\ at' = [at EXCEPT ![p] = 1]
     \/ /\ at[p] <= N /\ ~started[at[p]]
        /\ at' = [at EXCEPT ![p] = @ + 1] /\ UNCHANGED <<pc, raised>>
     \/ /\ at[p] <= N /\ started[at[p]]
        /\ Goto(p, "open") /\ UNCHANGED at
  /\ UNCHANGED <<Session, CaseFiles, summary, returned, dryRun, invocations, History>>
Mark(p) ==
  /\ pc[p] = "mark"
  /\ \/ at[p] > N /\ Goto(p, "loop") /\ at' = [at EXCEPT ![p] = 1]
     \/ /\ at[p] <= N /\ (result[at[p]] # "none" \/ ~started[at[p]])
        /\ at' = [at EXCEPT ![p] = @ + 1] /\ UNCHANGED <<pc, raised>>
     \/ /\ at[p] <= N /\ result[at[p]] = "none" /\ started[at[p]]
        /\ Goto(p, "open") /\ UNCHANGED at
  /\ UNCHANGED <<Session, CaseFiles, summary, returned, dryRun, invocations, History>>
OpenInterrupted(p) ==
  /\ pc[p] = "open"
  /\ result' = [result EXCEPT ![at[p]] = "torn"]
  /\ Goto(p, "write")
  /\ UNCHANGED <<Session, caseDir, started, evidence, changed, summary, Local, invocations, History>>
\* The file opened may have been replaced meanwhile; then nobody reads the write.
WriteInterrupted(p) ==
  /\ pc[p] = "write"
  /\ result' = [result EXCEPT ![at[p]] = IF @ = "torn" THEN "interrupted" ELSE @]
  /\ at' = [at EXCEPT ![p] = @ + 1]
  /\ Goto(p, "mark")
  /\ UNCHANGED <<Session, caseDir, started, evidence, changed, summary, returned, dryRun,
                 invocations, History>>

\* _execute_and_finish: the next case without a started or a result file.
NextCase(p) ==
  /\ pc[p] = "loop"
  /\ \/ at[p] > N /\ Goto(p, "assess") /\ UNCHANGED at
     \/ /\ at[p] <= N /\ (result[at[p]] # "none" \/ started[at[p]])
        /\ at' = [at EXCEPT ![p] = @ + 1] /\ UNCHANGED <<pc, raised>>
     \/ /\ at[p] <= N /\ result[at[p]] = "none" /\ ~started[at[p]]
        /\ Goto(p, "mkdir") /\ UNCHANGED at
  /\ UNCHANGED <<Session, CaseFiles, summary, returned, dryRun, invocations, History>>

MakeCaseDirAnyway(p) ==    \* mutant: mkdir with exist_ok
  /\ pc[p] = "mkdir"
  /\ caseDir' = [caseDir EXCEPT ![at[p]] = TRUE]
  /\ Goto(p, "start")
  /\ UNCHANGED <<Session, started, result, evidence, changed, summary, Local, invocations, History>>
MakeCaseDir(p) ==
  /\ pc[p] = "mkdir"
  /\ \/ caseDir[at[p]] /\ Raise(p, "case_dir_exists") /\ UNCHANGED caseDir
     \/ /\ ~caseDir[at[p]]
        /\ caseDir' = [caseDir EXCEPT ![at[p]] = TRUE]
        /\ Goto(p, "start")
  /\ UNCHANGED <<Session, started, result, evidence, changed, summary, Local, invocations, History>>

WriteStarted(p) ==
  /\ pc[p] = "start"
  /\ started' = [started EXCEPT ![at[p]] = TRUE]
  /\ Goto(p, "execute")
  /\ UNCHANGED <<Session, caseDir, result, evidence, changed, summary, Local, invocations, History>>

Execute(p) ==
  LET c == at[p] IN
  /\ pc[p] = "execute"
  /\ \E ok \in BOOLEAN, e \in {"none", "bad", "good"} :
       /\ returned' = [returned EXCEPT ![p] = ok]
       /\ evidence' = [evidence EXCEPT ![c] = e]
       /\ succeeded' = [succeeded EXCEPT ![c] = ok /\ e = "good"]
  /\ executed' = [executed EXCEPT ![c] = @ + 1]
  /\ Goto(p, "result")
  /\ UNCHANGED <<Session, caseDir, started, result, changed, summary, at, dryRun,
                 invocations, overlapped>>

\* _case_result, written through a temporary file.
WriteResult(p) ==
  LET c == at[p] IN
  /\ pc[p] = "result"
  /\ result' = [result EXCEPT ![c] =
       IF returned[p] /\ evidence[c] = "good" THEN "successful" ELSE "failed"]
  /\ changed' = [changed EXCEPT ![c] = FALSE]
  /\ at' = [at EXCEPT ![p] = @ + 1]
  /\ Goto(p, "loop")
  /\ UNCHANGED <<Session, caseDir, started, evidence, summary, returned, dryRun, invocations, History>>

\* assess_session_integrity: a result is an error if it does not parse, or if
\* the artifacts it lists are not what they were.
ResultInvalidIfTorn(c) == result[c] = "torn"   \* mutant: artifacts are not hashed again
ResultInvalid(c) == \/ result[c] = "torn"
                    \/ result[c] \in {"successful", "failed"} /\ changed[c]
Integrity ==
  IF \E c \in Cases : ResultInvalid(c) THEN "invalid"
  ELSE IF \A c \in Cases : result[c] = "successful" THEN "completed"
  ELSE "incomplete"

Assess(p) ==
  /\ pc[p] = "assess"
  /\ summary' = Integrity
  /\ Goto(p, "idle")
  /\ UNCHANGED <<Session, CaseFiles, Local, invocations, History>>

\* Recorded evidence is lost or modified after the fact.
Change(c) ==
  /\ result[c] \in {"successful", "failed"} /\ evidence[c] # "none" /\ ~changed[c]
  /\ changed' = [changed EXCEPT ![c] = TRUE]
  /\ UNCHANGED <<Session, caseDir, started, result, evidence, summary, pc, Local, raised,
                 invocations, History>>

Plan(p) == CheckOutput(p) \/ CreateOutput(p) \/ Denied(p) \/ PlanRefused(p)
           \/ WriteManifest(p) \/ OpenSidecar(p) \/ WriteSidecar(p) \/ Planned(p)
Resume(p) == Verify(p) \/ Mark(p) \/ OpenInterrupted(p) \/ WriteInterrupted(p)
RunCase(p) == NextCase(p) \/ MakeCaseDir(p) \/ WriteStarted(p) \/ Execute(p) \/ WriteResult(p)

Next ==
  \/ \E p \in Procs : Invoke(p) \/ Kill(p) \/ Plan(p) \/ Resume(p) \/ RunCase(p) \/ Assess(p)
  \/ \E c \in Cases : Change(c)

Spec == Init /\ [][Next]_vars

-----------------------------------------------------------------------------
TypeOK ==
  /\ sessionDir \in BOOLEAN /\ manifest \in Procs \cup {"none"}
  /\ sidecar \in {"none", "torn", "written"}
  /\ caseDir \in [Cases -> BOOLEAN] /\ started \in [Cases -> BOOLEAN]
  /\ result \in [Cases -> {"none", "torn"} \cup Terminal]
  /\ evidence \in [Cases -> {"none", "bad", "good"}] /\ changed \in [Cases -> BOOLEAN]
  /\ summary \in {"none", "denied", "planned", "completed", "incomplete", "invalid"}
  /\ pc \in [Procs -> {"idle", "plan", "create", "denied", "manifest", "sidecar", "hash",
                       "planned", "verify", "mark", "open", "write", "loop", "mkdir",
                       "start", "execute", "result", "assess"}]
  /\ at \in [Procs -> 1..(N + 1)]
  /\ returned \in [Procs -> BOOLEAN] /\ dryRun \in [Procs -> BOOLEAN]
  /\ raised \in [Procs -> {"none", "output_exists", "refused", "case_dir_exists"}]
  /\ invocations \in 0..MaxInvocations
  /\ executed \in [Cases -> Nat] /\ succeeded \in [Cases -> BOOLEAN]
  /\ overlapped \in BOOLEAN

\* A case is "never rerun in place" (README.md), not even by two invocations at
\* once: its directory and its started file are the lock.
ExecutedOnce == \A c \in Cases : executed[c] <= 1

\* "Successful, failed, and interrupted cases are terminal": as long as no two
\* invocations overlap, no kill and no resume ever changes what was recorded.
TerminalKept ==
  [][~overlapped => \A c \in Cases : result[c] \in Terminal => result'[c] = result[c]]_vars

\* A session is reported completed only if every case ran once to success and
\* its evidence is as it was recorded, however often it was killed and resumed
\* and whatever else was running.
CompleteIsTrue ==
  [][summary' = "completed" /\ summary # "completed" =>
       \A c \in Cases : executed[c] = 1 /\ succeeded[c] /\ ~changed[c]]_vars

\* The plan of a session is frozen: no second invocation replaces it or the hash
\* that the resumes check.
ManifestFrozen ==
  [][/\ manifest # "none" => manifest' = manifest
     /\ sidecar = "written" => sidecar' = "written"]_vars

\* "An interrupted session is continued with the same frozen arguments plus
\* --resume" (README.md): with nobody else at work, a resume is not stopped by
\* what the interrupted invocation left behind.
ResumeContinues == ~overlapped => \A p \in Procs : raised[p] # "case_dir_exists"
=============================================================================
