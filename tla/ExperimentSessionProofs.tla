----------------------- MODULE ExperimentSessionProofs -----------------------
(***************************************************************************)
(* Proofs about ExperimentSession, for any number of processes, cases and  *)
(* invocations.  Two locks carry the argument: whoever creates output_dir  *)
(* is alone in planning, and whoever creates a case's directory is alone   *)
(* in executing it.                                                        *)
(***************************************************************************)
EXTENDS ExperimentSession, TLAPS

Creating == {"denied", "manifest", "sidecar", "hash"}
Holding == {"start", "execute", "result"}
AtCase == {"open", "write", "mkdir"} \cup Holding

\* The creator of output_dir writes the plan, once.
PlanInv ==
  /\ manifest # "none" \/ sidecar # "none" => sessionDir
  /\ \A p \in Procs :
       /\ pc[p] \in Creating => sessionDir
       /\ pc[p] \in {"denied", "manifest"} => manifest = "none"
       /\ pc[p] \in {"denied", "manifest", "sidecar"} => sidecar = "none"
       /\ pc[p] = "hash" => sidecar = "torn"
  /\ \A p, q \in Procs : pc[p] \in Creating /\ pc[q] \in Creating => p = q

\* The creator of a case's directory executes it, once.
CaseInv ==
  /\ \A c \in Cases : executed[c] > 0 => caseDir[c]
  /\ \A p \in Procs :
       /\ pc[p] \in AtCase => at[p] \in Cases
       /\ pc[p] \in Holding => caseDir[at[p]]
       /\ pc[p] \in {"start", "execute"} => executed[at[p]] = 0
       /\ pc[p] = "result" =>
            /\ executed[at[p]] = 1
            /\ returned[p] /\ evidence[at[p]] = "good" <=> succeeded[at[p]]
  /\ \A p, q \in Procs :
       pc[p] \in Holding /\ pc[q] \in Holding /\ at[p] = at[q] => p = q
  /\ \A c \in Cases : result[c] = "successful" => executed[c] = 1 /\ succeeded[c]
  /\ ExecutedOnce

\* Without an overlap nobody else has touched the case a process is at.
SoloInv ==
  ~overlapped =>
    /\ \A p, q \in Procs : pc[p] # "idle" /\ pc[q] # "idle" => p = q
    /\ \A p \in Procs :
         pc[p] \in {"open", "mkdir"} \cup Holding => result[at[p]] = "none"

IInv == TypeOK /\ PlanInv /\ CaseInv /\ SoloInv

-----------------------------------------------------------------------------
\* The part of the type invariant that nearly every step disturbs.
Located ==
  /\ pc \in [Procs -> {"idle", "plan", "create", "denied", "manifest", "sidecar", "hash",
                       "planned", "verify", "mark", "open", "write", "loop", "mkdir",
                       "start", "execute", "result", "assess"}]
  /\ raised \in [Procs -> {"none", "output_exists", "refused", "case_dir_exists"}]

LEMMA InitIInv == Init => IInv
<1> SUFFICES ASSUME Init PROVE IInv OBVIOUS
<1>1. TypeOK
  <2>1. at \in [Procs -> 1..(N + 1)] BY SessionAssumption DEF Init
  <2>2. invocations \in 0..MaxInvocations BY SessionAssumption DEF Init
  <2> QED BY <2>1, <2>2 DEF Init, TypeOK
<1>2. PlanInv BY DEF Init, PlanInv, Creating
<1>3. CaseInv BY DEF Init, CaseInv, AtCase, Holding, ExecutedOnce
<1>4. SoloInv BY DEF Init, SoloInv, Holding
<1> QED BY <1>1, <1>2, <1>3, <1>4 DEF IInv

LEMMA Positions ==
  ASSUME TypeOK, NEW p \in Procs
  PROVE  /\ [at EXCEPT ![p] = 1] \in [Procs -> 1..(N + 1)]
         /\ at[p] <= N => at[p] \in Cases
         /\ at[p] \in Cases => [at EXCEPT ![p] = @ + 1] \in [Procs -> 1..(N + 1)]
<1>1. N \in Nat /\ at \in [Procs -> 1..(N + 1)] BY SessionAssumption DEF TypeOK
<1>2. 1 \in 1..(N + 1) BY <1>1
<1>3. at[p] <= N => at[p] \in Cases BY <1>1 DEF Cases
<1>4. at[p] \in Cases => at[p] + 1 \in 1..(N + 1) BY <1>1 DEF Cases
<1> QED BY <1>1, <1>2, <1>3, <1>4

\* Planning: only the creator of output_dir goes on.
LEMMA PlanStep ==
  ASSUME IInv, NEW p \in Procs, Plan(p)
  PROVE  IInv'
<1> USE DEF Session, CaseFiles, Local, History, Goto, Raise
<1>1. CASE CheckOutput(p)
  <2>1. TypeOK' BY <1>1 DEF CheckOutput, IInv, TypeOK
  <2>2. PlanInv' BY <1>1 DEF CheckOutput, IInv, TypeOK, PlanInv, Creating
  <2>3. CaseInv' BY <1>1 DEF CheckOutput, IInv, TypeOK, CaseInv, AtCase, Holding, ExecutedOnce
  <2>4. SoloInv' BY <1>1 DEF CheckOutput, IInv, TypeOK, CaseInv, SoloInv, AtCase, Holding
  <2> QED BY <2>1, <2>2, <2>3, <2>4 DEF IInv
<1>2. CASE CreateOutput(p)
  <2>a. /\ sessionDir' = sessionDir \/ sessionDir' = TRUE
        /\ raised' = raised \/ raised' = [raised EXCEPT ![p] = "output_exists"]
        /\ \E place \in {"idle", "denied", "manifest"} : pc' = [pc EXCEPT ![p] = place]
        /\ UNCHANGED <<manifest, sidecar, CaseFiles, summary, Local, invocations, History>>
    BY <1>2 DEF CreateOutput
  <2>1. TypeOK'
    <3>1. sessionDir' \in BOOLEAN BY <2>a DEF IInv, TypeOK
    <3>2. Located' BY <2>a DEF IInv, TypeOK, Located
    <3> QED BY <2>a, <3>1, <3>2 DEF IInv, TypeOK, Located
  <2>2. PlanInv' BY <1>2 DEF CreateOutput, IInv, TypeOK, PlanInv, Creating
  <2>3. CaseInv' BY <1>2 DEF CreateOutput, IInv, TypeOK, CaseInv, AtCase, Holding, ExecutedOnce
  <2>4. SoloInv' BY <1>2 DEF CreateOutput, IInv, TypeOK, CaseInv, SoloInv, AtCase, Holding
  <2> QED BY <2>1, <2>2, <2>3, <2>4 DEF IInv
<1>3. CASE Denied(p)
  <2>1. TypeOK' BY <1>3 DEF Denied, IInv, TypeOK
  <2>2. PlanInv' BY <1>3 DEF Denied, IInv, TypeOK, PlanInv, Creating
  <2>3. CaseInv' BY <1>3 DEF Denied, IInv, TypeOK, CaseInv, AtCase, Holding, ExecutedOnce
  <2>4. SoloInv' BY <1>3 DEF Denied, IInv, TypeOK, CaseInv, SoloInv, AtCase, Holding
  <2> QED BY <2>1, <2>2, <2>3, <2>4 DEF IInv
<1>4. CASE WriteManifest(p)
  <2>1. TypeOK' BY <1>4 DEF WriteManifest, IInv, TypeOK
  <2>2. PlanInv' BY <1>4 DEF WriteManifest, IInv, TypeOK, PlanInv, Creating
  <2>3. CaseInv' BY <1>4 DEF WriteManifest, IInv, TypeOK, CaseInv, AtCase, Holding, ExecutedOnce
  <2>4. SoloInv' BY <1>4 DEF WriteManifest, IInv, TypeOK, CaseInv, SoloInv, AtCase, Holding
  <2> QED BY <2>1, <2>2, <2>3, <2>4 DEF IInv
<1>5. CASE OpenSidecar(p)
  <2>1. TypeOK' BY <1>5 DEF OpenSidecar, IInv, TypeOK
  <2>2. PlanInv' BY <1>5 DEF OpenSidecar, IInv, TypeOK, PlanInv, Creating
  <2>3. CaseInv' BY <1>5 DEF OpenSidecar, IInv, TypeOK, CaseInv, AtCase, Holding, ExecutedOnce
  <2>4. SoloInv' BY <1>5 DEF OpenSidecar, IInv, TypeOK, CaseInv, SoloInv, AtCase, Holding
  <2> QED BY <2>1, <2>2, <2>3, <2>4 DEF IInv
<1>6. CASE WriteSidecar(p)
  <2>1. TypeOK' BY <1>6, Positions DEF WriteSidecar, IInv, TypeOK
  <2>2. PlanInv' BY <1>6 DEF WriteSidecar, IInv, TypeOK, PlanInv, Creating
  <2>3. CaseInv' BY <1>6 DEF WriteSidecar, IInv, TypeOK, CaseInv, AtCase, Holding, ExecutedOnce
  <2>4. SoloInv' BY <1>6 DEF WriteSidecar, IInv, TypeOK, CaseInv, SoloInv, AtCase, Holding
  <2> QED BY <2>1, <2>2, <2>3, <2>4 DEF IInv
<1>7. CASE Planned(p)
  <2>1. TypeOK' BY <1>7 DEF Planned, IInv, TypeOK
  <2>2. PlanInv' BY <1>7 DEF Planned, IInv, TypeOK, PlanInv, Creating
  <2>3. CaseInv' BY <1>7 DEF Planned, IInv, TypeOK, CaseInv, AtCase, Holding, ExecutedOnce
  <2>4. SoloInv' BY <1>7 DEF Planned, IInv, TypeOK, CaseInv, SoloInv, AtCase, Holding
  <2> QED BY <2>1, <2>2, <2>3, <2>4 DEF IInv
<1>8. CASE PlanRefused(p)
  <2>1. TypeOK' BY <1>8 DEF PlanRefused, IInv, TypeOK
  <2>2. PlanInv' BY <1>8 DEF PlanRefused, IInv, TypeOK, PlanInv, Creating
  <2>3. CaseInv' BY <1>8 DEF PlanRefused, IInv, TypeOK, CaseInv, AtCase, Holding, ExecutedOnce
  <2>4. SoloInv' BY <1>8 DEF PlanRefused, IInv, TypeOK, CaseInv, SoloInv, AtCase, Holding
  <2> QED BY <2>1, <2>2, <2>3, <2>4 DEF IInv
<1> QED BY <1>1, <1>2, <1>3, <1>4, <1>5, <1>6, <1>7, <1>8 DEF Plan

\* Resuming: no case is claimed, and no success is written.
LEMMA ResumeStep ==
  ASSUME IInv, NEW p \in Procs, Resume(p)
  PROVE  IInv'
<1> USE DEF Session, CaseFiles, Local, History, Goto, Raise
<1>1. CASE Verify(p)
  <2>1. TypeOK' BY <1>1, Positions DEF Verify, IInv, TypeOK
  <2>2. PlanInv' BY <1>1 DEF Verify, IInv, TypeOK, PlanInv, Creating
  <2>3. CaseInv' BY <1>1 DEF Verify, IInv, TypeOK, CaseInv, AtCase, Holding, ExecutedOnce
  <2>4. SoloInv' BY <1>1 DEF Verify, IInv, TypeOK, CaseInv, SoloInv, AtCase, Holding
  <2> QED BY <2>1, <2>2, <2>3, <2>4 DEF IInv
<1>2. CASE Mark(p)
  <2>1. TypeOK' BY <1>2, Positions DEF Mark, IInv, TypeOK
  <2>2. PlanInv' BY <1>2 DEF Mark, IInv, TypeOK, PlanInv, Creating
  <2>3. CaseInv' BY <1>2, Positions DEF Mark, IInv, TypeOK, CaseInv, AtCase, Holding, ExecutedOnce
  <2>4. SoloInv' BY <1>2 DEF Mark, IInv, TypeOK, CaseInv, SoloInv, AtCase, Holding
  <2> QED BY <2>1, <2>2, <2>3, <2>4 DEF IInv
<1>3. CASE OpenInterrupted(p)
  <2>1. TypeOK' BY <1>3 DEF OpenInterrupted, IInv, TypeOK
  <2>2. PlanInv' BY <1>3 DEF OpenInterrupted, IInv, TypeOK, PlanInv, Creating
  <2>3. CaseInv' BY <1>3 DEF OpenInterrupted, IInv, TypeOK, CaseInv, AtCase, Holding, ExecutedOnce
  <2>4. SoloInv' BY <1>3 DEF OpenInterrupted, IInv, TypeOK, CaseInv, SoloInv, AtCase, Holding
  <2> QED BY <2>1, <2>2, <2>3, <2>4 DEF IInv
<1>4. CASE WriteInterrupted(p)
  <2>1. TypeOK'
    <3>1. at[p] \in Cases BY <1>4 DEF WriteInterrupted, IInv, CaseInv, AtCase
    <3>2. at' \in [Procs -> 1..(N + 1)]
      BY <1>4, <3>1, Positions DEF WriteInterrupted, IInv
    <3>3. result' \in [Cases -> {"none", "torn"} \cup Terminal]
      BY <1>4, <3>1 DEF WriteInterrupted, IInv, TypeOK, Terminal
    <3> QED BY <1>4, <3>2, <3>3 DEF WriteInterrupted, IInv, TypeOK
  <2>2. PlanInv' BY <1>4 DEF WriteInterrupted, IInv, TypeOK, PlanInv, Creating
  <2>3. CaseInv' BY <1>4 DEF WriteInterrupted, IInv, TypeOK, CaseInv, AtCase, Holding, ExecutedOnce
  <2>4. SoloInv' BY <1>4 DEF WriteInterrupted, IInv, TypeOK, CaseInv, SoloInv, AtCase, Holding
  <2> QED BY <2>1, <2>2, <2>3, <2>4 DEF IInv
<1> QED BY <1>1, <1>2, <1>3, <1>4 DEF Resume

\* Running: only the creator of the case's directory goes on.
LEMMA RunStep ==
  ASSUME IInv, NEW p \in Procs, RunCase(p)
  PROVE  IInv'
<1> USE DEF Session, CaseFiles, Local, History, Goto, Raise
<1>1. CASE NextCase(p)
  <2>1. TypeOK' BY <1>1, Positions DEF NextCase, IInv, TypeOK
  <2>2. PlanInv' BY <1>1 DEF NextCase, IInv, TypeOK, PlanInv, Creating
  <2>3. CaseInv' BY <1>1, Positions DEF NextCase, IInv, TypeOK, CaseInv, AtCase, Holding, ExecutedOnce
  <2>4. SoloInv' BY <1>1 DEF NextCase, IInv, TypeOK, CaseInv, SoloInv, AtCase, Holding
  <2> QED BY <2>1, <2>2, <2>3, <2>4 DEF IInv
<1>2. CASE MakeCaseDir(p)
  <2>a. /\ caseDir' = caseDir \/ caseDir' = [caseDir EXCEPT ![at[p]] = TRUE]
        /\ raised' = raised \/ raised' = [raised EXCEPT ![p] = "case_dir_exists"]
        /\ \E place \in {"idle", "start"} : pc' = [pc EXCEPT ![p] = place]
        /\ UNCHANGED <<Session, started, result, evidence, changed, summary, Local,
                       invocations, History>>
    BY <1>2 DEF MakeCaseDir
  <2>1. TypeOK'
    <3>1. caseDir' \in [Cases -> BOOLEAN] BY <2>a DEF IInv, TypeOK
    <3>2. Located' BY <2>a DEF IInv, TypeOK, Located
    <3> QED BY <2>a, <3>1, <3>2 DEF IInv, TypeOK, Located
  <2>2. PlanInv' BY <1>2 DEF MakeCaseDir, IInv, TypeOK, PlanInv, Creating
  <2>3. CaseInv'
    BY <1>2 DEF MakeCaseDir, IInv, TypeOK, CaseInv, AtCase, Holding, ExecutedOnce
  <2>4. SoloInv' BY <1>2 DEF MakeCaseDir, IInv, TypeOK, CaseInv, SoloInv, AtCase, Holding
  <2> QED BY <2>1, <2>2, <2>3, <2>4 DEF IInv
<1>3. CASE WriteStarted(p)
  <2>1. TypeOK' BY <1>3 DEF WriteStarted, IInv, TypeOK
  <2>2. PlanInv' BY <1>3 DEF WriteStarted, IInv, TypeOK, PlanInv, Creating
  <2>3. CaseInv' BY <1>3 DEF WriteStarted, IInv, TypeOK, CaseInv, AtCase, Holding, ExecutedOnce
  <2>4. SoloInv' BY <1>3 DEF WriteStarted, IInv, TypeOK, CaseInv, SoloInv, AtCase, Holding
  <2> QED BY <2>1, <2>2, <2>3, <2>4 DEF IInv
<1>4. CASE Execute(p)
  <2> DEFINE c == at[p]
  <2>1. c \in Cases /\ executed[c] = 0
    BY <1>4 DEF Execute, IInv, CaseInv, AtCase, Holding
  <2>2. PICK ok \in BOOLEAN, e \in {"none", "bad", "good"} :
          /\ returned' = [returned EXCEPT ![p] = ok]
          /\ evidence' = [evidence EXCEPT ![c] = e]
          /\ succeeded' = [succeeded EXCEPT ![c] = ok /\ e = "good"]
    BY <1>4 DEF Execute
  <2>3. /\ pc[p] = "execute" /\ pc' = [pc EXCEPT ![p] = "result"]
        /\ executed' = [executed EXCEPT ![c] = 1]
        /\ UNCHANGED <<Session, caseDir, started, result, changed, summary, at, dryRun,
                       raised, invocations, overlapped>>
    BY <1>4, <2>1 DEF Execute
  <2> HIDE DEF c
  <2>4. TypeOK' BY <2>1, <2>2, <2>3 DEF IInv, TypeOK
  <2>5. PlanInv' BY <2>3 DEF IInv, TypeOK, PlanInv, Creating
  <2>6. \A q \in Procs : pc'[q] \in Holding /\ at[q] = c => q = p
    BY <2>1, <2>3 DEF IInv, TypeOK, CaseInv, Holding, c
  <2>7. result[c] # "successful" BY <2>1 DEF IInv, CaseInv
  <2>8. /\ executed'[c] = 1 /\ caseDir[c]
        /\ (returned'[p] /\ evidence'[c] = "good") <=> succeeded'[c]
    <3>1. caseDir[c] BY <2>3 DEF IInv, CaseInv, Holding, c
    <3>2. executed'[c] = 1 BY <2>1, <2>3 DEF IInv, TypeOK
    <3>3. returned'[p] = ok /\ evidence'[c] = e /\ succeeded'[c] = (ok /\ e = "good")
      BY <2>1, <2>2 DEF IInv, TypeOK
    <3> QED BY <3>1, <3>2, <3>3
  <2>9. \A d \in Cases : d # c =>
          executed'[d] = executed[d] /\ evidence'[d] = evidence[d] /\ succeeded'[d] = succeeded[d]
    BY <2>1, <2>2, <2>3 DEF IInv, TypeOK
  <2>10. \A q \in Procs : q # p => pc'[q] = pc[q] /\ returned'[q] = returned[q]
    BY <2>2, <2>3 DEF IInv, TypeOK
  <2>11. CaseInv'
    <3>1. \A d \in Cases :
            /\ executed'[d] > 0 => caseDir'[d]
            /\ executed'[d] <= 1
            /\ result'[d] = "successful" => executed'[d] = 1 /\ succeeded'[d]
      BY <2>3, <2>7, <2>8, <2>9 DEF IInv, CaseInv, ExecutedOnce
    <3>2. \A q \in Procs :
            /\ pc'[q] \in AtCase => at'[q] \in Cases
            /\ pc'[q] \in Holding => caseDir'[at'[q]]
      BY <2>1, <2>3, <2>8 DEF IInv, TypeOK, CaseInv, AtCase, Holding, c
    <3>3. ASSUME NEW q \in Procs
          PROVE  /\ pc'[q] \in {"start", "execute"} => executed'[at'[q]] = 0
                 /\ pc'[q] = "result" =>
                      /\ executed'[at'[q]] = 1
                      /\ returned'[q] /\ evidence'[at'[q]] = "good" <=> succeeded'[at'[q]]
      <4>1. CASE q = p BY <4>1, <2>3, <2>8 DEF IInv, TypeOK, c
      <4>2. CASE q # p /\ pc[q] \in Holding
        BY <4>2, <2>3, <2>6, <2>9, <2>10 DEF IInv, CaseInv, AtCase, Holding
      <4>3. CASE q # p /\ pc[q] \notin Holding
        BY <4>3, <2>10 DEF Holding
      <4> QED BY <4>1, <4>2, <4>3
    <3>4. \A q, r \in Procs :
            pc'[q] \in Holding /\ pc'[r] \in Holding /\ at'[q] = at'[r] => q = r
      BY <2>3 DEF IInv, TypeOK, CaseInv, Holding
    <3> QED BY <3>1, <3>2, <3>3, <3>4 DEF CaseInv, ExecutedOnce
  <2>12. SoloInv' BY <2>3 DEF IInv, TypeOK, SoloInv, Holding
  <2> QED BY <2>4, <2>5, <2>11, <2>12 DEF IInv
<1>5. CASE WriteResult(p)
  <2>1. TypeOK'
    <3>1. at[p] \in Cases BY <1>5 DEF WriteResult, IInv, CaseInv, AtCase, Holding
    <3>2. at' \in [Procs -> 1..(N + 1)]
      BY <1>5, <3>1, Positions DEF WriteResult, IInv
    <3>3. result' \in [Cases -> {"none", "torn"} \cup Terminal]
      BY <1>5, <3>1 DEF WriteResult, IInv, TypeOK, Terminal
    <3> QED BY <1>5, <3>2, <3>3 DEF WriteResult, IInv, TypeOK
  <2>2. PlanInv' BY <1>5 DEF WriteResult, IInv, TypeOK, PlanInv, Creating
  <2>3. CaseInv' BY <1>5 DEF WriteResult, IInv, TypeOK, CaseInv, AtCase, Holding, ExecutedOnce
  <2>4. SoloInv' BY <1>5 DEF WriteResult, IInv, TypeOK, CaseInv, SoloInv, AtCase, Holding
  <2> QED BY <2>1, <2>2, <2>3, <2>4 DEF IInv
<1> QED BY <1>1, <1>2, <1>3, <1>4, <1>5 DEF RunCase

\* Being invoked, being killed and reporting.
LEMMA OtherStep ==
  ASSUME IInv, NEW p \in Procs, Invoke(p) \/ Kill(p) \/ Assess(p)
  PROVE  IInv'
<1> USE DEF Session, CaseFiles, Local, History, Goto, Raise
<1>1. CASE Invoke(p)
  <2>1. PICK dry \in BOOLEAN, place \in {"plan", "verify"} :
          dryRun' = [dryRun EXCEPT ![p] = dry] /\ pc' = [pc EXCEPT ![p] = place]
    BY <1>1 DEF Invoke
  <2>2. invocations' \in 0..MaxInvocations
    BY <1>1, SessionAssumption DEF Invoke, IInv, TypeOK
  <2>3. TypeOK' BY <1>1, <2>1, <2>2 DEF Invoke, IInv, TypeOK
  <2>4. PlanInv' BY <1>1, <2>1 DEF Invoke, IInv, TypeOK, PlanInv, Creating
  <2>5. CaseInv'
    BY <1>1, <2>1 DEF Invoke, IInv, TypeOK, CaseInv, AtCase, Holding, ExecutedOnce
  <2>6. SoloInv'
    <3> SUFFICES ASSUME ~overlapped'
                 PROVE  /\ \A q, r \in Procs : pc'[q] # "idle" /\ pc'[r] # "idle" => q = r
                        /\ \A q \in Procs : pc'[q] \in {"open", "mkdir"} \cup Holding =>
                             result'[at'[q]] = "none"
      BY DEF SoloInv
    <3>1. \A q \in Procs \ {p} : pc[q] = "idle" BY <1>1 DEF Invoke, IInv, TypeOK
    <3>2. \A q \in Procs \ {p} : pc'[q] = "idle" BY <3>1, <2>1 DEF IInv, TypeOK
    <3>3. pc'[p] \in {"plan", "verify"} BY <2>1 DEF IInv, TypeOK
    <3> QED BY <3>2, <3>3 DEF Holding
  <2> QED BY <2>3, <2>4, <2>5, <2>6 DEF IInv
<1>2. CASE Kill(p)
  <2>1. TypeOK' BY <1>2 DEF Kill, IInv, TypeOK
  <2>2. PlanInv' BY <1>2 DEF Kill, IInv, TypeOK, PlanInv, Creating
  <2>3. CaseInv' BY <1>2 DEF Kill, IInv, TypeOK, CaseInv, AtCase, Holding, ExecutedOnce
  <2>4. SoloInv' BY <1>2 DEF Kill, IInv, TypeOK, CaseInv, SoloInv, AtCase, Holding
  <2> QED BY <2>1, <2>2, <2>3, <2>4 DEF IInv
<1>3. CASE Assess(p)
  <2>1. TypeOK' BY <1>3 DEF Assess, Integrity, IInv, TypeOK
  <2>2. PlanInv' BY <1>3 DEF Assess, IInv, TypeOK, PlanInv, Creating
  <2>3. CaseInv' BY <1>3 DEF Assess, IInv, TypeOK, CaseInv, AtCase, Holding, ExecutedOnce
  <2>4. SoloInv' BY <1>3 DEF Assess, IInv, TypeOK, CaseInv, SoloInv, AtCase, Holding
  <2> QED BY <2>1, <2>2, <2>3, <2>4 DEF IInv
<1> QED BY <1>1, <1>2, <1>3

LEMMA ChangeStep ==
  ASSUME IInv, NEW c \in Cases, Change(c)
  PROVE  IInv'
<1> USE DEF Session, CaseFiles, Local, History
<1>1. TypeOK' BY DEF Change, IInv, TypeOK
<1>2. PlanInv' BY DEF Change, IInv, PlanInv
<1>3. CaseInv' BY DEF Change, IInv, CaseInv, ExecutedOnce
<1>4. SoloInv' BY DEF Change, IInv, SoloInv
<1> QED BY <1>1, <1>2, <1>3, <1>4 DEF IInv

LEMMA StutterStep == IInv /\ UNCHANGED vars => IInv'
BY DEF vars, Session, CaseFiles, Local, History, IInv, TypeOK, PlanInv, CaseInv, SoloInv,
       ExecutedOnce

LEMMA Invariant == Spec => []IInv
<1>1. IInv /\ [Next]_vars => IInv'
  BY PlanStep, ResumeStep, RunStep, OtherStep, ChangeStep, StutterStep DEF Next
<1> QED BY InitIInv, <1>1, PTL DEF Spec

\* No case is executed twice, by however many invocations, overlapping or killed.
THEOREM NeverRerun == Spec => []ExecutedOnce
<1>1. IInv => ExecutedOnce BY DEF IInv, CaseInv
<1> QED BY Invariant, <1>1, PTL

\* Only three steps write a result; without an overlap none finds one there.
LEMMA TerminalStep ==
  ASSUME IInv, [Next]_vars, ~overlapped, NEW c \in Cases, result[c] \in Terminal
  PROVE  result'[c] = result[c]
<1> USE DEF Session, CaseFiles, Local, History, Goto, Raise
<1>1. CASE UNCHANGED vars BY <1>1 DEF vars
<1>2. ASSUME NEW p \in Procs, Plan(p) \/ Invoke(p) \/ Kill(p) \/ Assess(p)
      PROVE  result' = result
  BY <1>2 DEF Plan, Invoke, Kill, Assess, CheckOutput, CreateOutput, Denied, PlanRefused,
              WriteManifest, OpenSidecar, WriteSidecar, Planned
<1>3. ASSUME NEW p \in Procs, Verify(p) \/ Mark(p) \/ NextCase(p) \/ MakeCaseDir(p)
                              \/ WriteStarted(p) \/ Execute(p)
      PROVE  result' = result
  BY <1>3 DEF Verify, Mark, NextCase, MakeCaseDir, WriteStarted, Execute
<1>4. ASSUME NEW p \in Procs, OpenInterrupted(p) \/ WriteResult(p) PROVE result'[c] = result[c]
  BY <1>4 DEF OpenInterrupted, WriteResult, IInv, TypeOK, SoloInv, Holding, Terminal
<1>5. ASSUME NEW p \in Procs, WriteInterrupted(p) PROVE result'[c] = result[c]
  BY <1>5 DEF WriteInterrupted, IInv, TypeOK, Terminal
<1>6. ASSUME NEW d \in Cases, Change(d) PROVE result' = result BY <1>6 DEF Change
<1> QED BY <1>1, <1>2, <1>3, <1>4, <1>5, <1>6 DEF Next, Resume, RunCase

\* Without overlapping invocations a recorded status is final.
THEOREM RecordsAreFinal == Spec => TerminalKept
<1>1. IInv /\ [Next]_vars =>
        [~overlapped => \A c \in Cases : result[c] \in Terminal => result'[c] = result[c]]_vars
  BY TerminalStep
<1> QED BY Invariant, <1>1, PTL DEF Spec, TerminalKept

\* A summary says completed only of a session that is.
THEOREM NoFalseCompletion == Spec => CompleteIsTrue
<1>1. IInv /\ [Next]_vars =>
        [summary' = "completed" /\ summary # "completed" =>
           \A c \in Cases : executed[c] = 1 /\ succeeded[c] /\ ~changed[c]]_vars
  <2> SUFFICES ASSUME IInv, Next, summary' = "completed", summary # "completed",
                      NEW c \in Cases
               PROVE  executed[c] = 1 /\ succeeded[c] /\ ~changed[c]
    BY DEF vars
  <2>1. PICK p \in Procs : Assess(p)
    BY DEF Next, Invoke, Kill, Plan, Resume, RunCase, Change, CheckOutput, CreateOutput,
           Denied, PlanRefused, WriteManifest, OpenSidecar, WriteSidecar, Planned, Verify, Mark,
           OpenInterrupted, WriteInterrupted, NextCase, MakeCaseDir, WriteStarted, Execute,
           WriteResult
  <2>2. Integrity = "completed" BY <2>1 DEF Assess
  <2>3. result[c] = "successful" /\ ~ResultInvalid(c) BY <2>2 DEF Integrity
  <2> QED BY <2>3 DEF IInv, CaseInv, ResultInvalid
<1> QED BY Invariant, <1>1, PTL DEF Spec, CompleteIsTrue

\* The frozen plan and its hash are never replaced.
THEOREM PlanIsFrozen == Spec => ManifestFrozen
<1>1. IInv /\ [Next]_vars =>
        [/\ manifest # "none" => manifest' = manifest
         /\ sidecar = "written" => sidecar' = "written"]_vars
  <2> SUFFICES ASSUME IInv, Next
               PROVE  /\ manifest # "none" => manifest' = manifest
                      /\ sidecar = "written" => sidecar' = "written"
    BY DEF vars
  <2> USE DEF Session, CaseFiles, Local, History
  <2>1. ASSUME NEW p \in Procs, Invoke(p) \/ Kill(p) \/ Resume(p) \/ RunCase(p) \/ Assess(p)
        PROVE  manifest' = manifest /\ sidecar' = sidecar
    BY <2>1 DEF Invoke, Kill, Resume, RunCase, Assess, Verify, Mark, OpenInterrupted,
                WriteInterrupted, NextCase, MakeCaseDir, WriteStarted, Execute, WriteResult
  <2>2. ASSUME NEW p \in Procs, Plan(p)
        PROVE  /\ manifest # "none" => manifest' = manifest
               /\ sidecar = "written" => sidecar' = "written"
    BY <2>2 DEF Plan, CheckOutput, CreateOutput, Denied, PlanRefused, WriteManifest,
                OpenSidecar, WriteSidecar, Planned, IInv, PlanInv
  <2>3. ASSUME NEW c \in Cases, Change(c) PROVE manifest' = manifest /\ sidecar' = sidecar
    BY <2>3 DEF Change
  <2> QED BY <2>1, <2>2, <2>3 DEF Next
<1> QED BY Invariant, <1>1, PTL DEF Spec, ManifestFrozen
=============================================================================
