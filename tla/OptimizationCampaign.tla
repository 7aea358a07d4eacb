------------------------ MODULE OptimizationCampaign ------------------------
(***************************************************************************)
(* From a diagnosis report to a configuration: the gate, the trial plan,   *)
(* the closed loop (scripts/run_closed_loop_optimization.py: every         *)
(* candidate once against one baseline) and the repeated campaign          *)
(* (scripts/run_repeated_optimization_campaign.py: blocks of trials, each  *)
(* with a baseline of its own, and bootstrapped lower bounds).  A trial is *)
(* a child process that may fail; the script may be killed anywhere, git's *)
(* HEAD may move under it, and it may be started again.  Ratios are        *)
(* integers in units of 1/Scale.                                           *)
(***************************************************************************)
EXTENDS DiagnosisInference

CONSTANTS Kinds,          \* <<mode, --dataset-role>> of the campaigns
          Values,         \* the values an action of the registry may take
          Baselines,      \* the values a baseline profile names
          Budgets,        \* --budget
          Repetitions,    \* --repetitions
          Outcomes,       \* <<objective, complete_trace_rate>> of a report
          Thresholds,     \* <<--minimum-confidence, --minimum-completeness>>
          Scale,
          MinGain,        \* --minimum-improvement-ratio
          MinDelta,       \* --minimum-complete-trace-rate-delta
          Commits, MaxMoves  \* git's HEAD and bound of its moves

ASSUME CampaignAssumption ==
    /\ Kinds \subseteq {<<"closed", "pilot">>} \cup ({"repeated"} \X {"pilot", "test"})
    /\ Baselines \subseteq Values /\ Budgets \subseteq Nat \ {0} /\ Repetitions \in Nat \ {0, 1}
    /\ Thresholds \subseteq Fraction \X Fraction
    /\ Scale \in Nat \ {0} /\ Outcomes \subseteq Nat \X (0 .. Scale)
    /\ MinGain \in 0 .. Scale /\ MinDelta \in -Scale .. 0
    /\ MaxMoves \in Nat

VARIABLES report,         \* the diagnosis report handed to the script
          stage, mode, role, \* step, "closed" or "repeated", --dataset-role
          qualified,      \* the commit the qualification report names
          head, moves,
          files           \* the directory --output-dir names

campaign == <<report, stage, mode, role, qualified, head, moves, files>>
git      == <<qualified, head, moves>>

NoReport   == [status |-> "none"]
Failed     == <<>>
NoDecision == [action |-> "none"]
NoSchedule == [trials |-> <<>>]

\* `schedule` and `results` go together; `measured` has the commits of the
\* trials that succeeded.
NoDir    == [exists |-> FALSE]
EmptyDir == [exists |-> TRUE, gate |-> "none", manifest |-> {},
             schedule |-> NoSchedule, results |-> <<>>, measured |-> {},
             decision |-> NoDecision]

CampaignInit ==
    /\ report = NoReport /\ stage = "idle" /\ mode = "closed" /\ role = "pilot"
    /\ qualified \in Commits /\ head = qualified /\ moves = 0
    /\ files = NoDir

-----------------------------------------------------------------------------
(* Gate and schedule.                                                      *)

RuntimeCauses == {"application_compute_delay", "executor_queueing",
                  "blocking_syscall_io", "dds_communication_delay"}

\* Mutant: the confidence of the diagnosis is not looked at.
MGateReason(minimum) ==
    IF report.status = "abstained" THEN "diagnosis_abstained"
    ELSE IF report.evidence # "valid" THEN "valid_evidence_required"
    ELSE IF ~AtLeast(report.completeness, minimum[2]) THEN "completeness_below_gate"
    ELSE IF report.cause \notin RuntimeCauses THEN "no_runtime_trial_profile"
    ELSE "allow"

\* plan_from_diagnosis.  Every cause of the catalog has a registered action.
GateReason(minimum) ==
    IF report.status = "abstained" THEN "diagnosis_abstained"
    ELSE IF report.evidence # "valid" THEN "valid_evidence_required"
    ELSE IF ~AtLeast(report.confidence, minimum[1]) THEN "confidence_below_gate"
    ELSE IF ~AtLeast(report.completeness, minimum[2]) THEN "completeness_below_gate"
    ELSE IF report.cause \notin RuntimeCauses THEN "no_runtime_trial_profile"
    ELSE "allow"

\* build_trial_plan: the guided values are distinct, the random ones are not,
\* and the unguided walk goes round the six actions, of which one applies.
Plans ==
    UNION {LET plan == [value : Values, applicable : BOOLEAN]
           IN {p \in [1 .. budget -> plan] :
                 \/ \A i \in 1 .. budget : p[i].applicable
                 \/ \E k \in 1 .. 6 : \A i \in 1 .. budget :
                       p[i].applicable = (i % 6 = k % 6)} : budget \in Budgets}

\* build_execution_schedule: what is not applicable, equals the baseline or
\* is scheduled already is left out.
Candidates(plan, baseline) ==
    LET keep(list, row) ==
            IF row.applicable /\ row.value # baseline /\ row.value \notin ToSet(list)
            THEN Append(list, row.value) ELSE list
    IN FoldLeft(keep, <<>>, plan)

\* build_repeated_schedule: block b starts b - 1 places further on.
RepeatedTrials(order) ==
    LET size == Len(order)
    IN [i \in 1 .. size * Repetitions |->
          LET block == (i - 1) \div size + 1
          IN [block |-> block,
              config |-> order[((((i - 1) % size) + block - 1) % size) + 1]]]

Orders(configs) ==
    {order \in [1 .. Cardinality(configs) -> configs] : ToSet(order) = configs}

-----------------------------------------------------------------------------
(* The records and the decision.                                           *)

Baseline == files.schedule.baseline
Trials   == files.schedule.trials
Finished == Len(files.results) = Len(Trials)

\* The record of a configuration in a block.
RecordOf(config, block) ==
    LET i == CHOOSE k \in DOMAIN Trials :
                Trials[k] = [block |-> block, config |-> config]
    IN files.results[i]

Tried == {Trials[i].config : i \in DOMAIN Trials} \ {Baseline}

\* Mutant: every candidate is compared with the baseline of the first block.
MBaselineOf(block) == RecordOf(Baseline, 1)

BaselineOf(block) == RecordOf(Baseline, block)

\* (baseline - candidate) / baseline and the change of the trace rate.
Improvement(base, cand) == ((base[1] - cand[1]) * Scale) \div base[1]
RateDelta(base, cand)   == cand[2] - base[2]

\* validate_candidate of the closed loop.
Measured(config) ==
    LET base == BaselineOf(1)
        cand == RecordOf(config, 1)
    IN cand # Failed /\ base[1] > 0 /\ cand[1] > 0

Accepted(config) ==
    /\ Measured(config)
    /\ RateDelta(BaselineOf(1), RecordOf(config, 1)) >= MinDelta
    /\ Improvement(BaselineOf(1), RecordOf(config, 1)) >= MinGain

Block == 1 .. Repetitions
Complete(config) ==
    \A b \in Block : BaselineOf(b) # Failed /\ RecordOf(config, b) # Failed

GainIn(config, b)  == Improvement(BaselineOf(b), RecordOf(config, b))
DeltaIn(config, b) == RateDelta(BaselineOf(b), RecordOf(config, b))

\* percentile_bootstrap_interval: the lower bound of the resampled medians lies
\* between the smallest pair and the largest; where is up to the resampling.
MayReach(config) ==
    /\ \E b \in Block : GainIn(config, b) >= MinGain
    /\ \E b \in Block : DeltaIn(config, b) >= MinDelta
MustReach(config) ==
    \A b \in Block : GainIn(config, b) >= MinGain /\ DeltaIn(config, b) >= MinDelta

Restore == [action |-> "restore_baseline", config |-> Baseline]
Apply(config) == [action |-> "apply_candidate", config |-> config]

-----------------------------------------------------------------------------
(* The steps.                                                              *)

\* Mutant: an output directory that exists is taken and started over.
MOutputFree == TRUE

\* An output directory that exists, whatever is in it, is refused.
OutputFree == files = NoDir

\* _evidence_fields: a formal role needs the qualification of this HEAD.
Invoke(m, r) ==
    /\ stage \in {"idle", "ended"}
    /\ r = "test" => head = qualified
    /\ OutputFree
    /\ files' = EmptyDir
    /\ stage' = "gate" /\ mode' = m /\ role' = r
    /\ UNCHANGED <<report, git>>

\* gate.json, and the end when it denies.
Gate(minimum) ==
    /\ stage = "gate" /\ report # NoReport
    /\ files' = [files EXCEPT !.gate = GateReason(minimum)]
    /\ stage' = IF files'.gate = "allow" THEN "schedule" ELSE "ended"
    /\ report' = NoReport
    /\ UNCHANGED <<mode, role, git>>

\* More guided candidates are asked for than the action has values: an error
\* before gate.json, after mkdir.
OverBudget ==
    /\ stage = "gate" /\ report # NoReport
    /\ \E minimum \in Thresholds : GateReason(minimum) = "allow"
    /\ \E budget \in Budgets : budget > Cardinality(Values)
    /\ stage' = "ended" /\ report' = NoReport
    /\ UNCHANGED <<mode, role, git, files>>

\* validate_baseline_profile: the profile is for another cause.
BaselineRejected ==
    /\ stage = "schedule"
    /\ stage' = "ended"
    /\ UNCHANGED <<report, mode, role, git, files>>

\* The manifest with the schedule and the commit of this moment.
Schedule(plan, baseline) ==
    LET chosen == Candidates(plan, baseline)
        once   == [i \in 1 .. Len(chosen) + 1 |->
                     [block |-> 1, config |-> (<<baseline>> \o chosen)[i]]]
    IN /\ stage = "schedule"
       /\ \E order \in Orders({baseline} \cup ToSet(chosen)) :
             files' = [files EXCEPT
                !.manifest = {head},
                !.schedule = [baseline |-> baseline,
                              trials |-> IF mode = "closed" THEN once
                                         ELSE RepeatedTrials(order)]]
       /\ stage' = "trials"
       /\ UNCHANGED <<report, mode, role, git>>

\* Mutant: the trial takes the qualification's word for the campaign's.
MTrialQualified == TRUE

\* _trial_evidence: in a formal role every trial compares HEAD with the
\* qualification again.
TrialQualified == role = "test" => head = qualified

\* run_optimization_trial.py.  It fails without the qualification, when the
\* workload is not ended by its timeout, and for less than two complete traces.
TrialRun(outcome) == outcome = Failed \/ TrialQualified

\* The record of a trial.  A closed loop is over when its baseline fails.
Trial(outcome) ==
    LET first == files.results = <<>>
    IN /\ stage = "trials" /\ ~Finished
       /\ TrialRun(outcome)
       /\ files' = [files EXCEPT
             !.results  = Append(@, outcome),
             !.measured = IF outcome = Failed THEN @ ELSE @ \cup {head}]
       /\ stage' = IF mode = "closed" /\ first /\ outcome = Failed THEN "ended" ELSE stage
       /\ UNCHANGED <<report, mode, role, git>>

Deciding(m) == stage = "trials" /\ Finished /\ mode = m

Decides(decision) ==
    /\ files' = [files EXCEPT !.decision = decision]
    /\ stage' = "ended"
    /\ UNCHANGED <<report, mode, role, git>>

\* select_closed_loop_decision: the accepted candidate with the smallest
\* objective; when none is accepted, the best measured one is rolled back.
DecideClosed ==
    LET accepted == {c \in Tried : Accepted(c)}
    IN /\ Deciding("closed")
       /\ IF accepted = {} THEN Decides(Restore)
          ELSE \E c \in accepted :
                 /\ \A d \in accepted : RecordOf(c, 1)[1] <= RecordOf(d, 1)[1]
                 /\ Decides(Apply(c))

\* evaluate_repeated_candidates refuses the records for one zero objective.
ZeroObjective ==
    \E i \in DOMAIN files.results :
       files.results[i] # Failed /\ files.results[i][1] = 0

\* The candidates whose pairs all succeeded and whose lower bounds reach the
\* thresholds; of these one with the largest bound of improvement.
DecideRepeated ==
    LET complete == {c \in Tried : Complete(c)}
    IN /\ Deciding("repeated") /\ ~ZeroObjective
       /\ \E accepted \in SUBSET complete :
             /\ \A c \in accepted : MayReach(c)
             /\ \A c \in complete \ accepted : ~MustReach(c)
             /\ IF accepted = {} THEN Decides(Restore)
                ELSE \E c \in accepted :
                       /\ \A d \in accepted :
                             \E b, other \in Block : GainIn(c, b) >= GainIn(d, other)
                       /\ Decides(Apply(c))

RecordsRefused ==
    /\ Deciding("repeated") /\ ZeroObjective
    /\ stage' = "ended"
    /\ UNCHANGED <<report, mode, role, git, files>>

\* SIGKILL, power loss or Ctrl-C: nothing is cleaned up.
Kill ==
    /\ stage \notin {"idle", "ended"}
    /\ stage' = "ended" /\ report' = NoReport
    /\ UNCHANGED <<mode, role, git, files>>

\* A commit, checkout or reset by the operator while a formal campaign runs:
\* nothing else compares HEAD with anything.
MoveHead ==
    /\ stage \notin {"idle", "ended"} /\ role = "test" /\ moves < MaxMoves
    /\ head' \in Commits \ {head} /\ moves' = moves + 1
    /\ UNCHANGED <<report, stage, mode, role, qualified, files>>

\* The operator names a directory that is not there yet.
NewDirectory ==
    /\ stage = "ended"
    /\ files' = NoDir
    /\ UNCHANGED <<report, stage, mode, role, git>>

CampaignNext ==
    \/ \E kind \in Kinds : Invoke(kind[1], kind[2])
    \/ \E minimum \in Thresholds : Gate(minimum)
    \/ OverBudget \/ BaselineRejected
    \/ \E baseline \in Baselines, plan \in Plans : Schedule(plan, baseline)
    \/ \E outcome \in Outcomes \cup {Failed} : Trial(outcome)
    \/ DecideClosed \/ DecideRepeated \/ RecordsRefused
    \/ Kill \/ MoveHead \/ NewDirectory

\* Another report arrives: what the inference does.
Deliver == UNCHANGED <<stage, mode, role, git, files>>

CampaignSpec == CampaignInit /\ [][CampaignNext \/ Deliver]_campaign

-----------------------------------------------------------------------------
(* What a campaign promises.                                               *)

\* Enough better, and not less steady than allowed, in one pair of records.
Better(base, cand) ==
    /\ base # Failed /\ cand # Failed /\ base[1] > 0 /\ cand[1] > 0
    /\ (base[1] - cand[1]) * Scale >= MinGain * base[1]
Steadier(base, cand) ==
    base # Failed /\ cand # Failed /\ cand[2] - base[2] >= MinDelta

\* The pairs of records of one block: the baseline's and the candidate's.
TrialsOf(config) == {i \in DOMAIN Trials : Trials[i].config = config}
Pairs(config) ==
    {pair \in TrialsOf(Baseline) \X TrialsOf(config) :
       Trials[pair[1]].block = Trials[pair[2]].block}

Holds(P(_, _), pair) == P(files.results[pair[1]], files.results[pair[2]])

\* A configuration is applied only when every trial of the schedule has its
\* record, every pair of it and the baseline of the same block succeeded, some
\* pair shows the gain and some pair the trace rate that was asked for (all of
\* them in a closed loop, where no other such candidate is faster).  The
\* baseline is restored only when no candidate has all of it.
DecisionSupported ==
    LET all(P(_, _), c)  == \A pair \in Pairs(c) : Holds(P, pair)
        some(P(_, _), c) == \E pair \in Pairs(c) : Holds(P, pair)
        proven(c) == Pairs(c) # {} /\ all(Better, c) /\ all(Steadier, c)
        faster(c, d) == \E p \in Pairs(c), q \in Pairs(d) :
                           files.results[p[2]][1] < files.results[q[2]][1]
    IN files.exists /\ files.decision # NoDecision =>
         /\ Len(files.results) = Len(Trials)
         /\ files.decision.action = "apply_candidate" =>
              LET c == files.decision.config
              IN /\ c # Baseline /\ some(Better, c) /\ some(Steadier, c)
                 /\ \A pair \in Pairs(c) : /\ files.results[pair[1]] # Failed
                                           /\ files.results[pair[2]] # Failed
                 /\ mode = "closed" =>
                      proven(c) /\ \A d \in Tried : proven(d) => ~faster(d, c)
         /\ files.decision.action = "restore_baseline" =>
              \A c \in Tried : ~proven(c)

\* Every result of a formal campaign was measured at the one commit that its
\* qualification names, wherever HEAD went during the campaign.
FormalFromOneCommit ==
    files.exists /\ role = "test" => files.measured \subseteq {qualified}

\* What a campaign has written stays: neither a kill, nor a second start in the
\* directory it left, whole or not, changes a record or adds a decision to it.
RecordsFinal ==
    [][files.exists /\ files'.exists =>
         /\ files.gate # "none" => files'.gate = files.gate
         /\ files.manifest # {} => files'.schedule = files.schedule
         /\ IsPrefix(files.results, files'.results)
         /\ files.decision # NoDecision => files'.decision = files.decision
         /\ stage = "ended" => files' = files]_campaign
=============================================================================
