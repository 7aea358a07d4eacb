------------------------- MODULE DiagnosisInference -------------------------
(***************************************************************************)
(* From the evidence of one trace to a diagnosis report: the root-cause    *)
(* catalog, the frozen scoring profile, the scores and the reasons to      *)
(* abstain (diagnosis/evidence_graph/inference.py), as scripts/            *)
(* run_diagnosis.py feeds them.  A metric's largest observation is "high"  *)
(* when it reaches the profile's threshold and "low" when it does not; it  *)
(* is "none" when no node of its kind carries the metric, which speaks     *)
(* neither for its cause nor against it.  Fractions are pairs.             *)
(***************************************************************************)
EXTENDS Integers, Sequences, FiniteSets, FiniteSetsExt, SequencesExt

\* metric -> <<the cause it speaks for, the kind of node it is read from>>
Catalog ==
    [planner_compute_ns   |-> <<"application_compute_delay", "StageWindow">>,
     action_compute_ns    |-> <<"application_compute_delay", "StageWindow">>,
     callback_dispatch_upper_bound_ns |-> <<"executor_queueing", "RosCallback">>,
     dds_transfer_ns      |-> <<"dds_communication_delay", "DdsCommunication">>,
     syscall_block_ns     |-> <<"blocking_syscall_io", "SyscallInterval">>,
     wakeup_to_run_ns     |-> <<"scheduling_delay", "SchedulingInterval">>,
     off_cpu_ns           |-> <<"scheduling_delay", "SchedulingInterval">>,
     ack_latency_ns       |-> <<"can_ack_failure", "AckTerminal">>,
     ack_terminal_failure |-> <<"can_ack_failure", "AckTerminal">>]

Metric    == DOMAIN Catalog
NodeTypes == {Catalog[m][2] : m \in Metric}

\* The causes, in the order of their names: the tie-break of the ranking.
Causes == <<"application_compute_delay", "blocking_syscall_io",
            "can_ack_failure", "dds_communication_delay",
            "executor_queueing", "scheduling_delay">>

ConflictsWith(cause) ==
    IF cause = "application_compute_delay"
    THEN {"blocking_syscall_io", "scheduling_delay"} ELSE {}

\* ScoringProfile: `weights` has the metrics the profile scores.
Profile(weights, conflict, missing, score, margin, complete) ==
    [weights |-> weights, conflictPenalty |-> conflict,
     missingPenalty |-> missing, minimumScore |-> score,
     minimumMargin |-> margin, minimumCompleteness |-> complete]

Fraction == Nat \X (Nat \ {0})

\* What ScoringProfile.from_dict and infer_trace insist on.
IsProfile(p) ==
    /\ \E metrics \in SUBSET Metric : metrics # {} /\ p.weights \in [metrics -> Nat \ {0}]
    /\ {p.conflictPenalty, p.missingPenalty, p.minimumScore, p.minimumMargin} \subseteq Nat
    /\ p.minimumCompleteness \in Fraction

AtLeast(q, r) == q[1] * r[2] >= r[1] * q[2]

-----------------------------------------------------------------------------
(* The evidence e of a trace: its topology verdict, the kinds of node that  *)
(* reached it and the largest observation of each metric.                   *)

\* _availability of run_diagnosis: valid when a node of the kind is there.
Available(e, metric) == Catalog[metric][2] \in e.nodes

Scored(p, cause) == {m \in DOMAIN p.weights : Catalog[m][1] = cause}
Active(p) == {c \in ToSet(Causes) : Scored(p, c) # {}}

Supporting(e, p, cause) ==
    {m \in Scored(p, cause) : Available(e, m) /\ e.seen[m] = "high"}
Against(e, p, cause) ==
    {m \in Scored(p, cause) : Available(e, m) /\ e.seen[m] = "low"}
Missing(e, p, cause) == {m \in Scored(p, cause) : ~Available(e, m)}

Floor(score) == IF score < 0 THEN 0 ELSE score

\* _score_cause.
OwnScore(e, p, cause) ==
    Floor(MapThenSumSet(LAMBDA m : p.weights[m], Supporting(e, p, cause))
            - p.conflictPenalty * Cardinality(Against(e, p, cause))
            - p.missingPenalty * Cardinality(Missing(e, p, cause)))

\* _apply_cross_cause_conflicts: a system cause that is supported speaks
\* against the application's own delay.
Score(e, p, cause) ==
    LET rivals == {c \in ConflictsWith(cause) \cap Active(p) :
                      Supporting(e, p, c) # {}}
    IN IF Supporting(e, p, cause) = {} THEN OwnScore(e, p, cause)
       ELSE Floor(OwnScore(e, p, cause)
                    - p.conflictPenalty * Cardinality(rivals))

\* The first of some causes in the ranking: by score and, among equals, by name.
First(e, p, causes) ==
    CHOOSE c \in causes : \A d \in causes \ {c} :
       \/ Score(e, p, c) > Score(e, p, d)
       \/ /\ Score(e, p, c) = Score(e, p, d)
          /\ \E i, j \in DOMAIN Causes : i < j /\ Causes[i] = c /\ Causes[j] = d

\* Half of it when the topology is partial.
Completeness(e, p) ==
    LET metrics == DOMAIN p.weights
    IN <<Cardinality({m \in metrics : Available(e, m)}),
         Cardinality(metrics) * (IF e.topology = "partial" THEN 2 ELSE 1)>>

Abstained(state) ==
    [status |-> "abstained", evidence |-> state, cause |-> "none",
     confidence |-> <<0, 1>>, completeness |-> <<0, 1>>]

\* infer_trace and build_diagnosis_report.
Report(e, p) ==
    LET first    == First(e, p, Active(p))
        rest     == Active(p) \ {first}
        top      == Score(e, p, first)
        margin   == top - (IF rest = {} THEN 0 ELSE Score(e, p, First(e, p, rest)))
        complete == Completeness(e, p)
        invalid  == \E m \in DOMAIN p.weights : ~Available(e, m)
        observed == \E c \in Active(p) :
                       Supporting(e, p, c) \cup Against(e, p, c) # {}
        state    == IF invalid THEN "invalid"
                    ELSE IF e.topology = "partial" THEN "partial"
                    ELSE IF ~observed THEN "not_observed"
                    ELSE "valid"
        claims   == /\ ~invalid
                    /\ AtLeast(complete, p.minimumCompleteness)
                    /\ top >= p.minimumScore /\ margin >= p.minimumMargin
    IN IF e.topology = "invalid" THEN Abstained("invalid")
       ELSE [status       |-> IF claims THEN "diagnosed" ELSE "abstained",
             evidence     |-> state,
             cause        |-> IF claims THEN first ELSE "none",
             confidence   |-> IF top = 0 THEN <<0, 1>>
                              ELSE <<complete[1] * margin, complete[2] * top>>,
             completeness |-> complete]
=============================================================================
