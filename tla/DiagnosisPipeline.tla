------------------------- MODULE DiagnosisPipeline -------------------------
(***************************************************************************)
(* A run is captured, one trace of it is judged by the topology contract,  *)
(* the inference scores what else was measured of that trace, and the      *)
(* report goes to an optimization campaign.  A capture is followed through *)
(* one half of W1: the bridge's (TraceEvidence) or the planner's           *)
(* (StageEvidence); of the other half the trace may show anything.         *)
(***************************************************************************)
EXTENDS TraceEvidence, StageEvidence, OptimizationCampaign

CONSTANT Profiles     \* the frozen scoring profiles of the runs

ASSUME PipelineAssumption == \A p \in Profiles : IsProfile(p)

VARIABLES picked,     \* the trace run_diagnosis was asked for
          given       \* the evidence and the profile its report is made from

halves == <<evidence, stages>>
vars   == <<halves, campaign, picked, given>>

NotPicked == [topology |-> "none"]
NotGiven  == <<>>

Init ==
    /\ EvidenceInit /\ StageInit /\ CampaignInit
    /\ picked = NotPicked /\ given = NotGiven

Before == stage = "idle" /\ picked = NotPicked /\ given = NotGiven

Capture ==
    /\ Before /\ capturing /\ tick = 0
    /\ EvidenceNext
    /\ UNCHANGED <<stages, campaign, picked, given>>

CapturePlanner ==
    /\ Before /\ pc = "receive" /\ cur = 1 /\ bus = "mock" /\ variant = "control"
    /\ StageNext
    /\ UNCHANGED <<evidence, campaign, picked, given>>

\* run_diagnosis --trace-id: the rest of the capture is not looked at again.
\* `least` and `most` bound the kinds of node of the trace.
Picks(topology, state, least, most) ==
    /\ picked = NotPicked
    /\ picked' = [topology |-> topology, state |-> state, least |-> least, most |-> most]
    /\ bus' = "mock" /\ variant' = "control" /\ cur' = 1 /\ n' = 0 /\ clock' = 0
    /\ pc' = "closed" /\ reply' = FALSE
    /\ truth' = [u \in Trace |-> NotYet] /\ log' = [u \in Trace |-> <<>>]
    /\ dump' = [command |-> 0, ack |-> 0] /\ seen' = {} /\ faults' = 0
    /\ tick' = 0 /\ published' = 0 /\ queue' = <<>> /\ busy' = Idle
    /\ fate' = [t \in Frame |-> Unknown] /\ logged' = [t \in Frame |-> <<>>]
    /\ probes' = {} /\ rowFaults' = 0 /\ capturing' = FALSE
    /\ UNCHANGED <<campaign, given>>

Pick(t) ==
    /\ pc = "closed" /\ log[t] # <<>>
    /\ Picks(Topology(t), truth[t].state, {}, NodeTypes)

PlannerStages == {"camera_frame_published", "planner_receive", "planner_process_start",
                  "planner_process_end", "planner_publish"}

\* The graph has what the association accepted for the trace: the kernel events,
\* and what the adapter of the capture's fault derived from the frames.
PickPlanned(t) ==
    LET whole   == \A name \in PlannerStages : Has(t, name)
        windows == Windows
        mine(events) == {e \in events : Associate(e, windows).trace = t}
        kernel  == IF mine(probes) # {} THEN {"SchedulingInterval"} ELSE {}
        nodes   == {"StageWindow"} \cup kernel
    IN /\ ~capturing /\ logged[t] # <<>>
       /\ \E verdict \in {<<"partial", "open">>, <<"invalid", "open">>}
                           \cup IF whole THEN {<<"valid", "ack_received">>} ELSE {},
             derived \in {Dispatched, Delivered} :
             Picks(verdict[1], verdict[2], nodes, nodes \cup {e.node : e \in mine(derived)})

\* What the measurements and probes of the trace came to: any kind of node may
\* be missing, and where nodes of a kind are there, none of them may carry the
\* metric.  Then infer_trace and the report.
Infer(profile) ==
    /\ picked # NotPicked /\ given = NotGiven
    /\ \E nodes \in {picked.most \cap set :
                       set \in SUBSET {Catalog[m][2] : m \in DOMAIN profile.weights}},
          levels \in [DOMAIN profile.weights -> {"high", "low", "none"}] :
          /\ \A m \in DOMAIN profile.weights :
                Catalog[m][2] \in picked.least => Catalog[m][2] \in nodes
          /\ LET e == [topology |-> picked.topology, state |-> picked.state,
                       nodes |-> nodes, seen |-> levels]
             IN /\ given' = <<e, profile>>
                /\ report' = Report(e, profile)
    /\ picked' = NotPicked
    /\ Deliver
    /\ UNCHANGED halves

\* The campaign; once the gate has looked, the report is done with.
Optimize ==
    /\ given # NotGiven \/ stage # "idle"
    /\ CampaignNext
    /\ given' = IF report' = NoReport THEN NotGiven ELSE given
    /\ UNCHANGED <<halves, picked>>

Next == \/ Capture \/ (\E t \in Trace : Pick(t))
        \/ CapturePlanner \/ (\E t \in Frame : PickPlanned(t))
        \/ (\E profile \in Profiles : Infer(profile)) \/ Optimize

Spec == Init /\ [][Next]_vars

-----------------------------------------------------------------------------
\* With a positive --minimum-confidence, no campaign goes past the gate unless
\* the command really came to a terminal of its own that the topology contract
\* confirmed, each metric of the profile was available, and the cause it acts
\* on has evidence for it and a higher score than any other cause.
GateNeedsCause ==
    [][\A minimum \in Thresholds :
         Gate(minimum) /\ files'.gate = "allow" /\ minimum[1][1] > 0 =>
           LET e == given[1]
               p == given[2]
               c == report.cause
           IN /\ e.topology = "valid" /\ e.state # "open"
              /\ \A m \in DOMAIN p.weights : Available(e, m)
              /\ Supporting(e, p, c) # {}
              /\ \A d \in Active(p) \ {c} : Score(e, p, d) < Score(e, p, c)]_vars
=============================================================================
