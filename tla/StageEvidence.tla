--------------------------- MODULE StageEvidence ---------------------------
(***************************************************************************)
(* What a capture tells of the planner's half of W1.  Frames wait in the   *)
(* subscription's history until the planner takes them, one at a time, on  *)
(* any thread of its executor; the planner logs a row per stage, any of    *)
(* which may be lost or be there twice, and a kernel probe logs what its   *)
(* threads do.  Afterwards stage windows are built from the rows, every    *)
(* system event is given to a window by process, thread and time (all of   *)
(* it here is of one host, clock and process), and the trial reports and   *)
(* adapters of F1, F2 and F5 measure the traces.  Every step takes a tick. *)
(***************************************************************************)
EXTENDS Naturals, Sequences, FiniteSets, SequencesExt

CONSTANTS NumFrames,      \* frames the camera publishes
          Depth,          \* frame_qos_depth
          Threads,        \* executor_threads: the planner's threads
          MaxProbes,      \* bound of kernel events
          MaxRowFaults    \* bound of lost or doubled rows

ASSUME StageAssumption ==
    /\ NumFrames \in Nat /\ Depth \in Nat \ {0}
    /\ MaxProbes \in Nat /\ MaxRowFaults \in Nat

VARIABLES tick,
          published,  \* frames published so far
          queue,      \* frames in the subscription's history
          busy,       \* the planning under way
          fate,       \* trace -> what really happened to it
          logged,     \* trace -> its rows, by timestamp
          probes,     \* kernel events
          rowFaults,
          capturing   \* the workload's timeout has not ended it

planning == <<tick, published, queue, busy, fate>>
stages   == <<planning, logged, probes, rowFaults, capturing>>

Frame   == 1 .. NumFrames
Idle    == [trace |-> 0]
Unknown == [published |-> 0, received |-> 0, started |-> 0, finished |-> 0,
            tid |-> "none", outcome |-> "none"]

StageInit ==
    /\ tick = 0 /\ published = 0 /\ queue = <<>> /\ busy = Idle
    /\ fate = [t \in Frame |-> Unknown]
    /\ logged = [t \in Frame |-> <<>>]
    /\ probes = {} /\ rowFaults = 0 /\ capturing = TRUE

-----------------------------------------------------------------------------
(* The workload.                                                           *)

Row(name, at, duration, tid) ==
    [stage |-> name, at |-> at, duration |-> duration, tid |-> tid]

\* The logger writes each of the rows once, twice or not at all.
Write(t, list) ==
    \E copies \in [DOMAIN list -> 0 .. 2] :
       LET odd == {i \in DOMAIN list : copies[i] # 1}
       IN /\ rowFaults' = rowFaults + Cardinality(odd)
          /\ rowFaults' <= MaxRowFaults
          /\ logged' = [logged EXCEPT ![t] = @ \o FlattenSeq(
                [i \in DOMAIN list |-> [c \in 1 .. copies[i] |-> list[i]]])]

Tick == tick' = tick + 1

\* publish_frame.  KEEP_LAST: a full history loses its oldest frame.
PublishFrame ==
    LET t == published + 1
    IN /\ t <= NumFrames
       /\ Tick
       /\ published' = t
       /\ queue' = Append(IF Len(queue) < Depth THEN queue ELSE Tail(queue), t)
       /\ fate' = [fate EXCEPT ![t].published = tick']
       /\ Write(t, <<Row("camera_frame_published", tick', 0, "camera")>>)
       /\ UNCHANGED <<busy, probes, capturing>>

\* _on_camera_frame; the callback group lets one frame in at a time.
TakeFrame(tid) ==
    LET t == Head(queue)
    IN /\ busy = Idle /\ queue # <<>>
       /\ Tick
       /\ queue' = Tail(queue)
       /\ busy' = [trace |-> t, tid |-> tid, begun |-> tick', started |-> FALSE]
       /\ fate' = [fate EXCEPT ![t].received = tick', ![t].tid = tid]
       /\ Write(t, <<Row("planner_receive", tick', 0, tid)>>)
       /\ UNCHANGED <<published, probes, capturing>>

StartPlanning ==
    /\ busy # Idle /\ ~busy.started
    /\ Tick
    /\ busy' = [busy EXCEPT !.started = TRUE]
    /\ fate' = [fate EXCEPT ![busy.trace].started = tick']
    /\ Write(busy.trace, <<Row("planner_process_start", tick', 0, busy.tid)>>)
    /\ UNCHANGED <<published, queue, probes, capturing>>

\* The rows of an end: each declares how long the planning has taken.
Ended(outcome, at) ==
    LET row(name) == Row(name, at, at - busy.begun, busy.tid)
        abstained  == <<row("planner_process_end"), row("planner_command_abstained")>>
    IN CASE outcome = "planned"  -> <<row("planner_process_end"),
                                      Row("planner_publish", at, 0, busy.tid)>>
         [] outcome = "rejected" -> <<row("planner_request_rejected")>> \o abstained
         [] outcome = "failed"   -> <<row("planner_backend_failure")>> \o abstained

\* A request not admitted, a decision, or a planning whose model, deadline or
\* decision failed it.
FinishPlanning(outcome) ==
    /\ busy # Idle
    /\ busy.started = (outcome # "rejected")
    /\ Tick
    /\ busy' = Idle
    /\ fate' = [fate EXCEPT ![busy.trace].finished = tick', ![busy.trace].outcome = outcome]
    /\ Write(busy.trace, Ended(outcome, tick'))
    /\ UNCHANGED <<published, queue, probes, capturing>>

\* A kernel event of a planner thread: at work on a trace, running the
\* contention callback or waiting for either.
Probe(tid) ==
    LET works == busy # Idle /\ busy.tid = tid
    IN /\ Cardinality(probes) < MaxProbes
       /\ Tick
       /\ probes' = probes \cup {[at |-> tick', tid |-> tid,
                                  trace |-> IF works THEN busy.trace ELSE 0,
                                  planned |-> works /\ busy.started,
                                  idle |-> busy = Idle]}
       /\ UNCHANGED <<published, queue, busy, fate, logged, rowFaults, capturing>>

EndCapture ==
    /\ capturing' = FALSE
    /\ UNCHANGED <<planning, logged, probes, rowFaults>>

StageNext ==
    /\ capturing
    /\ \/ PublishFrame \/ StartPlanning \/ EndCapture
       \/ \E tid \in Threads : TakeFrame(tid) \/ Probe(tid)
       \/ \E outcome \in {"planned", "rejected", "failed"} : FinishPlanning(outcome)

StageSpec == StageInit /\ [][StageNext]_stages

-----------------------------------------------------------------------------
(* Stage windows and the association of system events.                     *)

\* _pair_explicit_end_events: in the order of the rows, an end goes to the
\* nearest start that is still open.
Paired(list) ==
    LET step(acc, j) ==
            CASE list[j].stage = "planner_process_start" ->
                   [acc EXCEPT !.open = Append(@, j)]
              [] list[j].stage = "planner_process_end" /\ acc.open # <<>> ->
                   [open |-> Front(acc.open), pairs |-> acc.pairs \cup {<<Last(acc.open), j>>}]
              [] OTHER -> acc
    IN FoldLeft(step, [open |-> <<>>, pairs |-> {}], [j \in DOMAIN list |-> j]).pairs

\* build_stage_windows: a window from every row, until its paired end or for
\* as long as it declares.
Windows ==
    UNION {LET list  == logged[t]
               pairs == Paired(list)
               to(i) == IF \E j \in DOMAIN list : <<i, j>> \in pairs
                        THEN list[CHOOSE j \in DOMAIN list : <<i, j>> \in pairs].at
                        ELSE list[i].at + list[i].duration
           IN {[trace |-> t, stage |-> list[i].stage, tid |-> list[i].tid,
                from |-> list[i].at, to |-> to(i)] : i \in DOMAIN list} : t \in Frame}

\* A window of no width is unmeasured and contains nothing.
Covers(w, at) == w.from < w.to /\ w.from <= at /\ at <= w.to

\* Mutant: the thread is not looked at.
MBest(candidates, event) == candidates

\* An exact thread outranks the process alone.
Best(candidates, event) ==
    LET exact == {w \in candidates : w.tid = event.tid}
    IN IF exact # {} THEN exact ELSE candidates

\* associate_system_event.
Associate(event, windows) ==
    LET best    == Best({w \in windows : Covers(w, event.at)}, event)
        targets == {<<w.trace, w.stage>> : w \in best}
        only    == CHOOSE target \in targets : TRUE
    IN CASE targets = {} -> [status |-> "unmatched", trace |-> 0, stage |-> "none"]
         [] Cardinality(targets) > 1 ->
              [status |-> "ambiguous", trace |-> 0, stage |-> "none"]
         [] OTHER -> [status |-> "accepted", trace |-> only[1], stage |-> only[2]]

-----------------------------------------------------------------------------
(* The measurements of a trace.                                            *)

RowsOfStage(t, name) == {i \in DOMAIN logged[t] : logged[t][i].stage = name}
FirstRow(t, name)    == logged[t][Min(RowsOfStage(t, name))]
Has(t, name)   == RowsOfStage(t, name) # {}
Twice(t, name) == Cardinality(RowsOfStage(t, name)) > 1
Elapsed(t, from, to) == FirstRow(t, to).at - FirstRow(t, from).at

\* derive_f1_trial_report and derive_f2_trial_report, for a trace with a row
\* of either stage.
Judge(t, from, to) ==
    IF Twice(t, from) \/ Twice(t, to) THEN "invalid"
    ELSE IF ~Has(t, from) \/ ~Has(t, to) THEN "incomplete"
    ELSE "complete"

\* derive_f5_trial_report: without a publish row the trace is not observed.
JudgePressure(t, from, to) ==
    IF ~Twice(t, from) /\ ~Twice(t, to) /\ ~Has(t, from) THEN "invalid"
    ELSE Judge(t, from, to)

\* Mutant: F1 measures from the reception of the frame.
MInterval(cause) ==
    IF cause = "application_compute_delay"
    THEN <<"planner_receive", "planner_process_end">>
    ELSE <<"camera_frame_published", "planner_receive">>

Interval(cause) ==
    IF cause = "application_compute_delay"
    THEN <<"planner_process_start", "planner_process_end">>
    ELSE <<"camera_frame_published", "planner_receive">>

Verdicts(cause) ==
    LET from == Interval(cause)[1]
        to   == Interval(cause)[2]
    IN [t \in {t \in Frame : Has(t, from) \/ Has(t, to)} |->
          IF cause = "dds_communication_delay" THEN JudgePressure(t, from, to)
          ELSE Judge(t, from, to)]

Observed(cause) ==
    {t \in DOMAIN Verdicts(cause) :
       cause = "dds_communication_delay" => Has(t, "camera_frame_published")}
Measurable(cause) == {t \in DOMAIN Verdicts(cause) : Verdicts(cause)[t] = "complete"}

\* Between the first row of each stage: what an adapter derives of it is a
\* system event like any other, of the time of the reception.
Reception(t, node) ==
    IF Has(t, "camera_frame_published") /\ Has(t, "planner_receive")
    THEN LET row == FirstRow(t, "planner_receive")
         IN {[at |-> row.at, tid |-> row.tid, node |-> node]}
    ELSE {}

\* The F2 adapter bounds the callback's dispatch by it, the F5 adapter the
\* delivery, each for the captures of its own fault.
Dispatched == UNION {Reception(t, "RosCallback") : t \in Frame}
Delivered  == UNION {Reception(t, "DdsCommunication") : t \in Frame}

\* The F1 adapter wants the command's publication too.
ComputeMeasured(t) ==
    \A name \in {"camera_frame_published", "planner_process_start",
                  "planner_process_end", "planner_publish"} : Has(t, name)

-----------------------------------------------------------------------------
(* What the evidence promises.                                             *)

\* A kernel event that the interval of a planning claims on its own thread is
\* work on that trace, whatever rows were lost or doubled.  In an undamaged
\* capture no event of a finished planning goes to another trace or stays
\* unmatched; it is given to its planning unless the thread has planned before
\* (the window of that planning's end row may then make it ambiguous).
AttributionSound ==
    ~capturing => \A e \in probes :
       LET d == Associate(e, Windows)
       IN /\ /\ d.status = "accepted" /\ d.stage = "planner_process_start"
             /\ fate[d.trace].tid = e.tid
             => e.trace = d.trace
          /\ e.planned /\ fate[e.trace].finished > 0 /\ rowFaults = 0 =>
                \/ d.status = "accepted" /\ d.trace = e.trace
                \/ /\ d.status = "ambiguous"
                   /\ \E t \in 1 .. e.trace - 1 : fate[t].tid = e.tid

\* A trial measures what happened: F1 the plannings from their start to their
\* end, those that came to no command included, F2 and F5 the frames from
\* their publication to the planner's taking them; a lost row loses a trace and
\* changes none, and an undamaged capture counts every trace.  The F1 adapter,
\* of an undamaged capture, measures just the plannings that made a command.
MeasuredTruly ==
    LET begun(cause, t) == IF cause = "application_compute_delay"
                           THEN fate[t].started ELSE fate[t].published
        ended(cause, t) == IF cause = "application_compute_delay"
                           THEN fate[t].finished ELSE fate[t].received
    IN ~capturing /\ published > 0 =>
       \A cause \in {"application_compute_delay", "executor_queueing",
                     "dds_communication_delay"} :
         LET real     == {t \in Frame : begun(cause, t) > 0 /\ ended(cause, t) > 0}
             measured == Measurable(cause)
         IN /\ measured \subseteq real \cap Observed(cause)
            /\ \A t \in measured :
                 Elapsed(t, Interval(cause)[1], Interval(cause)[2])
                   = ended(cause, t) - begun(cause, t)
            /\ rowFaults = 0 => measured = real
            /\ rowFaults = 0 /\ cause # "application_compute_delay" =>
                 Observed(cause) = 1 .. published
            /\ rowFaults = 0 =>
                 {t \in Frame : ComputeMeasured(t)} = {t \in Frame : fate[t].outcome = "planned"}

\* "Executor waiting [is] expected to remain background evidence"
\* (docs/fusion/TRACE_STAGE_ASSOCIATION.md:52): a kernel event of a planner that
\* plans nothing is accepted for no trace.
WaitingIsBackground ==
    ~capturing =>
        \A e \in probes : e.idle => Associate(e, Windows).status # "accepted"
=============================================================================
