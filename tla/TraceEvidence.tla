--------------------------- MODULE TraceEvidence ---------------------------
(***************************************************************************)
(* What the diagnosis can learn of a command from its rows.  The bridge    *)
(* lives through a command attempt by attempt and logs a row per event;    *)
(* candump and the F6 responder record the frames of a SocketCAN run.  A   *)
(* row or a record may be lost, a row may be there twice, and the          *)
(* workload's timeout cuts the capture anywhere.  Afterwards the mock and  *)
(* the SocketCAN ACK adapters and the W1 topology contract read what is    *)
(* left.  Frames carry no trace id and all commands here are alike, so     *)
(* that any record may stand for any of them.                              *)
(***************************************************************************)
EXTENDS Naturals, Sequences, FiniteSets, SequencesExt

CONSTANTS Buses,          \* subset of {"mock", "vcan"}
          NumTraces,      \* commands of the capture, one after another
          MaxRetries,     \* the bridge's max_retries
          MaxFaults       \* bound of lost or doubled rows and records

ASSUME EvidenceAssumption ==
    /\ Buses \subseteq {"mock", "vcan"} /\ NumTraces \in Nat \ {0}
    /\ MaxRetries \in Nat /\ MaxFaults \in Nat

VARIABLES bus, variant,   \* the run: its bus, "control" or "injected"
          cur, pc, n,     \* the bridge: command, step, retry_count
          clock,          \* attempts so far: the time of a frame
          reply,          \* an ACK for the last frame is under way
          truth,          \* command -> what happened to it
          log,            \* command -> its rows, by timestamp
          dump, seen,     \* candump's frames, the responder's records
          faults

bridge   == <<bus, variant, cur, pc, n, clock, reply, truth>>
captured == <<log, dump, seen, faults>>
evidence == <<bridge, captured>>

Trace == 1 .. NumTraces
NotYet == [state |-> "open", waits |-> 0, timeouts |-> 0, retries |-> 0]

EvidenceInit ==
    /\ bus \in Buses /\ variant \in {"control", "injected"}
    /\ cur = 1 /\ pc = "receive" /\ n = 0 /\ clock = 0 /\ reply = FALSE
    /\ truth = [t \in Trace |-> NotYet]
    /\ log = [t \in Trace |-> <<>>]
    /\ dump = [command |-> 0, ack |-> 0] /\ seen = {} /\ faults = 0

-----------------------------------------------------------------------------
(* The bridge and its loggers.                                             *)

\* publish_event and the runtime event logger: the row arrives once, twice or
\* not at all; `more` counts what candump and the responder missed with it.
Record(event, num, at, more) ==
    LET row == [event |-> event, n |-> num, at |-> at]
    IN \E rows \in {<<>>, <<row>>, <<row, row>>} :
          /\ faults' = faults + more + (IF Len(rows) = 1 THEN 0 ELSE 1)
          /\ faults' <= MaxFaults
          /\ log' = [log EXCEPT ![cur] = @ \o rows]

Emit(event) == Record(event, n, clock, 0)

Ends(state) ==
    /\ truth' = [truth EXCEPT ![cur].state = state]
    /\ pc' = "over"

run    == <<bus, variant, cur>>
frames == <<dump, seen>>

\* A command arrives and is encoded: one row for the stages up to the frame.
Receive ==
    /\ pc = "receive"
    /\ Emit("prefix")
    /\ pc' = "send"
    /\ UNCHANGED <<run, n, clock, reply, truth, frames>>

\* validate_command after the delay: the TTL has run out, nothing is sent.
CommandExpires ==
    /\ pc = "send"
    /\ Ends("rejected")
    /\ UNCHANGED <<run, n, clock, reply, captured>>

\* send_frame fails: the attempt is logged and, next, its failure.
FrameRejected ==
    /\ pc = "send"
    /\ clock' = clock + 1
    /\ Record("can_frame_sent", n, clock + 1, 0)
    /\ pc' = "failed"
    /\ UNCHANGED <<run, n, reply, truth, frames>>

SendFailed ==
    /\ pc = "failed"
    /\ Emit("can_frame_send_failed")
    /\ Ends("send_failed")
    /\ UNCHANGED <<run, n, clock, reply, frames>>

\* The frame is out.  On the mock bus `observed` says whether its ACK timer
\* will run; on vcan candump and the responder may each miss the frame, and
\* candump the answer of a responder that echoes.
FrameSent ==
    /\ pc = "send"
    /\ clock' = clock + 1
    /\ \E observed, gotCommand, gotAck \in BOOLEAN :
          LET answers == observed /\ variant = "control"
              lost    == {k \in {"command", "ack"} :
                            ~(IF k = "command" THEN gotCommand ELSE gotAck)}
          IN /\ bus = "mock" => lost = {}
             /\ ~answers => gotAck
             /\ Record("can_frame_sent", n, clock + 1, Cardinality(lost))
             /\ reply' = (answers \/ (bus = "vcan" /\ reply))
             /\ IF bus = "mock" THEN UNCHANGED frames
                ELSE /\ dump' = [command |-> dump.command
                                               + (IF gotCommand THEN 1 ELSE 0),
                                 ack |-> dump.ack
                                   + (IF answers /\ gotAck THEN 1 ELSE 0)]
                     /\ seen' = IF observed THEN seen \cup {clock + 1} ELSE seen
    /\ pc' = "wait"
    /\ UNCHANGED <<run, n, truth>>

StartWait ==
    /\ pc = "wait"
    /\ Emit("can_ack_wait_start")
    /\ truth' = [truth EXCEPT ![cur].waits = @ + 1]
    /\ pc' = "waiting"
    /\ UNCHANGED <<run, n, clock, reply, frames>>

AckArrives ==
    /\ pc = "waiting" /\ reply
    /\ Emit("can_ack_received")
    /\ Ends("ack_received")
    /\ reply' = FALSE
    /\ UNCHANGED <<run, n, clock, frames>>

\* on_ack_timeout; on vcan an answer may still be under way.
AckTimesOut ==
    /\ pc = "waiting"
    /\ Emit("can_ack_timeout")
    /\ truth' = [truth EXCEPT ![cur].timeouts = @ + 1]
    /\ pc' = IF n < MaxRetries THEN "retry" ELSE "exhausted"
    /\ UNCHANGED <<run, n, clock, reply, frames>>

Exhaust ==
    /\ pc = "exhausted"
    /\ Emit("can_retry_exhausted")
    /\ Ends("retry_exhausted")
    /\ UNCHANGED <<run, n, clock, reply, frames>>

\* The retry is logged under its own number before the frame is sent again.
ScheduleRetry ==
    /\ pc = "retry"
    /\ n' = n + 1
    /\ Record("can_retry_scheduled", n + 1, clock, 0)
    /\ truth' = [truth EXCEPT ![cur].retries = @ + 1]
    /\ pc' = "send"
    /\ UNCHANGED <<run, clock, reply, frames>>

\* The next command comes a camera period later: a late answer is gone.
NextCommand ==
    /\ pc = "over" /\ cur < NumTraces
    /\ cur' = cur + 1 /\ pc' = "receive" /\ n' = 0 /\ reply' = FALSE
    /\ UNCHANGED <<bus, variant, clock, truth, captured>>

\* timeout(1) ends the workload wherever it is.
Cut ==
    /\ pc # "closed"
    /\ pc' = "closed"
    /\ UNCHANGED <<run, n, clock, reply, truth, captured>>

EvidenceNext ==
    \/ Receive \/ CommandExpires \/ FrameRejected \/ SendFailed \/ FrameSent
    \/ StartWait \/ AckArrives \/ AckTimesOut \/ Exhaust \/ ScheduleRetry
    \/ NextCommand \/ Cut

-----------------------------------------------------------------------------
(* The mock ACK adapter.                                                   *)

AckTerminals == {"can_ack_received", "can_retry_exhausted"}
AckEvents == AckTerminals \cup
    {"can_ack_wait_start", "can_ack_timeout", "can_retry_scheduled"}

\* The rows of some events, in their order.
Only(events, list) ==
    FoldLeft(LAMBDA kept, row : IF row.event \in events THEN Append(kept, row) ELSE kept,
             <<>>, list)

RowsOf(t, events) == Only(events, log[t])
Counts(t, event) ==
    LET rows == RowsOf(t, {event}) IN [i \in DOMAIN rows |-> rows[i].n]

\* Python's range(first, last + 1).
From(first, last) == [i \in 1 .. last + 1 - first |-> first + i - 1]

ValidExhausted(t, terminal) ==
    /\ Counts(t, "can_ack_wait_start") = From(0, MaxRetries)
    /\ Counts(t, "can_ack_timeout") = From(0, MaxRetries)
    /\ Counts(t, "can_retry_scheduled") = From(1, MaxRetries)
    /\ terminal.n = MaxRetries

\* Mutant: the waits of a recovered trace are not counted.
MValidSuccess(t, terminal) ==
    /\ Counts(t, "can_ack_timeout") = [i \in 1 .. terminal.n |-> i - 1]
    /\ Counts(t, "can_retry_scheduled") = [i \in 1 .. terminal.n |-> i]

\* A monotone retry prefix without gaps; an earlier attempt may time out.
ValidSuccess(t, terminal) ==
    /\ Counts(t, "can_ack_wait_start") = From(0, terminal.n)
    /\ Counts(t, "can_ack_timeout") = [i \in 1 .. terminal.n |-> i - 1]
    /\ Counts(t, "can_retry_scheduled") = From(1, terminal.n)

Lifecycle(t, terminal) ==
    IF terminal.event = "can_retry_exhausted"
    THEN ValidExhausted(t, terminal) ELSE ValidSuccess(t, terminal)

\* What the adapter says of a trace, by its checks in their order.
MockVerdict(t) ==
    LET rows      == RowsOf(t, AckEvents)
        terminals == RowsOf(t, AckTerminals)
    IN IF rows = <<>> THEN "absent"
       ELSE IF terminals = <<>> THEN "incomplete"
       ELSE IF Len(terminals) > 1 THEN "conflicting_terminal"
       ELSE IF Last(rows) # terminals[1] THEN "event_after_terminal"
       ELSE IF Counts(t, "can_ack_wait_start") = <<>> THEN "incomplete"
       ELSE IF ~Lifecycle(t, terminals[1]) THEN "retry_sequence_mismatch"
       ELSE "valid"

-----------------------------------------------------------------------------
(* The SocketCAN adapter: rows, candump frames and responder records.      *)

SocketEvents == AckEvents \cup {"can_frame_sent"}

\* The checks on the rows of one trace.
SocketRows(t) ==
    LET rows      == RowsOf(t, SocketEvents)
        terminals == RowsOf(t, AckTerminals)
        waits     == Counts(t, "can_ack_wait_start")
        expected  == IF variant = "injected" THEN "can_retry_exhausted"
                     ELSE "can_ack_received"
    IN IF rows = <<>> THEN "absent"
       ELSE IF terminals = <<>> \/ waits = <<>> THEN "incomplete"
       ELSE IF Len(terminals) > 1 THEN "conflicting_terminal"
       ELSE IF Last(rows) # terminals[1] THEN "event_after_terminal"
       ELSE IF terminals[1].event # expected THEN "terminal_variant_mismatch"
       ELSE IF ~Lifecycle(t, terminals[1]) \/ Counts(t, "can_frame_sent") # waits
            THEN "retry_sequence_mismatch"
       ELSE "valid"

\* Mutant: a responder's record may be used for any number of sends.
MMatchSend(left, send) ==
    LET later == {a \in left.seen : a >= send.at}
    IN IF left.reason # "valid" THEN left
       ELSE IF left.command = 0 THEN [left EXCEPT !.reason = "missing_candump_command"]
       ELSE IF later = {} THEN [left EXCEPT !.command = @ - 1,
                                            !.reason = "missing_responder_observation"]
       ELSE [left EXCEPT !.command = @ - 1]

\* One send takes the first unused command frame, the first unused record
\* that is not older than it and, in a control run, the first unused ACK
\* frame; in an injected run there must be no ACK frame at all.
MatchSend(left, send) ==
    LET later == {a \in left.seen : a >= send.at}
        first == CHOOSE a \in later : \A b \in later : a <= b
        taken == [left EXCEPT !.command = @ - 1, !.seen = @ \ {first}]
    IN IF left.reason # "valid" THEN left
       ELSE IF left.command = 0 THEN [left EXCEPT !.reason = "missing_candump_command"]
       ELSE IF later = {} THEN [left EXCEPT !.command = @ - 1,
                                            !.reason = "missing_responder_observation"]
       ELSE IF variant = "injected"
            THEN IF dump.ack = 0 THEN taken
                 ELSE [taken EXCEPT !.reason = "unexpected_candump_ack"]
       ELSE IF left.ack = 0 THEN [taken EXCEPT !.reason = "missing_candump_ack"]
       ELSE [taken EXCEPT !.ack = @ - 1]

\* The traces one after another: what one used is gone for the next, even
\* when it fails half way.
SocketVerdict ==
    LET judge(left, t) ==
            LET rows  == SocketRows(t)
                after == IF rows # "valid" THEN left
                         ELSE FoldLeft(MatchSend, [left EXCEPT !.reason = "valid"],
                                       RowsOf(t, {"can_frame_sent"}))
            IN [after EXCEPT !.verdict =
                  Append(@, IF rows = "valid" THEN after.reason ELSE rows)]
        start == [command |-> dump.command, ack |-> dump.ack, seen |-> seen,
                  reason |-> "valid", verdict |-> <<>>]
    IN FoldLeft(judge, start, [t \in Trace |-> t]).verdict

Verdict(t) == IF bus = "mock" THEN MockVerdict(t) ELSE SocketVerdict[t]

-----------------------------------------------------------------------------
(* The topology contract of W1.                                            *)

Terminals == AckTerminals \cup {"can_frame_send_failed"}

\* The required stages of the path that ends in a terminal.
Path(terminal) ==
    IF terminal = "can_frame_send_failed"
    THEN <<"prefix", "can_frame_sent", terminal>>
    ELSE <<"prefix", "can_frame_sent", "can_ack_wait_start", terminal>>

\* Mutant: a retried attempt does not restart the order.
MRestarts(t, terminal) == {}

\* The rows at which a retried attempt begins: the marker comes before them,
\* and no stage of the path in between.  A send_failed path has no marker.
Restarts(t, terminal) ==
    LET required == ToSet(Path(terminal))
        rows     == log[t]
    IN {i \in DOMAIN rows :
          /\ terminal # "can_frame_send_failed"
          /\ rows[i].event = "can_frame_sent"
          /\ \E j \in 1 .. i - 1 :
                /\ rows[j].event = "can_retry_scheduled"
                /\ \A k \in j + 1 .. i - 1 : rows[k].event \notin required}

PathStatus(t, terminal) ==
    LET path     == Path(terminal)
        rows     == log[t]
        place(i) == CHOOSE p \in DOMAIN path : path[p] = rows[i].event
        admitted == {i \in DOMAIN rows : rows[i].event \in ToSet(path)}
        backward == \E i, k \in admitted :
                       /\ i < k /\ \A j \in i + 1 .. k - 1 : j \notin admitted
                       /\ k \notin Restarts(t, terminal)
                       /\ place(k) < place(i)
    IN IF backward THEN "invalid"
       ELSE IF {rows[i].event : i \in admitted} # ToSet(path) THEN "partial"
       ELSE "valid"

\* TopologyContract.validate: one terminal at most decides the paths, and
\* the best of their verdicts counts.
Topology(t) ==
    LET observed == {log[t][i].event : i \in DOMAIN log[t]} \cap Terminals
        paths    == IF observed = {} THEN Terminals ELSE observed
        found    == {PathStatus(t, terminal) : terminal \in paths}
    IN IF Cardinality(observed) > 1 THEN "invalid"
       ELSE IF "valid" \in found THEN "valid"
       ELSE IF "partial" \in found THEN "partial"
       ELSE "invalid"

-----------------------------------------------------------------------------
(* What the evidence promises.                                             *)

\* An ACK lifecycle an adapter accepts is the one that happened, however the
\* capture was damaged: the same terminal, the same attempts, timeouts and
\* retries; and on SocketCAN no frame and no record stands for two attempts.
AckEvidenceTrue ==
    LET accepted == {t \in Trace : Verdict(t) = "valid"}
        attempts == FoldLeft(LAMBDA a, t : a + IF t \in accepted
                                THEN Len(RowsOf(t, {"can_frame_sent"})) ELSE 0,
                             0, [t \in Trace |-> t])
    IN /\ \A t \in accepted :
             LET terminal == RowsOf(t, AckTerminals)[1].event
             IN /\ truth[t].state = IF terminal = "can_ack_received"
                                    THEN "ack_received" ELSE "retry_exhausted"
                /\ Len(Counts(t, "can_ack_wait_start")) = truth[t].waits
                /\ Len(Counts(t, "can_ack_timeout")) = truth[t].timeouts
                /\ Len(Counts(t, "can_retry_scheduled")) = truth[t].retries
       /\ bus = "vcan" =>
             /\ attempts <= dump.command /\ attempts <= Cardinality(seen)
             /\ variant = "control" => attempts <= dump.ack

\* An undamaged capture is taken at its word: a finished life passes the
\* topology contract and the mock adapter, retried or not, and one the timeout
\* cut is incomplete, never called invalid.
CompleteLifeAdmitted ==
    faults = 0 =>
        \A t \in Trace :
           LET state == truth[t].state
           IN /\ Topology(t) = (IF state \in {"ack_received", "retry_exhausted",
                                              "send_failed"}
                                THEN "valid" ELSE "partial")
              /\ MockVerdict(t) \in
                   IF state \in {"ack_received", "retry_exhausted"}
                   THEN {"valid"} ELSE {"incomplete", "absent"}
=============================================================================
