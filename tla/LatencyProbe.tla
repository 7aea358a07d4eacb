---------------------------- MODULE LatencyProbe ----------------------------
(***************************************************************************)
(* The latency probe (runtime_logger_pkg/src/latency_probe_node.cpp): it   *)
(* pairs the commands of its input topic with the completions the CAN      *)
(* bridge publishes, one per send attempt, and appends one row per pair.   *)
(* The two subscriptions are unordered with respect to each other, and     *)
(* either side may repeat or miss a message.  All three containers are     *)
(* bounded by max_pending_samples; begin() of an unordered container is    *)
(* any of its elements.                                                    *)
(***************************************************************************)
EXTENDS Integers, Sequences, FiniteSets

CONSTANTS
  Keys,         \* sample_key: trace_id and sequence_id
  Times,        \* the positive timestamps of messages
  Capacities,   \* the values of max_pending_samples the node may be started with
  MaxMessages   \* bound of this model: messages received

ASSUME ProbeAssumption ==
  /\ IsFiniteSet(Keys) /\ Times \subseteq Nat \ {0}
  /\ Capacities \subseteq Nat \ {0} /\ MaxMessages \in Nat

VARIABLES
  capacity,     \* max_pending_samples_
  inputs,       \* pending_inputs_: key -> timestamp, or Absent
  completions,  \* pending_completions_: key -> timestamp, or Absent
  completed,    \* completed_keys_
  rows,         \* the samples in the CSV file
  received,     \* messages received, the bound
  seenInput, seenCompletion  \* <<key, timestamp>> of every message (history)

vars == <<capacity, inputs, completions, completed, rows, received, seenInput, seenCompletion>>

-----------------------------------------------------------------------------
Absent == 0
Held(pending) == {k \in Keys : pending[k] # Absent}

HoldEvictingAlways(pending, k, t) ==  \* mutant: room is made one entry too early
  IF Cardinality(Held(pending)) + 1 >= capacity /\ Held(pending) # {}
  THEN {[pending EXCEPT ![old] = Absent, ![k] = t] : old \in Held(pending)}
  ELSE {[pending EXCEPT ![k] = t]}
\* The entry of k is stored; at capacity any entry is erased before.
Hold(pending, k, t) ==
  IF Cardinality(Held(pending)) >= capacity
  THEN {[pending EXCEPT ![old] = Absent, ![k] = t] : old \in Held(pending)}
  ELSE {[pending EXCEPT ![k] = t]}

\* remember_completed_locked.  Mutant: the set is cleared one key too early.
RememberCompletedEarly(k) ==
  completed' = (IF Cardinality(completed) + 1 >= capacity THEN {} ELSE completed) \cup {k}
RememberCompleted(k) ==
  completed' = (IF Cardinality(completed) >= capacity THEN {} ELSE completed) \cup {k}

\* write_sample_locked.  Mutant: a negative latency is written.
WriteSampleAny(k, start, end) == rows' = Append(rows, [key |-> k, start |-> start, end |-> end])
WriteSample(k, start, end) ==
  rows' = IF end < start THEN rows
          ELSE Append(rows, [key |-> k, start |-> start, end |-> end])

Init ==
  /\ capacity \in Capacities
  /\ inputs = [k \in Keys |-> Absent] /\ completions = [k \in Keys |-> Absent]
  /\ completed = {} /\ rows = << >>
  /\ received = 0 /\ seenInput = {} /\ seenCompletion = {}

OnInput(k, t) ==
  /\ \/ k \in completed /\ UNCHANGED <<inputs, completions, completed, rows>>
     \/ /\ k \notin completed /\ completions[k] # Absent
        /\ WriteSample(k, t, completions[k])
        /\ completions' = [completions EXCEPT ![k] = Absent]
        /\ RememberCompleted(k)
        /\ UNCHANGED inputs
     \/ /\ k \notin completed /\ completions[k] = Absent
        /\ inputs' \in Hold(inputs, k, t)
        /\ UNCHANGED <<completions, completed, rows>>
  /\ seenInput' = seenInput \cup {<<k, t>>} /\ UNCHANGED seenCompletion

OnCompletion(k, t) ==
  /\ \/ k \in completed /\ UNCHANGED <<inputs, completions, completed, rows>>
     \/ /\ k \notin completed /\ inputs[k] # Absent
        /\ WriteSample(k, inputs[k], t)
        /\ inputs' = [inputs EXCEPT ![k] = Absent]
        /\ RememberCompleted(k)
        /\ UNCHANGED completions
     \/ /\ k \notin completed /\ inputs[k] = Absent
        /\ completions' \in Hold(completions, k, t)
        /\ UNCHANGED <<inputs, completed, rows>>
  /\ seenCompletion' = seenCompletion \cup {<<k, t>>} /\ UNCHANGED seenInput

Next ==
  /\ received < MaxMessages /\ received' = received + 1 /\ UNCHANGED capacity
  /\ \E k \in Keys, t \in Times : OnInput(k, t) \/ OnCompletion(k, t)

Spec == Init /\ [][Next]_vars

-----------------------------------------------------------------------------
TypeOK ==
  /\ capacity \in Capacities
  /\ inputs \in [Keys -> Times \cup {Absent}]
  /\ completions \in [Keys -> Times \cup {Absent}]
  /\ completed \subseteq Keys
  /\ rows \in Seq([key : Keys, start : Times, end : Times])
  /\ received \in 0..MaxMessages
  /\ seenInput \subseteq Keys \X Times /\ seenCompletion \subseteq Keys \X Times

\* A key waits on one side only, and never after it was completed: no message
\* finds its counterpart already waiting and leaves it there.
OneSide ==
  /\ Held(inputs) \cap Held(completions) = {}
  /\ completed \cap (Held(inputs) \cup Held(completions)) = {}

\* The node's memory stays within max_pending_samples, however long it runs
\* ("It writes bounded, append-only CSV samples", runtime_logger_pkg/README.md).
WithinCapacity ==
  /\ Cardinality(Held(inputs)) <= capacity
  /\ Cardinality(Held(completions)) <= capacity
  /\ Cardinality(completed) <= capacity

\* A row pairs an input with a completion of the same command that was not
\* stamped before it, whatever arrived in between.
RowsGenuine ==
  \A i \in DOMAIN rows :
    /\ <<rows[i].key, rows[i].start>> \in seenInput
    /\ <<rows[i].key, rows[i].end>> \in seenCompletion
    /\ rows[i].start <= rows[i].end

\* With no more commands than max_pending_samples every command is sampled at
\* most once, although the bridge completes it once per attempt.
SampledOnce ==
  Cardinality(Keys) <= capacity =>
    \A i, j \in DOMAIN rows : rows[i].key = rows[j].key => i = j

\* With fewer commands than max_pending_samples no pair is missed.  (With as
\* many, a repeated input evicts another command's although it needs no room.)
NoPairMissed ==
  Cardinality(Keys) < capacity =>
    \A k \in Keys :
      (\E t \in Times : <<k, t>> \in seenInput) /\ (\E t \in Times : <<k, t>> \in seenCompletion)
      => k \in completed
=============================================================================
