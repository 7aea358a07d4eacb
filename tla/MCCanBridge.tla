---------------------------- MODULE MCCanBridge ----------------------------
(* Instances of CanBridge for TLC. *)
EXTENDS CanBridge

CONSTANTS r1, r2, r3   \* three deliveries

\* r2 repeats r1; r3 carries the same request, stamped later by the planner.
Repeats == [r \in Requests |-> "id1"]
RepeatStamps == [r \in Requests |-> IF r = r3 THEN 1 ELSE 0]

\* Two commands for one action and target: one CAN id, two payloads.
Apart == [r \in Requests |-> IF r = r1 THEN "id1" ELSE "id2"]
EarlyStamps == [r \in Requests |-> 1]
AllWellFormed == [r \in Requests |-> TRUE]
OneIdTwoPayloads ==
  [r \in Requests |-> [id |-> "0x101", payload |-> IF r = r1 THEN "p1" ELSE "p2"]]
=============================================================================
