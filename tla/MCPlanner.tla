----------------------------- MODULE MCPlanner -----------------------------
(* An instance of PlannerLaunch for TLC. *)
EXTENDS PlannerLaunch

CONSTANTS f1, f2, f3   \* three deliveries

\* f2 repeats f1; f3 is a later frame of the same scene.
Repeats == [f \in Frames |-> IF f = f3 THEN "id3" ELSE "id1"]
Stamps == [f \in Frames |-> IF f = f3 THEN 3 ELSE 1]
\* For the C++ node it is stamped so late that its deadline saturates.
LateStamps == [f \in Frames |-> IF f = f3 THEN 6 ELSE 1]
AllNamed == [f \in Frames |-> TRUE]
OneScene == [f \in Frames |-> "scene"]
=============================================================================
