--------------------------- MODULE PlannerLaunch ---------------------------
(***************************************************************************)
(* The primary planner as ai_runtime.launch.py starts it: the argument     *)
(* planner_implementation chooses the Python node or the C++ node, which   *)
(* have the same name and topics.  The variables of Planner are those of   *)
(* whichever runs.                                                         *)
(***************************************************************************)
EXTENDS Planner

CONSTANTS
  MaxInt,                              \* the largest int64
  CppBackends,                         \* what the C++ node is asked for
  CppStamp, CppSkew, CppWindow, CppTime  \* frames and settings that bring its clock near MaxInt

VARIABLES implementation, exact   \* exact is a history of CppPlanner

Cpp == INSTANCE CppPlanner WITH
  Requested <- CppBackends, Stamp <- CppStamp, Skew <- CppSkew,
  Window <- CppWindow, MaxTime <- CppTime

ASSUME CppAssumption == Cpp!Startable /\ Cpp!Representable

launchVars == <<vars, implementation, exact>>

-----------------------------------------------------------------------------
\* IfCondition of the two Node actions.
Launches(i) == implementation = i

\* The C++ node has no recording.
PythonOnly == <<loaded, rows, file>>

LaunchInit ==
  \/ implementation = "python" /\ Init /\ exact = NothingAdmitted
  \/ implementation = "cpp" /\ Cpp!Init /\ loaded = << >> /\ rows = << >> /\ file = "whole"

LaunchNext ==
  \/ Launches("python") /\ Next /\ UNCHANGED <<implementation, exact>>
  \/ Launches("cpp") /\ Cpp!Next /\ UNCHANGED <<implementation, PythonOnly>>

LaunchHandle(f) ==
  \/ Launches("python") /\ Handle(f) /\ UNCHANGED <<implementation, exact>>
  \/ Launches("cpp") /\ Cpp!Handle(f) /\ UNCHANGED <<implementation, PythonOnly>>

\* The executor's thread of either node runs on; the controlled delays are
\* finite, the mock returns, and the backend call does (llm_timeout_s).
LaunchSpec == /\ LaunchInit /\ [][LaunchNext]_launchVars
              /\ \A f \in Frames : WF_launchVars(LaunchHandle(f))

-----------------------------------------------------------------------------
\* Each step of the C++ node, whatever frames it gets, late, early, repeated or
\* far in the future, is one that the Python node could take, failures and
\* storms included: where its integers saturate, no verdict changes.  (Its
\* README calls it the runtime replacement of the Python node.)
AgreesWithPython == [][Launches("cpp") => Cpp!LikePython]_launchVars
=============================================================================
