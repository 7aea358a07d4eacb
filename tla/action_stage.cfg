\* A cancel arriving inside the failure path of execute_goal.
SPECIFICATION Spec
CONSTANTS
  Goals = {g1}
  Work = 4
  Period = 2
  Timeouts = {0, 3, 5}
  MaxAge = 7
INVARIANTS
  StageMatchesEvent
CHECK_DEADLOCK FALSE
