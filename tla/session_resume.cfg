\* One operator, one case: a kill between the two steps that claim a case.
SPECIFICATION Spec
CONSTANTS
  Procs = {p1}
  N = 1
  MaxInvocations = 2
INVARIANTS
  ResumeContinues
CHECK_DEADLOCK FALSE
