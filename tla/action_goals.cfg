\* One goal without a timeout, with one inside the work and with one after it.
SPECIFICATION FairSpec
CONSTANTS
  Goals = {g1}
  Work = 4
  Period = 2
  Timeouts = {0, 3, 5}
  MaxAge = 7
INVARIANTS
  SuccessInTime
  CancelHonoured
PROPERTIES
  GoalAnswered
CHECK_DEADLOCK FALSE
