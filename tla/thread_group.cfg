\* Three workers, the owner closing at any time.
SPECIFICATION FairSpec
CONSTANTS
  Threads = {t1, t2, t3}
  Owner = Owner
  Nobody = Nobody
INVARIANTS
  ClosedIsEmpty
  JoinsOnlyOthers
PROPERTIES
  RetainedInFlight
  CloseCompletes
