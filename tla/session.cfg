\* Two processes, three invocations and two cases, killed and changed at any step.
SPECIFICATION Spec
CONSTANTS
  Procs = {p1, p2}
  N = 2
  MaxInvocations = 3
INVARIANTS
  ExecutedOnce
PROPERTIES
  TerminalKept
  CompleteIsTrue
  ManifestFrozen
CHECK_DEADLOCK FALSE
