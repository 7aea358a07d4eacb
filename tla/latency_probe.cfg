\* Two commands whose messages are repeated and reordered, with less, as much and
\* more capacity than commands.
SPECIFICATION Spec
CONSTANTS
  Keys = {k1, k2}
  Times = {1, 2}
  Capacities = {1, 2, 3}
  MaxMessages = 6
INVARIANTS
  SampledOnce
  NoPairMissed
CHECK_DEADLOCK FALSE
