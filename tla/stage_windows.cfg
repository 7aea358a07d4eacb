\* Two frames, one planner thread, an undamaged capture: the probe of a planner
\* that waits for its next frame.
SPECIFICATION StageSpec
CONSTANTS
  NumFrames = 2
  Depth = 1
  Threads = {"t1"}
  MaxProbes = 1
  MaxRowFaults = 0
INVARIANTS
  WaitingIsBackground
CHECK_DEADLOCK FALSE
