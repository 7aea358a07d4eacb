\* A frame delivered twice and a later one of the same scene, over two sessions
\* of the Python node or of the C++ node, the clock of which comes near MaxInt.
SPECIFICATION LaunchSpec
CONSTANTS
  f1 = f1
  f2 = f2
  f3 = f3
  NoFrame = NoFrame
  Frames = {f1, f2, f3}
  Key <- Repeats
  Stamp <- Stamps
  Named <- AllNamed
  Input <- OneScene
  Ttl = 2
  Skew = 1
  Window = 1
  FailureWindow = 2
  MaxFailures = 2
  Backends = {"llm", "replay"}
  ValidDecisions = {"forward"}
  InvalidDecisions = {"unbounded"}
  RecordFaults = TRUE
  MaxSessions = 2
  MaxTime = 4
  MaxInt = 6
  CppBackends = {"mock", "llm"}
  CppStamp <- LateStamps
  CppSkew = 2
  CppWindow = 6
  CppTime = 5
INVARIANTS
  PlannedOnce
  StormExact
  ReplayFaithful
PROPERTIES
  FrameAnswered
  AgreesWithPython
CHECK_DEADLOCK FALSE
