\* A command delivered twice and once re-stamped, on a working bus or with mock ACKs
\* of which the first is dropped.
SPECIFICATION FairSpec
CONSTANTS
  r1 = r1
  r2 = r2
  r3 = r3
  NoRequest = NoRequest
  Requests = {r1, r2, r3}
  Identity <- Repeats
  Stamp <- RepeatStamps
  WellFormed <- AllWellFormed
  Frame <- OneIdTwoPayloads
  Ttl = 2
  Skew = 0
  Window = 3
  SendDelay = 0
  AckTimeout = 1
  Backoff = 1
  MaxRetries = 1
  AckModes = {"mock", "socketcan"}
  MockPolicy = "drop_first"
  MockAckDelay = 0
  MockMode = FALSE
  SocketFaults = FALSE
  MaxTime = 4
INVARIANTS
  AdmissionsSpaced
  AdmittedOnce
  ExactlyOneTimer
  SendsFitLifetime
PROPERTIES
  KeepsPromise
  ShutdownCompletes
