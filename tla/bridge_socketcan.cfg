\* Two commands sharing a CAN id, real sockets that may fail, destruction at any time.
SPECIFICATION Spec
CONSTANTS
  r1 = r1
  r2 = r2
  r3 = r3
  NoRequest = NoRequest
  Requests = {r1, r2}
  Identity <- Apart
  Stamp <- EarlyStamps
  WellFormed <- AllWellFormed
  Frame <- OneIdTwoPayloads
  Ttl = 1
  Skew = 1
  Window = 4
  SendDelay = 0
  AckTimeout = 1
  Backoff = 0
  MaxRetries = 1
  AckModes = {"disabled", "socketcan"}
  MockPolicy = "success"
  MockAckDelay = 0
  MockMode = FALSE
  SocketFaults = TRUE
  MaxTime = 2
INVARIANTS
  OneTerminal
  EarlyAckKept
  AckIsGenuine
PROPERTIES
  QuietAfterEnd
