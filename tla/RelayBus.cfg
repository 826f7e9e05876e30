\* The answer to a request that came over the bus.
SPECIFICATION RelaySpec
CONSTANTS
  Pairs = {p1}
  NoPair = NoPair
  Threshold = 1
  MaxBridgeFaults = 0
  r1 = r1  r2 = r2  c1 = c1  c2 = c2
  Relays = {r1, r2}
  Clients = {c1, c2}
  Home <- Apart
  None = None
  Track = 1
  QueueMax = 1
  Window = 1
  RotateAfter = 1
  MaxSessions = 1
  MaxRequests = 2
  MaxSeq = 0
  MaxSends = 0
  MaxTokens = 2
  MaxFaults = 0
PROPERTY RemoteAnswersForwarded
CHECK_DEADLOCK FALSE
