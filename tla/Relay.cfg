SPECIFICATION RelaySpec
CONSTANTS
  \* the bridge: four names for socket pairs, three faults, a breaker of two
  \* failures
  Pairs = {p1, p2, p3, p4}
  NoPair = NoPair
  Threshold = 2
  MaxBridgeFaults = 3
  \* the relays: two with a client each; the daemon connects twice
  r1 = r1  r2 = r2  c1 = c1  c2 = c2
  Relays = {r1, r2}
  Clients = {c1, c2}
  Home <- Apart
  None = None
  Track = 1
  QueueMax = 1
  Window = 1
  RotateAfter = 1
  MaxSessions = 1
  MaxRequests = 2
  MaxSeq = 2
  MaxSends = 1
  MaxTokens = 2
  MaxFaults = 1
INVARIANTS BridgeHolds FramesHold SlotIsDaemons
 
\* The bridge may be stopped for good.
CHECK_DEADLOCK FALSE
