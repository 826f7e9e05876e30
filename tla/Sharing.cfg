\* Each part by itself.
SPECIFICATION PartsSpec
CONSTANTS
  \* epoch keys: two processes, two subjects
  EpochProcs = {1, 2}
  Subjects = {"user", "team"}
  MaxKeys = 4
  \* sharing them: two devices, five commands
  Devices = {1, 2}
  FirstDevice = 1
  MaxUserEpoch = 3
  MaxTeamEpoch = 2
  MaxCommands = 5
  \* grants: two recipients, two syncs at a time, one revocation
  GrantMembers = {"u", "t"}
  First = "t"
  Pulling = {"u"}
  BadPins = {}
  Syncs = {1, 2}
  MaxSyncs = 2
  MaxQueued = 2
  MaxRotations = 1
  MaxPulls = 2
  \* candidates: two edges, one candidate, three pulls
  ReviewEdges = {1, 2}
  Proposals = {"c"}
  Proposer = 1
  Syncers <- OnePerEdge
  MaxDirect = 1
  MaxRulings = 1
  MaxRounds = 3
  MaxLeft = 1
  \* plans: two sends of two proposals
  Saves = {1, 2}
  Proposed = {"p", "q"}
  Foreign = 0
  Opener = 9
  PlanEvents <- SeenEvents
  GrantRequests <- PlanRequests
  MaxAsked = 1
  \* contracts: two commands at a time, one child read, two providers a file
  ChildRepos = {1, 2}
  MaxChildConfigs = 1
  MaxListed = 2
  Attachables <- AttachWhat
  AttachOptions <- AttachHow
  Attachers = {1, 2}
  InitialFiles <- ContractLayouts
  MaxAttaches = 2
  \* context: one source, two attempts
  Sources = {"a"}
  ContextRequests <- AskedContext
  MaxContextTries = 2
  \* clients: one, two sessions, a ring of two
  Viewers = {1}
  Streams = {"s", "t"}
  MaxViewers = 1
  RingSize = 2
  MaxSubscriptions = 1
  MaxUpdates <- OneStreams
  MaxOpen = 1
  \* pages: six messages, answers of two
  MaxMessages = 6
  MessageSizes = {1, 3, 5}
  PageLimits = {1, 2}
  AckLimit = 2
VIEW Stepping
INVARIANTS SharingTypesOK  ContextShared ContextHolds 
\* Commands, requests, pulls and messages run out.
CHECK_DEADLOCK FALSE
