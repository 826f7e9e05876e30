\* Each store by itself.
SPECIFICATION StoresSpec
CONSTANTS
  \* the journal: one slot, three updates, a stop or an eviction
  MaxSize = 1
  MaxDurable = 1
  MaxPush = 3
  MaxUpsets = 1
  MaxAge = 1
  \* the context repository: two edges, four events, pages of one
  Edges = {1, 2}
  Owner = 1
  PullLimit = 1
  MaxEvents = 4
  MaxEpochs = 2
  \* pairing: two offers, two peers, two requests at a time
  Offers = {1, 2}
  Peers = {"p", "q"}
  Requests = {1, 2}
  MaxStoredOffers = 1
  MaxFailedRedeems = 2
  MaxBindings = 1
  MaxRestarts = 1
  \* the lock: three processes
  Processes = {1, 2, 3}
  \* actions: three nodes, one key
  ActionNodes = {"a", "b", "c"}
  ActionKeys = {"k"}
  KeyOf <- OneKey
  DigestOf <- TwoProposals
  NeedsApproval = {"b"}
  LooksFirst = {"c"}
  MaxTries <- OneRetries
  MaxActionCrashes = 1
  \* publication: two diffs that need review, three requests
  Diffs = {1, 2}
  Sensitive = {1, 2}
  Commands = {1}
  MaxAsked = 2
  \* the tailer: three changes of the file
  MaxInitial = 5
  MaxWrites = 3
  \* the transcript: three lines of two blocks, chunks smaller than a line
  Shapes <- HistoryShapes
  MaxLines = 3
  ChunkSize = 2
  MaxScan = 6
  MaxLine = 2
  PageLimits = {2}
  \* the watchers: two directories, three changes
  WatchDirs = {"p", "q"}
  MaxDirChanges = 3
  \* the definition: three nodes, the template of the last
  DefinitionNodes = {1, 2, 3}
  Subject = 3
  \* configuration: three commands, two servers
  Accounts <- ConfigAccounts
  FirstAccount <- PairedFirst
  ConfigDirs = {"d"}
  MaxConfigCommands = 3
  \* the worker's pairing: two commands at a time, two codes
  Pairers = {1, 2}
  MaxCodes = 2
  MaxWorkerKeys = 2
  PollAttempts = 2
  MaxWorkerCommands = 2
  \* hosted execution: two starts of a lease, two checks
  HandleNames = {"h"}
  Providers = {"openai", "anthropic"}
  OwnKeys = {"openai"}
  MaxChecks = 2
  MaxStarts = 2
  MaxLeases = 1
  \* tracking: two edits, the second too large, two steps, one commit
  MaxCommits = 1
  BigEdits = {2}
  MaxEdits = 2
  MaxSteps = 2
  MaxTrackAsked = 1
  MaxGitFaults = 1
VIEW Changing
INVARIANTS
  StoresTypeOK JournalFaithful VaultComplete OfferRedeemedOnce LockExclusive 
  ReviewHolds  AcceptedRunsBind ConfigHolds 
\* Pushes, offers, keys and processes run out.
CHECK_DEADLOCK FALSE
