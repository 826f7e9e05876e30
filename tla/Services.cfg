\* Each service by itself.
SPECIFICATION ServicesSpec
CONSTANTS
  \* presence: two relays, the daemon connects twice
  r1 = r1  r2 = r2
  Relays = {r1, r2}
  None = None
  MaxTokens = 2
  MaxPresenceFaults = 2
  \* sessions: one id started twice, one tool call
  SessionIds = {"a"}
  Tools = {"rm", "edit"}
  AutoTools = {}
  DenyTools = {"rm"}
  Calls = {1}
  MaxStarts = 2
  \* hooks: two sessions and clients, caps of one; rules and clients allow
  HookSessions = {"x", "y"}
  Watchers = {1, 2}
  Hooks = {1, 2}
  HookDecisions = {"allow"}
  MaxSupervised = 1
  MaxPending = 1
  \* platform sync: four saves
  MaxSaves = 4
  MaxRetries = 2
  \* the worker: two hosted runs, three claims
  HostedRuns = {1, 2}
  MaxLocal = 2
  MaxClaims = 3
  \* the supervisor: three workers
  MaxSpawns = 3
  \* the turns: three prompts
  MaxTurns = 3
  \* the handshake: two exchanges, two answers
  MaxExchanges = 2
  MaxAnswers = 2
  \* a node with processes: two children, two iterations, two attempts
  Children = {1, 2}
  LoopLimit = 2
  MaxAttempts = 2
  \* the worker's transport: two calls, two sockets
  MaxTransportCalls = 2
  MaxSockets = 2
  MaxReconnects = 2
  \* commands: two terminals, two supervisors
  Sups = {1, 2}
  Terminals = {1, 2}
  MaxTyped = 2
  MaxSupFaults = 1
INVARIANTS
  ServicesTypeOK OperatorsInControl NothingForgotten  TurnsOneByOne KeysAgree
  ProcessesUnderControl 
PROPERTY ServicesSettle
\* The services end: starts, commands, saves, claims and workers run out.
CHECK_DEADLOCK FALSE
