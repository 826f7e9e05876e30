CONSTANTS
  a = a
  b = b
  g = g
  Nodes = {a, b, g}
  NoNode = NoNode
  Scheds = {s1, s2}
  Calls = {c1}
  Needs <- ChainNeeds
  Type <- GateTypes
  Rule <- AllSuccess
  When <- AlwaysRun
  Then <- NoBranches
  Else <- NoBranches
  Halts = {a, b, g}
  Structured = {}
  Retryable = {}
  Preflight = {"ok"}
  Ops = {"cancel", "approve", "reject"}
  MaxTime = 2
  MaxCrash = 1
SPECIFICATION FairSpec
INVARIANTS TypeOK RunsOnlyAfterSuccess
PROPERTIES CanceledIsFinal ImplementsLifecycle EventuallyRests
CHECK_DEADLOCK FALSE
