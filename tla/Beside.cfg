CONSTANTS
  a = a
  b = b
  g = g
  Nodes = {a, b, g}
  NoNode = NoNode
  Scheds = {s1, s2}
  Calls = {c1}
  Needs <- BesideNeeds
  Type <- BesideTypes
  Rule <- AllSuccess
  When <- AlwaysRun
  Then <- NoBranches
  Else <- NoBranches
  Halts = {a, b, g}
  Structured = {}
  Retryable = {}
  Preflight = {"ok"}
  Ops = {"approve"}
  MaxTime = 2
  MaxCrash = 0
SPECIFICATION Spec
INVARIANTS BlockedRunHasWaiter
CHECK_DEADLOCK FALSE
