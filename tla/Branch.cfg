CONSTANTS
  a = a
  b = b
  g = g
  Nodes = {a, b, g}
  NoNode = NoNode
  Scheds = {s1, s2}
  Calls = {c1}
  Needs <- BranchNeeds
  Type <- BranchTypes
  Rule <- AllSuccess
  When <- AlwaysRun
  Then <- BranchThen
  Else <- BranchElse
  Halts = {a, b, g}
  Structured = {}
  Retryable = {}
  Preflight = {"ok"}
  Ops = {"approve", "revise", "broker"}
  MaxTime = 1
  MaxCrash = 0
SPECIFICATION Spec
INVARIANTS Consistent
CHECK_DEADLOCK FALSE
SYMMETRY Symmetry
