CONSTANTS
  a = a
  b = b
  g = g
  Nodes = {a, b, g}
  NoNode = NoNode
  Scheds = {s1}
  Calls = {c1}
  Needs <- JoinNeeds
  Type <- PromptTypes
  Rule <- JoinRule
  When <- JoinWhen
  Then <- NoBranches
  Else <- NoBranches
  Halts = {a, b, g}
  Structured = {b}
  Retryable = {a}
  Preflight = {"ok", "issues", "throws"}
  Ops = {"cancel", "touch", "reconcile"}
  MaxTime = 1
  MaxCrash = 1
SPECIFICATION Spec
INVARIANTS StartsAfterNeeds CompletedMeansAllDone  EndsRight
PROPERTIES TerminalNeverReopens
CHECK_DEADLOCK FALSE
