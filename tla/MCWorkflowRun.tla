---------------------------- MODULE MCWorkflowRun ----------------------------
(***************************************************************************)
(* Workflow definitions on which TLC checks WorkflowRun.                   *)
(***************************************************************************)
EXTENDS WorkflowRun, TLC

CONSTANTS a, b, g

\* A shell node a, then the approval gate g, then a shell node b.
ChainNeeds == (a :> {}) @@ (g :> {a}) @@ (b :> {g})
GateTypes  == (a :> "shell") @@ (g :> "approval") @@ (b :> "shell")

\* A prompt a beside a shell node b, joined by g.
JoinNeeds   == (a :> {}) @@ (b :> {}) @@ (g :> {a, b})
PromptTypes == (a :> "prompt") @@ (b :> "agent") @@ (g :> "shell")
JoinRule    == (a :> "all_success") @@ (b :> "all_success") @@ (g :> "all_done")
JoinWhen    == (a :> {"true"}) @@ (b :> {"true"}) @@ (g :> {"true", "false", "throws"})

\* A condition g that selects between the action a and the plan b.
BranchNeeds == (g :> {}) @@ (a :> {g}) @@ (b :> {g})
BranchTypes == (g :> "condition") @@ (a :> "action") @@ (b :> "plan")
BranchThen  == (g :> {a}) @@ (a :> {}) @@ (b :> {})
BranchElse  == (g :> {}) @@ (a :> {}) @@ (b :> {})

\* An approval gate g beside a shell node a, joined by the publication b.
BesideNeeds == (a :> {}) @@ (g :> {}) @@ (b :> {a, g})
BesideTypes == (a :> "shell") @@ (g :> "approval") @@ (b :> "git_publish")

\* Two approval gates side by side.
TwoGatesTypes == (a :> "approval") @@ (g :> "approval") @@ (b :> "shell")

AllSuccess == [n \in Nodes |-> "all_success"]
AlwaysRun  == [n \in Nodes |-> {"true"}]
NoBranches == [n \in Nodes |-> {}]

Symmetry == Permutations(Scheds) \cup Permutations(Calls)
=============================================================================
