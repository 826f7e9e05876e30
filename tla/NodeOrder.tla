----------------------------- MODULE NodeOrder ------------------------------
(***************************************************************************)
(* The order in which nodes that need each other are taken: in rounds, a   *)
(* node in the first round after all it needs (workflows/parser.ts,        *)
(* workflowNodeOrder; subflow-executor.ts, topologicalOrder).              *)
(***************************************************************************)
EXTENDS Integers, SequencesExt, FiniteSets

\* What has been taken after i rounds.
TakenBy(nodes, needs, i) ==
  LET after[n \in Nat] ==
        IF n = 0 THEN {}
        ELSE after[n - 1] \cup {m \in nodes : needs[m] \subseteq after[n - 1]}
  IN  after[i]

\* A round that takes nothing leaves the rest: "contains a dependency cycle".
Orderable(nodes, needs) == TakenBy(nodes, needs, Cardinality(nodes)) = nodes

Round(nodes, needs, m) ==
  CHOOSE i \in 1 .. Cardinality(nodes) :
    m \in TakenBy(nodes, needs, i) /\ m \notin TakenBy(nodes, needs, i - 1)

\* Within a round nodes are sorted; here they are numbers.
OrderOf(nodes, needs) ==
  SetToSortSeq(nodes, LAMBDA m, n :
    LET i == Round(nodes, needs, m)  j == Round(nodes, needs, n)
    IN  i < j \/ (i = j /\ m < n))
=============================================================================
