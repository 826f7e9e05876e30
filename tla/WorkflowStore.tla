---------------------------- MODULE WorkflowStore ----------------------------
(***************************************************************************)
(* The persisted record of one workflow run and the rule by which          *)
(* WorkflowRunStore merges a snapshot into it (workflows/store.ts).        *)
(*                                                                         *)
(* A record keeps, of a WorkflowRunRecord, what the scheduler, the         *)
(* canceler, the resumer and the approval path tell apart: the run status  *)
(* and completedAt, and for every node its status, completedAt, whether a  *)
(* session id is recorded and whether its approval was granted.  0 stands  *)
(* for an absent completedAt, as in the code's (completedAt ?? 0).         *)
(***************************************************************************)
EXTENDS Naturals

CONSTANT Nodes        \* the node ids of the workflow definition

RunStatuses  == {"queued", "running", "blocked", "completed", "failed", "canceled"}
NodeStatuses == {"queued", "running", "blocked", "completed", "failed", "skipped", "canceled"}

\* isTerminalRunStatus and isTerminalNodeStatus.
RunTerminal(status)  == status \in {"completed", "failed", "canceled"}
NodeTerminal(status) == status \in {"completed", "failed", "skipped", "canceled"}

NodeStates == [st : NodeStatuses, at : Nat, sid : BOOLEAN, ok : BOOLEAN]
RunRecords == [status : RunStatuses, at : Nat, node : [Nodes -> NodeStates]]

\* The record startRun saves: everything queued, nothing stamped.
NewRun == [status |-> "queued",
           at     |-> 0,
           node   |-> [n \in Nodes |-> [st |-> "queued", at |-> 0, sid |-> FALSE, ok |-> FALSE]]]

AllDone(run) == \A n \in Nodes : NodeTerminal(run.node[n].st)

-----------------------------------------------------------------------------
\* Variants a bug could introduce: only a cancellation is protected, or a
\* cancellation is no more protected than another end.
PreserveNodeIfCanceled(snap, existing) == existing.st = "canceled" /\ snap.st # "canceled"
PreserveRunIfCanceled(snap, existing) == existing.status = "canceled" /\ snap.status # "canceled"
PreserveRunIfLater(snap, existing) ==
    RunTerminal(existing.status) /\ (~RunTerminal(snap.status) \/ existing.at > snap.at)

\* shouldPreserveExistingNode: does the node on disk win over the snapshot's?
PreserveNode(snap, existing) ==
    /\ NodeTerminal(existing.st)
    /\ \/ existing.st = "canceled" /\ snap.st # "canceled"
       \/ ~NodeTerminal(snap.st)
       \/ existing.at > snap.at

\* mergeExistingTerminalRun: the same question for status and completedAt.
PreserveRun(snap, existing) ==
    /\ RunTerminal(existing.status)
    /\ \/ existing.status = "canceled" /\ snap.status # "canceled"
       \/ ~RunTerminal(snap.status)
       \/ existing.at > snap.at

\* mergeExistingRun: what a save of snap leaves on disk.
Merge(snap, existing) ==
    [status |-> IF PreserveRun(snap, existing) THEN existing.status ELSE snap.status,
     at     |-> IF PreserveRun(snap, existing) THEN existing.at ELSE snap.at,
     node   |-> [n \in Nodes |-> IF PreserveNode(snap.node[n], existing.node[n])
                                 THEN existing.node[n]
                                 ELSE snap.node[n]]]
=============================================================================
