----------------------------- MODULE RunLifecycle -----------------------------
(***************************************************************************)
(* What a reader of a workflow run's record may rely on, whoever writes it *)
(* and however stale the copies they write back are: the set of nodes that *)
(* are done only grows, a run that ended stays ended, a canceled run stays *)
(* canceled, and a run is completed only when all its nodes are done.      *)
(*                                                                         *)
(* A run that ended as completed or failed may still be corrected to       *)
(* another end: the store lets the later completedAt win.                  *)
(***************************************************************************)
EXTENDS WorkflowStore

VARIABLES status,   \* the run's status on disk
          done      \* the nodes whose status on disk is terminal

LifecycleInit ==
    /\ status = "queued"
    /\ done = {}

\* Nodes finish, or not; the run stays open.
Proceed ==
    /\ ~RunTerminal(status)
    /\ done' \in SUBSET Nodes /\ done \subseteq done'
    /\ status' \in {"queued", "running", "blocked"}

\* The run ends, or its end is corrected; a canceled run is never corrected.
End ==
    /\ done' \in SUBSET Nodes /\ done \subseteq done'
    /\ status' \in {"completed", "failed", "canceled"}
    /\ status = "canceled" => status' = "canceled"
    /\ status' = "completed" => done' = Nodes

LifecycleNext == Proceed \/ End

LifecycleSpec == LifecycleInit /\ [][LifecycleNext]_<<status, done>>
=============================================================================
