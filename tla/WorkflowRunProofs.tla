-------------------------- MODULE WorkflowRunProofs --------------------------
(***************************************************************************)
(* Theorems about WorkflowRun, for every workflow definition, any number   *)
(* of scheduler invocations and calls, and any bound: every variable keeps *)
(* its type, what has ended on disk stays ended, runs complete only when   *)
(* all their nodes are done, nodes start only after their needs, a run     *)
(* always offers something to run or to wait for, and the record of a run  *)
(* implements RunLifecycle.                                                *)
(***************************************************************************)
EXTENDS WorkflowRun, TLAPS

-----------------------------------------------------------------------------
(***************************************************************************)
(* What a save does, WorkflowStore!Merge                                   *)
(***************************************************************************)

\* A merge of two records is a record.
LEMMA MergeType ==
    ASSUME NEW snap \in RunRecords, NEW ex \in RunRecords
    PROVE  Merge(snap, ex) \in RunRecords
  BY DEF Merge, RunRecords, NodeStates

\* A merge keeps the run and every node of the record on disk terminal.
LEMMA MergeKeepsTerminal ==
    ASSUME NEW snap, NEW ex
    PROVE  /\ RunTerminal(ex.status) => RunTerminal(Merge(snap, ex).status)
           /\ \A n \in Nodes : NodeTerminal(ex.node[n].st)
                                 => NodeTerminal(Merge(snap, ex).node[n].st)
<1>1. RunTerminal(ex.status) => RunTerminal(Merge(snap, ex).status)
  BY DEF Merge, PreserveRun
<1>2. ASSUME NEW n \in Nodes, NodeTerminal(ex.node[n].st)
      PROVE  NodeTerminal(Merge(snap, ex).node[n].st)
  BY <1>2 DEF Merge, PreserveNode
<1> QED BY <1>1, <1>2

\* A merge keeps a canceled run and every canceled node canceled.
LEMMA MergeKeepsCanceled ==
    ASSUME NEW snap, NEW ex
    PROVE  /\ ex.status = "canceled" => Merge(snap, ex).status = "canceled"
           /\ \A n \in Nodes : ex.node[n].st = "canceled"
                                 => Merge(snap, ex).node[n].st = "canceled"
<1>1. ex.status = "canceled" => Merge(snap, ex).status = "canceled"
  BY DEF Merge, PreserveRun, RunTerminal
<1>2. ASSUME NEW n \in Nodes, ex.node[n].st = "canceled"
      PROVE  Merge(snap, ex).node[n].st = "canceled"
  BY <1>2 DEF Merge, PreserveNode, NodeTerminal
<1> QED BY <1>1, <1>2

\* A merge takes over every terminal node of the snapshot.
LEMMA MergeTakesTerminal ==
    ASSUME NEW snap, NEW ex
    PROVE  \A n \in Nodes : NodeTerminal(snap.node[n].st)
                              => NodeTerminal(Merge(snap, ex).node[n].st)
  BY DEF Merge, PreserveNode

-----------------------------------------------------------------------------
(***************************************************************************)
(* Types                                                                   *)
(***************************************************************************)

\* The record startRun saves is a record.
LEMMA NewRunType == NewRun \in RunRecords
  BY DEF NewRun, RunRecords, NodeStates, RunStatuses, NodeStatuses

\* An idle scheduler and an idle call have their types.
LEMMA IdleTypes == IdleSched \in SchedStates /\ IdleCall \in CallStates
  BY NewRunType DEF IdleSched, IdleCall, SchedStates, CallStates, NoTasks, PCs, TaskStates, CallOps

\* Setting one node's status and stamp keeps a record a record.
LEMMA SetNodeType ==
    ASSUME NEW run \in RunRecords, NEW n \in Nodes, NEW st \in NodeStatuses, NEW at \in Nat
    PROVE  SetNode(run, n, st, at) \in RunRecords
  BY DEF SetNode, RunRecords, NodeStates

\* Setting a run's status and completedAt gives a record.
LEMMA SetStatusType ==
    ASSUME NEW run \in RunRecords, NEW st \in RunStatuses, NEW at \in Nat
    PROVE  /\ [run EXCEPT !.status = st] \in RunRecords
           /\ [run EXCEPT !.status = st, !.at = at] \in RunRecords
  BY DEF RunRecords

\* markSkipped gives a record.
LEMMA SkippedType ==
    ASSUME NEW run \in RunRecords, NEW S, now \in Nat
    PROVE  Skipped(run, S) \in RunRecords
  BY DEF Skipped, RunRecords, NodeStates, NodeStatuses

\* A finished node and its skipped branch give a record.
LEMMA CompletedType ==
    ASSUME NEW run \in RunRecords, NEW n \in Nodes, NEW branch, now \in Nat
    PROVE  Completed(run, n, branch) \in RunRecords
<1>1. SetNode(run, n, "completed", now) \in RunRecords
  BY SetNodeType DEF NodeStatuses
<1> QED BY <1>1, SkippedType DEF Completed

\* The reconciler gives a record.
LEMMA RecoveredType ==
    ASSUME NEW run \in RunRecords, NEW F, now \in Nat
    PROVE  Recovered(run, F) \in RunRecords
<1> DEFINE stamp(at) == IF at = 0 THEN now ELSE at
           node == [n \in Nodes |->
                     CASE n \in F -> [run.node[n] EXCEPT !.st = "failed", !.at = now]
                       [] n \in Recoverable(run) \ F ->
                            [run.node[n] EXCEPT !.st = "completed", !.at = stamp(@)]
                       [] OTHER -> run.node[n]]
<1>1. ASSUME NEW n \in Nodes
      PROVE  /\ [run.node[n] EXCEPT !.st = "failed", !.at = now] \in NodeStates
             /\ [run.node[n] EXCEPT !.st = "completed", !.at = stamp(@)] \in NodeStates
             /\ run.node[n] \in NodeStates
  BY DEF RunRecords, NodeStates, NodeStatuses
<1>2. node \in [Nodes -> NodeStates]
  BY <1>1
<1>3. Recovered(run, F).node = node
  BY DEF Recovered
<1>4. Recovered(run, F).status \in RunStatuses /\ Recovered(run, F).at \in Nat
  BY DEF Recovered, RunRecords, RunStatuses
<1>5. Recovered(run, F) = [status |-> Recovered(run, F).status, at |-> Recovered(run, F).at,
                           node |-> Recovered(run, F).node]
  BY DEF Recovered
<1> HIDE DEF node
<1> QED BY <1>2, <1>3, <1>4, <1>5 DEF RunRecords

\* requireRun returns a record.
LEMMA ReadsType ==
    ASSUME TypeOK, NEW run \in Reads
    PROVE  run \in RunRecords
  BY RecoveredType DEF Reads, TypeOK

\* The resumer's requeueing gives a record.
LEMMA RequeuedType ==
    ASSUME NEW run \in RunRecords
    PROVE  Requeued(run) \in RunRecords
  BY DEF Requeued, RunRecords, NodeStates, NodeStatuses

\* cancelRun saves a record.
LEMMA CanceledRunType ==
    ASSUME NEW run \in RunRecords, NEW at \in Nat
    PROVE  CanceledRun(run, at) \in RunRecords
  BY DEF CanceledRun, RunRecords, NodeStates, NodeStatuses, RunStatuses

\* Replacing a run's status and one of its nodes keeps a record a record.
LEMMA WithNodeType ==
    ASSUME NEW run \in RunRecords, NEW n \in Nodes, NEW new \in NodeStates,
           NEW st \in RunStatuses
    PROVE  /\ [run EXCEPT !.status = st, !.node[n] = new] \in RunRecords
           /\ [run EXCEPT !.node[n] = new] \in RunRecords
  BY DEF RunRecords

\* decideApproval saves a record when it grants.
LEMMA ApprovedRunType ==
    ASSUME NEW run \in RunRecords, NEW n \in Nodes, NEW at \in Nat
    PROVE  ApprovedRun(run, n, at) \in RunRecords
<1> DEFINE again == Type[n] \in {"action", "git_publish"}
           st == IF again THEN "queued" ELSE "completed"
           stamp == IF again THEN 0 ELSE at
           new == [run.node[n] EXCEPT !.st = st, !.at = stamp, !.ok = TRUE]
<1>1. st \in NodeStatuses /\ stamp \in Nat
  BY DEF NodeStatuses
<1>2. ApprovedRun(run, n, at) = [run EXCEPT !.status = "running", !.node[n] = new]
  BY DEF ApprovedRun, RunRecords
<1> HIDE DEF st, stamp
<1>3. new \in NodeStates
  BY <1>1 DEF RunRecords, NodeStates
<1> HIDE DEF new
<1>4. "running" \in RunStatuses
  BY DEF RunStatuses
<1>5. [run EXCEPT !.status = "running", !.node[n] = new] \in RunRecords
  BY <1>3, <1>4, WithNodeType
<1> QED BY <1>2, <1>5

\* The single-field updates of a node that executors and calls make.
LEMMA NodeFieldTypes ==
    ASSUME NEW run \in RunRecords, NEW n \in Nodes, NEW st \in NodeStatuses
    PROVE  /\ [run EXCEPT !.node[n].st = st] \in RunRecords
           /\ [run EXCEPT !.node[n].sid = TRUE] \in RunRecords
           /\ [run EXCEPT !.node[n] = [@ EXCEPT !.st = st, !.sid = TRUE]] \in RunRecords
  BY DEF RunRecords, NodeStates

\* blockForApproval and the end of a plan revision keep a record a record.
LEMMA BlockedType ==
    ASSUME NEW run \in RunRecords, NEW n \in Nodes
    PROVE  /\ [run EXCEPT !.status = "blocked",
                          !.node[n] = [@ EXCEPT !.st = "blocked", !.ok = FALSE]] \in RunRecords
           /\ [run EXCEPT !.status = "blocked", !.node[n].st = "blocked"] \in RunRecords
<1>1. "blocked" \in RunStatuses
  BY DEF RunStatuses
<1>2. [run.node[n] EXCEPT !.st = "blocked", !.ok = FALSE] \in NodeStates
  BY DEF RunRecords, NodeStates, NodeStatuses
<1>3. [run.node[n] EXCEPT !.st = "blocked"] \in NodeStates
  BY DEF RunRecords, NodeStates, NodeStatuses
<1>4. [run EXCEPT !.status = "blocked", !.node[n] = [run.node[n] EXCEPT !.st = "blocked", !.ok = FALSE]]
        \in RunRecords
  BY <1>1, <1>2, WithNodeType
<1>5. [run EXCEPT !.status = "blocked", !.node[n] = [run.node[n] EXCEPT !.st = "blocked"]]
        \in RunRecords
  BY <1>1, <1>3, WithNodeType
<1> QED BY <1>4, <1>5 DEF RunRecords

\* Marking the nodes of a layer running keeps a record a record.
LEMMA LaunchedType ==
    ASSUME NEW run \in RunRecords, NEW layer
    PROVE  [run EXCEPT !.node = [n \in Nodes |->
              IF n \in layer THEN [@[n] EXCEPT !.st = "running"] ELSE @[n]]] \in RunRecords
  BY DEF RunRecords, NodeStates, NodeStatuses

\* A save and a read leave a record on disk and a run status published.
LEMMA SaveType ==
    ASSUME TypeOK, NEW run \in RunRecords, SaveAndEmit(run) \/ SaveOnly(run)
    PROVE  disk' \in RunRecords /\ published' \in RunStatuses
<1>1. disk' = Merge(run, disk) /\ published' \in {run.status, published}
  BY DEF SaveAndEmit, SaveOnly
<1>2. disk \in RunRecords /\ published \in RunStatuses /\ run.status \in RunStatuses
  BY DEF TypeOK, RunRecords
<1> QED BY <1>1, <1>2, MergeType

\* A step that reads through requireRun keeps the disk typed.
LEMMA ReadType ==
    ASSUME TypeOK, NEW run, RequireRun(run)
    PROVE  run \in RunRecords /\ disk' \in RunRecords /\ published' \in RunStatuses
<1>1. run \in RunRecords
  BY ReadsType DEF RequireRun
<1>2. disk' = Merge(run, disk) /\ published' \in {run.status, published}
  BY DEF RequireRun
<1>3. disk \in RunRecords /\ published \in RunStatuses /\ run.status \in RunStatuses
  BY <1>1 DEF TypeOK, RunRecords
<1> QED BY <1>1, <1>2, <1>3, MergeType

\* The control moves of a scheduler keep sched well typed.
LEMMA GotoType ==
    ASSUME TypeOK, NEW s \in Scheds, NEW pc \in PCs, NEW run \in RunRecords, Goto(s, pc, run)
    PROVE  sched' \in [Scheds -> SchedStates]
  BY DEF TypeOK, Goto, SchedStates

\* Replacing one scheduler's state by a typed one keeps sched typed.
LEMMA SchedSetType ==
    ASSUME TypeOK, NEW s \in Scheds, NEW x \in SchedStates, sched' = [sched EXCEPT ![s] = x]
    PROVE  sched' \in [Scheds -> SchedStates]
  BY DEF TypeOK

\* Leaving scheduler.run, normally or by an exception, keeps sched typed.
LEMMA ExitType ==
    ASSUME TypeOK, NEW s \in Scheds, Exit(s) \/ Throw(s)
    PROVE  sched' \in [Scheds -> SchedStates] /\ active' \in BOOLEAN
<1>1. [IdleSched EXCEPT !.pc = "throw"] \in SchedStates
  BY IdleTypes DEF SchedStates, PCs
<1> QED BY <1>1, IdleTypes, SchedSetType DEF Exit, Throw

\* Starting a scheduler keeps sched typed.
LEMMA SpawnType ==
    ASSUME TypeOK, Spawn
    PROVE  sched' \in [Scheds -> SchedStates]
  BY DEF TypeOK, Spawn, SchedStates, PCs

\* An executor's step keeps sched typed.
LEMMA TaskMovesType ==
    ASSUME TypeOK, NEW s \in Scheds, NEW n \in Nodes, NEW to \in TaskStates,
           NEW run \in RunRecords, TaskMoves(s, n, to, run)
    PROVE  sched' \in [Scheds -> SchedStates]
  BY DEF TypeOK, TaskMoves, SchedStates

\* The typing of call, as one predicate.
CallType == /\ call \in [Calls -> CallStates]
            /\ \A c \in Calls : call[c].op \in NodeOps => call[c].node \in Nodes

\* Beginning a runner call keeps call typed.
LEMMA BeginType ==
    ASSUME TypeOK, NEW c \in Calls, NEW op \in CallOps, NEW run \in RunRecords,
           NEW n \in Nodes \cup {NoNode}, op \in NodeOps => n \in Nodes, Begin(c, op, run, n)
    PROVE  CallType'
  BY DEF TypeOK, CallType, Begin, CallStates

\* Ending a runner call keeps call typed.
LEMMA EndCallType ==
    ASSUME TypeOK, NEW c \in Calls, EndCall(c)
    PROVE  CallType'
<1>1. IdleCall \in CallStates /\ IdleCall.op \notin NodeOps
  BY IdleTypes DEF IdleCall, NodeOps
<1> QED BY <1>1 DEF TypeOK, CallType, EndCall

\* Scheduler steps keep the types.
LEMMA SchedTypes ==
    ASSUME TypeOK, NEW s \in Scheds, SchedNext(s)
    PROVE  TypeOK'
<1> USE DEF TypeOK
<1>m. sched[s].mem \in RunRecords /\ sched[s].layer \subseteq Nodes /\ sched[s] \in SchedStates
  BY DEF SchedStates
<1>n. now \in Nat /\ disk \in RunRecords
  OBVIOUS
<1>p. /\ "begin" \in PCs /\ "loop" \in PCs /\ "skip" \in PCs /\ "launch" \in PCs
      /\ "exec" \in PCs /\ "settled" \in PCs /\ "decide" \in PCs /\ "halt" \in PCs
      /\ "complete" \in PCs /\ "finish" \in PCs /\ "fail" \in PCs /\ "idle" \in PCs
  BY DEF PCs
<1>s. /\ "running" \in RunStatuses /\ "blocked" \in RunStatuses
      /\ "completed" \in RunStatuses /\ "failed" \in RunStatuses
  BY DEF RunStatuses
<1>i. /\ IdleSched \in SchedStates
      /\ [IdleSched EXCEPT !.pc = "loop"] \in SchedStates
  BY IdleTypes, <1>p DEF SchedStates
<1>1. CASE SchedBoot(s)
  BY <1>1, <1>m, <1>p, GotoType DEF SchedBoot
<1>2. CASE SchedBegin(s)
  <2>1. [sched[s].mem EXCEPT !.status = "running"] \in RunRecords
    BY <1>m, <1>s DEF RunRecords
  <2>2. sched' \in [Scheds -> SchedStates]
    BY <1>2, <1>p, GotoType, NewRunType DEF SchedBegin
  <2> QED BY <1>2, <2>1, <2>2, SaveType DEF SchedBegin
<1>3. CASE SchedPreflightIssues(s)
  <2>1. [sched[s].mem EXCEPT !.status = "blocked", !.at = now] \in RunRecords
    BY <1>m, <1>n, <1>s, SetStatusType
  <2> QED BY <1>3, <2>1, SaveType, ExitType DEF SchedPreflightIssues
<1>4. CASE SchedPreflightThrows(s)
  BY <1>4, ExitType DEF SchedPreflightThrows
<1>5. CASE SchedStop(s)
  BY <1>5, ReadType, ExitType DEF SchedStop
<1>6. CASE SchedParked(s)
  BY <1>6, ReadType, ExitType DEF SchedParked
<1>7. CASE SchedWaitsTooLong(s)
  BY <1>7, ReadType, ExitType DEF SchedWaitsTooLong
<1>8. CASE SchedGuardThrows(s)
  BY <1>8, ReadType, ExitType DEF SchedGuardThrows
<1>9. CASE SchedDecideBlocked(s)
  BY <1>9, ReadType, ExitType DEF SchedDecideBlocked
<1>10. CASE SchedNotCompleted(s)
  BY <1>10, ReadType, ExitType DEF SchedNotCompleted
<1>11. CASE SchedDrained(s)
  BY <1>11, <1>p, ReadType, GotoType, NewRunType DEF SchedDrained
<1>12. CASE SchedWait(s)
  BY <1>12, ReadType DEF SchedWait
<1>13. CASE SchedLayer(s)
  <2>0. PICK run \in Reads :
              /\ RequireRun(run)
              /\ \E S \in SkipChoices(run) : sched' = [sched EXCEPT ![s] =
                            [pc |-> IF S = {} THEN "launch" ELSE "skip",
                             mem |-> Skipped(run, S), layer |-> Ready(run) \ S, task |-> NoTasks]]
    BY <1>13 DEF SchedLayer
  <2>1. PICK S \in SkipChoices(run) :
              sched' = [sched EXCEPT ![s] =
                            [pc |-> IF S = {} THEN "launch" ELSE "skip",
                             mem |-> Skipped(run, S), layer |-> Ready(run) \ S, task |-> NoTasks]]
    BY <2>0
  <2>2. run \in RunRecords /\ disk' \in RunRecords /\ published' \in RunStatuses
    BY <2>0, ReadType
  <2>3. Skipped(run, S) \in RunRecords
    BY <2>2, <1>n, SkippedType
  <2>4. NoTasks \in [Nodes -> TaskStates] /\ Ready(run) \ S \in SUBSET Nodes
    BY DEF NoTasks, TaskStates, Ready
  <2>5. [pc |-> IF S = {} THEN "launch" ELSE "skip", mem |-> Skipped(run, S),
         layer |-> Ready(run) \ S, task |-> NoTasks] \in SchedStates
    BY <2>3, <2>4, <1>p DEF SchedStates
  <2>6. sched' \in [Scheds -> SchedStates]
    BY <2>1, <2>5, SchedSetType
  <2> QED BY <1>13, <2>2, <2>6 DEF SchedLayer
<1>14. CASE SchedSaveSkips(s)
  <2>1. sched' \in [Scheds -> SchedStates]
    BY <1>14, <1>m, <1>p, GotoType, NewRunType DEF SchedSaveSkips
  <2> QED BY <1>14, <2>1, <1>m, SaveType DEF SchedSaveSkips
<1>15. CASE SchedLaunch(s)
  <2> DEFINE run == [sched[s].mem EXCEPT !.node = [n \in Nodes |->
                       IF n \in sched[s].layer THEN [@[n] EXCEPT !.st = "running"] ELSE @[n]]]
             task == [n \in Nodes |-> IF n \in sched[s].layer THEN "work" ELSE "none"]
  <2>1. run \in RunRecords
    BY <1>m, LaunchedType
  <2>2. task \in [Nodes -> TaskStates]
    BY DEF TaskStates
  <2>3. /\ SaveAndEmit(run)
        /\ sched' = [sched EXCEPT ![s].pc = "exec", ![s].mem = run, ![s].task = task]
    BY <1>15 DEF SchedLaunch
  <2> HIDE DEF run, task
  <2>4. sched' \in [Scheds -> SchedStates]
    BY <2>1, <2>2, <2>3, <1>p DEF SchedStates
  <2> QED BY <1>15, <2>1, <2>3, <2>4, SaveType DEF SchedLaunch
<1>16. CASE SchedSettle(s)
  BY <1>16, <1>p, ReadType, GotoType DEF SchedSettle
<1>17. CASE SchedSaveSettled(s)
  <2>1. sched' \in [Scheds -> SchedStates]
    BY <1>17, <1>p, GotoType, NewRunType DEF SchedSaveSettled
  <2> QED BY <1>17, <2>1, <1>m, SaveType DEF SchedSaveSettled
<1>18. CASE SchedInvalidOutput(s)
  <2>1. PICK n \in sched[s].layer : SaveAndEmit([sched[s].mem EXCEPT !.node[n].st = "failed"])
    BY <1>18 DEF SchedInvalidOutput
  <2>2. "failed" \in NodeStatuses /\ n \in Nodes
    BY <1>m DEF NodeStatuses
  <2>3. [sched[s].mem EXCEPT !.node[n].st = "failed"] \in RunRecords
    BY <1>m, <2>2, NodeFieldTypes
  <2> QED BY <1>18, <2>1, <2>3, SaveType, ExitType DEF SchedInvalidOutput
<1>19. CASE SchedDecideHalt(s)
  BY <1>19, <1>p, ReadType, GotoType DEF SchedDecideHalt
<1>20. CASE SchedDecideNext(s)
  BY <1>20, <1>i, ReadType, SchedSetType DEF SchedDecideNext
<1>21. CASE SchedHalt(s)
  <2>1. [sched[s].mem EXCEPT !.status = "failed", !.at = now] \in RunRecords
    BY <1>m, <1>n, <1>s, SetStatusType
  <2> QED BY <1>21, <2>1, SaveType, ExitType DEF SchedHalt
<1>22. CASE SchedComplete(s)
  BY <1>22, <1>p, ReadType, GotoType DEF SchedComplete
<1>23. CASE SchedFinish(s)
  <2>1. [sched[s].mem EXCEPT !.status = "completed", !.at = now] \in RunRecords
    BY <1>m, <1>n, <1>s, SetStatusType
  <2> QED BY <1>23, <2>1, SaveType, ExitType DEF SchedFinish
<1>24. CASE FailRunRead(s)
  BY <1>24, <1>p, ReadType, GotoType, NewRunType DEF FailRunRead
<1>25. CASE FailRunSave(s)
  <2>1. [sched[s].mem EXCEPT !.status = "failed", !.at = now] \in RunRecords
    BY <1>m, <1>n, <1>s, SetStatusType
  <2>2. sched' \in [Scheds -> SchedStates]
    BY <1>25, <1>i, SchedSetType DEF FailRunSave
  <2> QED BY <1>25, <2>1, <2>2, SaveType DEF FailRunSave
<1> QED
  BY <1>1, <1>2, <1>3, <1>4, <1>5, <1>6, <1>7, <1>8, <1>9, <1>10, <1>11, <1>12, <1>13, <1>14, <1>15, <1>16, <1>17, <1>18, <1>19, <1>20, <1>21, <1>22, <1>23, <1>24, <1>25
     DEF SchedNext

\* Executor steps keep the types.
LEMMA TaskTypes ==
    ASSUME TypeOK, NEW s \in Scheds, NEW n \in Nodes, TaskNext(s, n)
    PROVE  TypeOK'
<1> USE DEF TypeOK
<1>m. sched[s].mem \in RunRecords /\ now \in Nat
  BY DEF SchedStates
<1>t. /\ "none" \in TaskStates /\ "work" \in TaskStates /\ "link" \in TaskStates
      /\ "wait" \in TaskStates
  BY DEF TaskStates
<1>s. "failed" \in NodeStatuses
  BY DEF NodeStatuses
<1>1. CASE TaskProgress(s, n)
  BY <1>1, <1>m, SaveType DEF TaskProgress
<1>2. CASE TaskLaunchSession(s, n)
  <2>1. [sched[s].mem EXCEPT !.node[n].sid = TRUE] \in RunRecords
    BY <1>m, <1>s, NodeFieldTypes
  <2>2. sched' \in [Scheds -> SchedStates]
    BY <1>2, <2>1, <1>t, TaskMovesType DEF TaskLaunchSession
  <2>3. sess' \in [Nodes -> SessStates]
    BY <1>2 DEF TaskLaunchSession, SessStates
  <2> QED BY <1>2, <2>2, <2>3 DEF TaskLaunchSession
<1>3. CASE TaskLinkSession(s, n)
  <2>1. sched' \in [Scheds -> SchedStates]
    BY <1>3, <1>m, <1>t, TaskMovesType DEF TaskLinkSession
  <2> QED BY <1>3, <2>1, <1>m, SaveType DEF TaskLinkSession
<1>4. CASE TaskRetry(s, n)
  <2>1. sched' \in [Scheds -> SchedStates]
    BY <1>4, <1>m, <1>t, TaskMovesType DEF TaskRetry
  <2> QED BY <1>4, <2>1, <1>m, SaveType DEF TaskRetry
<1>5. CASE TaskComplete(s, n)
  <2>1. PICK branch \in BranchSkips(n) :
              /\ SaveAndEmit(Completed(sched[s].mem, n, branch))
              /\ TaskMoves(s, n, "none", Completed(sched[s].mem, n, branch))
    BY <1>5 DEF TaskComplete
  <2>2. Completed(sched[s].mem, n, branch) \in RunRecords
    BY <1>m, CompletedType
  <2>3. sched' \in [Scheds -> SchedStates]
    BY <2>1, <2>2, <1>t, TaskMovesType
  <2> QED BY <1>5, <2>1, <2>2, <2>3, SaveType DEF TaskComplete
<1>6. CASE TaskFail(s, n)
  <2> DEFINE run == SetNode(sched[s].mem, n, "failed", now)
  <2>1. run \in RunRecords
    BY <1>m, <1>s, SetNodeType
  <2>2. SaveAndEmit(run) /\ TaskMoves(s, n, "none", run)
    BY <1>6 DEF TaskFail
  <2>3. sess' \in [Nodes -> SessStates]
    BY <1>6 DEF TaskFail, SessStates
  <2> HIDE DEF run
  <2>4. sched' \in [Scheds -> SchedStates]
    BY <2>1, <2>2, <1>t, TaskMovesType
  <2> QED BY <1>6, <2>1, <2>2, <2>3, <2>4, SaveType DEF TaskFail
<1>7. CASE TaskBlock(s, n)
  <2> DEFINE run == [sched[s].mem EXCEPT !.status = "blocked",
                           !.node[n] = [@ EXCEPT !.st = "blocked", !.ok = FALSE]]
  <2>1. run \in RunRecords
    BY <1>m, BlockedType
  <2>2. SaveAndEmit(run) /\ TaskMoves(s, n, "none", run)
    BY <1>7 DEF TaskBlock
  <2> HIDE DEF run
  <2>3. sched' \in [Scheds -> SchedStates]
    BY <2>1, <2>2, <1>t, TaskMovesType
  <2> QED BY <1>7, <2>1, <2>2, <2>3, SaveType DEF TaskBlock
<1> QED
  BY <1>1, <1>2, <1>3, <1>4, <1>5, <1>6, <1>7
     DEF TaskNext

\* The steps of runner calls keep the types.
LEMMA CallTypes ==
    ASSUME TypeOK, NEW c \in Calls, CallNext(c)
    PROVE  TypeOK'
<1> USE DEF TypeOK, CallType
<1>m. /\ call[c].mem \in RunRecords /\ call[c].at \in Nat /\ now \in Nat
      /\ disk \in RunRecords
  BY DEF CallStates
<1>o. \A op \in AllOps \cup {"resume", "brokered"} : op \in CallOps
  BY DEF AllOps, CallOps
<1>s. /\ "failed" \in NodeStatuses /\ "completed" \in NodeStatuses /\ "running" \in NodeStatuses
      /\ "canceled" \in RunStatuses /\ "completed" \in RunStatuses /\ "running" \in RunStatuses
  BY DEF NodeStatuses, RunStatuses
<1>w. ASSUME NEW op \in AllOps \cup {"resume"}, op \notin NodeOps, NEW run \in RunRecords,
             Begin(c, op, run, NoNode)
      PROVE  CallType'
  BY <1>w, <1>o, BeginType
<1>1. CASE CancelBegin(c)
  <2>1. PICK run \in Reads :
              /\ RequireRun(run) /\ Begin(c, "cancel", run, NoNode)
              /\ sess' = [n \in Nodes |-> IF run.node[n].sid /\ sess[n] = "live" THEN "killed"
                                          ELSE sess[n]]
    BY <1>1 DEF CancelBegin
  <2>2. run \in RunRecords /\ disk' \in RunRecords /\ published' \in RunStatuses
    BY <2>1, ReadType
  <2>3. CallType'
    BY <2>1, <2>2, <1>w DEF AllOps, NodeOps
  <2>4. sess' \in [Nodes -> SessStates]
    BY <2>1 DEF SessStates
  <2> QED BY <1>1, <2>2, <2>3, <2>4 DEF CancelBegin
<1>2. CASE TouchBegin(c)
  <2>1. CallType'
    BY <1>2, <1>m, <1>w DEF TouchBegin, AllOps, NodeOps
  <2> QED BY <1>2, <2>1 DEF TouchBegin
<1>3. CASE ReconcileBegin(c)
  <2>1. CallType'
    BY <1>3, <1>m, <1>w DEF ReconcileBegin, AllOps, NodeOps
  <2> QED BY <1>3, <2>1 DEF ReconcileBegin
<1>4. CASE ResumeBegin(c)
  <2>1. PICK run : /\ RequireRun(run)
                   /\ \/ Begin(c, "resume", run, NoNode)
                      \/ UNCHANGED call
    BY <1>4 DEF ResumeBegin
  <2>2. run \in RunRecords /\ disk' \in RunRecords /\ published' \in RunStatuses
    BY <2>1, ReadType
  <2>3. CallType'
    BY <2>1, <2>2, <1>w DEF NodeOps
  <2> QED BY <1>4, <2>2, <2>3 DEF ResumeBegin
<1>5. CASE RejectFollowUp(c)
  BY <1>5, <1>m, SaveType DEF RejectFollowUp
<1>6. CASE \E n \in Nodes : BrokerBegin(c, n)
  <2>1. PICK n \in Nodes : BrokerBegin(c, n)
    BY <1>6
  <2>2. CallType'
    BY <2>1, <1>m, <1>o, BeginType DEF BrokerBegin, AllOps
  <2> QED BY <2>1, <2>2 DEF BrokerBegin
<1>7. CASE \E n \in Nodes, op \in {"approve", "reject", "revise"} : DecideBegin(c, n, op)
  <2>1. PICK n \in Nodes, op \in {"approve", "reject", "revise"} : DecideBegin(c, n, op)
    BY <1>7
  <2>2. PICK run \in Reads : RequireRun(run) /\ Begin(c, op, run, n)
    BY <2>1 DEF DecideBegin
  <2>3. run \in RunRecords /\ disk' \in RunRecords /\ published' \in RunStatuses
    BY <2>2, ReadType
  <2>4. CallType'
    BY <2>2, <2>3, <1>o, BeginType DEF AllOps
  <2> QED BY <2>1, <2>3, <2>4 DEF DecideBegin
<1>8. CASE CancelCommit(c)
  <2>1. CanceledRun(call[c].mem, call[c].at) \in RunRecords
    BY <1>m, CanceledRunType
  <2> QED BY <1>8, <2>1, SaveType, EndCallType DEF CancelCommit
<1>9. CASE ApproveCommit(c)
  <2>1. call[c].node \in Nodes
    BY <1>9 DEF ApproveCommit, InCall, NodeOps
  <2>2. ApprovedRun(call[c].mem, call[c].node, call[c].at) \in RunRecords
    BY <1>m, <2>1, ApprovedRunType
  <2> QED BY <1>9, <2>2, SaveType, SpawnType, EndCallType DEF ApproveCommit
<1>10. CASE RejectCommit(c)
  <2>1. call[c].node \in Nodes
    BY <1>10 DEF RejectCommit, InCall, NodeOps
  <2>2. SetNode(call[c].mem, call[c].node, "failed", call[c].at) \in RunRecords
    BY <1>m, <1>s, <2>1, SetNodeType
  <2>3. [SetNode(call[c].mem, call[c].node, "failed", call[c].at)
            EXCEPT !.status = "canceled", !.at = call[c].at] \in RunRecords
    BY <1>m, <1>s, <2>2, SetStatusType
  <2> QED BY <1>10, <2>3, SaveType, EndCallType DEF RejectCommit
<1>11. CASE ReviseRecord(c)
  BY <1>11, <1>m, SaveType, EndCallType DEF ReviseRecord
<1>12. CASE TouchCommit(c)
  BY <1>12, <1>m, SaveType, EndCallType DEF TouchCommit
<1>13. CASE ResumePaused(c)
  BY <1>13, <1>m, SaveType, EndCallType DEF ResumePaused
<1>14. CASE ReviseStart(c)
  <2> DEFINE n == call[c].node
             run == [call[c].mem EXCEPT !.node[n] = [@ EXCEPT !.st = "running", !.sid = TRUE]]
  <2>1. n \in Nodes
    BY <1>14 DEF ReviseStart, InCall, NodeOps
  <2>2. run \in RunRecords
    BY <1>m, <1>s, <2>1, NodeFieldTypes
  <2>3. /\ SaveAndEmit(run) /\ sess' = [sess EXCEPT ![n] = "live"]
        /\ call' = [call EXCEPT ![c].op = "revising", ![c].mem = run]
    BY <1>14 DEF ReviseStart
  <2> HIDE DEF run
  <2>4. CallType'
    BY <2>1, <2>2, <2>3 DEF CallStates, CallOps
  <2>5. sess' \in [Nodes -> SessStates]
    BY <2>3 DEF SessStates
  <2> QED BY <1>14, <2>2, <2>3, <2>4, <2>5, SaveType DEF ReviseStart
<1>15. CASE ReviseFinish(c)
  <2>1. call[c].node \in Nodes
    BY <1>15 DEF ReviseFinish, InCall, NodeOps
  <2>2. [call[c].mem EXCEPT !.status = "blocked", !.node[call[c].node].st = "blocked"] \in RunRecords
    BY <1>m, <2>1, BlockedType
  <2> QED BY <1>15, <2>2, SaveType, EndCallType DEF ReviseFinish
<1>16. CASE ReviseThrows(c)
  <2>1. sess' \in [Nodes -> SessStates]
    BY <1>16 DEF ReviseThrows, SessStates
  <2> QED BY <1>16, <2>1, EndCallType DEF ReviseThrows
<1>17. CASE ReconcileCommit(c)
  <2>1. PICK F : SaveAndEmit(Recovered(call[c].mem, F))
    BY <1>17 DEF ReconcileCommit
  <2>2. Recovered(call[c].mem, F) \in RunRecords
    BY <1>m, RecoveredType
  <2> QED BY <1>17, <2>1, <2>2, SaveType, EndCallType DEF ReconcileCommit
<1>18. CASE BrokerCommit(c)
  <2> DEFINE done == SetNode(call[c].mem, call[c].node, "completed", call[c].at)
             run == IF AllDone(done)
                    THEN [done EXCEPT !.status = "completed", !.at = call[c].at]
                    ELSE [done EXCEPT !.status = "running"]
  <2>1. call[c].node \in Nodes
    BY <1>18 DEF BrokerCommit, InCall, NodeOps
  <2>2. done \in RunRecords
    BY <1>m, <1>s, <2>1, SetNodeType
  <2>3. SaveAndEmit(run) /\ call' = [call EXCEPT ![c] = [IdleCall EXCEPT !.op = "brokered"]]
    BY <1>18 DEF BrokerCommit
  <2> HIDE DEF done
  <2>4. run \in RunRecords
    BY <1>m, <1>s, <2>2, SetStatusType
  <2>5. [IdleCall EXCEPT !.op = "brokered"] \in CallStates /\ "brokered" \notin NodeOps
    BY IdleTypes DEF CallStates, CallOps, NodeOps
  <2>6. CallType'
    BY <2>3, <2>5 DEF CallStates
  <2> HIDE DEF run
  <2> QED BY <1>18, <2>3, <2>4, <2>6, SaveType DEF BrokerCommit
<1>19. CASE BrokerResume(c)
  BY <1>19, SpawnType, EndCallType DEF BrokerResume
<1>20. CASE ResumeCommit(c)
  <2>1. Requeued(call[c].mem) \in RunRecords
    BY <1>m, RequeuedType
  <2>2. disk' \in RunRecords /\ published' \in RunStatuses
    BY <1>20, <2>1, SaveType DEF ResumeCommit
  <2> QED BY <1>20, <2>2, SpawnType, EndCallType DEF ResumeCommit
<1>21. CASE BrokerAgain(c)
  <2>1. call' = [call EXCEPT ![c] = [IdleCall EXCEPT !.op = "brokered"]]
    BY <1>21 DEF BrokerAgain
  <2>2. [IdleCall EXCEPT !.op = "brokered"] \in CallStates /\ "brokered" \notin NodeOps
    BY IdleTypes DEF CallStates, CallOps, NodeOps
  <2>3. CallType'
    BY <2>1, <2>2 DEF CallStates
  <2> QED BY <1>21, <2>3 DEF BrokerAgain
<1> QED
  BY <1>1, <1>2, <1>3, <1>4, <1>5, <1>6, <1>7, <1>8, <1>9, <1>10, <1>11, <1>12, <1>13, <1>14, <1>15, <1>16, <1>17, <1>18, <1>19, <1>20, <1>21
     DEF CallNext, CallEnds

\* Crashes, session ends and clock ticks keep the types.
LEMMA EnvironmentTypes ==
    ASSUME TypeOK, Crash \/ Tick \/ \E n \in Nodes : SessionEnds(n)
    PROVE  TypeOK'
<1>1. CASE Crash
  <2>1. IdleCall.op \notin NodeOps
    BY DEF IdleCall, NodeOps
  <2>2. crashes' \in Nat
    BY <1>1 DEF TypeOK, Crash
  <2> QED BY <1>1, <2>1, <2>2, IdleTypes DEF TypeOK, Crash
<1>2. CASE Tick
  BY <1>2 DEF TypeOK, Tick
<1>3. CASE \E n \in Nodes : SessionEnds(n)
  BY <1>3 DEF TypeOK, SessionEnds, SessStates
<1> QED BY <1>1, <1>2, <1>3

\* Every variable of a run keeps its type, whatever the workflow definition,
\* the number of schedulers and calls in flight, and the crashes.
THEOREM TypeCorrect == Spec => []TypeOK
<1>1. Init => TypeOK
  <2> SUFFICES ASSUME Init PROVE TypeOK
    OBVIOUS
  <2>1. [IdleSched EXCEPT !.pc = "spawn"] \in SchedStates
    BY IdleTypes DEF SchedStates, PCs
  <2>2. sched \in [Scheds -> SchedStates]
    BY <2>1, IdleTypes DEF Init
  <2>3. \A c \in Calls : call[c].op \notin NodeOps
    BY DEF Init, IdleCall, NodeOps
  <2> QED BY <2>2, <2>3, NewRunType, IdleTypes DEF Init, TypeOK, SessStates, RunStatuses
<1>2. TypeOK /\ [Next]_vars => TypeOK'
  <2> SUFFICES ASSUME TypeOK, [Next]_vars PROVE TypeOK'
    OBVIOUS
  <2>1. CASE UNCHANGED vars
    BY <2>1 DEF TypeOK, vars
  <2> QED BY <2>1, SchedTypes, TaskTypes, CallTypes, EnvironmentTypes DEF Next
<1> QED BY <1>1, <1>2, PTL DEF Spec

-----------------------------------------------------------------------------
(***************************************************************************)
(* Every step leaves the record alone or merges a snapshot into it         *)
(***************************************************************************)

\* Every scheduler step leaves the disk alone or merges some record into it.
LEMMA SchedMerges ==
    ASSUME NEW s \in Scheds, SchedNext(s)
    PROVE  disk' = disk \/ \E m : disk' = Merge(m, disk)
<1> USE DEF SaveAndEmit, RequireRun
<1>1. CASE SchedBoot(s) \/ SchedPreflightThrows(s)
  BY <1>1 DEF SchedBoot, SchedPreflightThrows
<1>2. CASE SchedBegin(s) \/ SchedPreflightIssues(s)
  BY <1>2 DEF SchedBegin, SchedPreflightIssues
<1>3. CASE SchedStop(s) \/ SchedDrained(s) \/ SchedWait(s) \/ SchedWaitsTooLong(s) \/ SchedParked(s)
  BY <1>3 DEF SchedStop, SchedDrained, SchedWait, SchedWaitsTooLong, SchedParked
<1>4. CASE SchedLayer(s) \/ SchedGuardThrows(s)
  BY <1>4 DEF SchedLayer, SchedGuardThrows
<1>5. CASE SchedSaveSkips(s) \/ SchedLaunch(s)
  BY <1>5 DEF SchedSaveSkips, SchedLaunch
<1>6. CASE SchedSettle(s) \/ SchedSaveSettled(s) \/ SchedInvalidOutput(s)
  BY <1>6 DEF SchedSettle, SchedSaveSettled, SchedInvalidOutput
<1>7. CASE SchedDecideHalt(s) \/ SchedDecideBlocked(s) \/ SchedDecideNext(s) \/ SchedHalt(s)
  BY <1>7 DEF SchedDecideHalt, SchedDecideBlocked, SchedDecideNext, SchedHalt
<1>8. CASE SchedComplete(s) \/ SchedNotCompleted(s) \/ SchedFinish(s)
  BY <1>8 DEF SchedComplete, SchedNotCompleted, SchedFinish
<1>9. CASE FailRunRead(s) \/ FailRunSave(s)
  BY <1>9 DEF FailRunRead, FailRunSave
<1> QED BY <1>1, <1>2, <1>3, <1>4, <1>5, <1>6, <1>7, <1>8, <1>9 DEF SchedNext

\* The same holds of every executor step.
LEMMA TaskMerges ==
    ASSUME NEW s \in Scheds, NEW n \in Nodes, TaskNext(s, n)
    PROVE  disk' = disk \/ \E m : disk' = Merge(m, disk)
<1>1. CASE TaskProgress(s, n) \/ TaskLaunchSession(s, n) \/ TaskLinkSession(s, n) \/ TaskRetry(s, n)
  BY <1>1 DEF TaskProgress, TaskLaunchSession, TaskLinkSession, TaskRetry, SaveAndEmit
<1>2. CASE TaskComplete(s, n) \/ TaskFail(s, n) \/ TaskBlock(s, n)
  BY <1>2 DEF TaskComplete, TaskFail, TaskBlock, SaveAndEmit
<1> QED BY <1>1, <1>2 DEF TaskNext

\* The same holds of every step of a runner call.
LEMMA CallMerges ==
    ASSUME NEW c \in Calls, CallNext(c)
    PROVE  disk' = disk \/ \E m : disk' = Merge(m, disk)
<1> USE DEF SaveAndEmit, SaveOnly, RequireRun
<1>1. CASE CancelBegin(c) \/ TouchBegin(c) \/ ReconcileBegin(c) \/ RejectFollowUp(c)
              \/ BrokerAgain(c)
  BY <1>1 DEF CancelBegin, TouchBegin, ReconcileBegin, RejectFollowUp, BrokerAgain
<1>2. CASE ResumeBegin(c)
  BY <1>2 DEF ResumeBegin
<1>3. CASE \E n \in Nodes : BrokerBegin(c, n)
  BY <1>3 DEF BrokerBegin
<1>4. CASE \E n \in Nodes, op \in {"approve", "reject", "revise"} : DecideBegin(c, n, op)
  BY <1>4 DEF DecideBegin
<1>5. CASE CancelCommit(c) \/ ApproveCommit(c) \/ RejectCommit(c)
  BY <1>5 DEF CancelCommit, ApproveCommit, RejectCommit
<1>6. CASE ReviseRecord(c) \/ ReviseStart(c) \/ ReviseFinish(c) \/ ReviseThrows(c)
  BY <1>6 DEF ReviseRecord, ReviseStart, ReviseFinish, ReviseThrows
<1>7. CASE TouchCommit(c) \/ ReconcileCommit(c) \/ BrokerCommit(c) \/ BrokerResume(c)
  BY <1>7 DEF TouchCommit, ReconcileCommit, BrokerCommit, BrokerResume
<1>8. CASE ResumePaused(c) \/ ResumeCommit(c)
  BY <1>8 DEF ResumePaused, ResumeCommit
<1> QED BY <1>1, <1>2, <1>3, <1>4, <1>5, <1>6, <1>7, <1>8 DEF CallNext, CallEnds

\* Hence every step leaves the disk alone or merges a record into it.
LEMMA StepMerges ==
    ASSUME [Next]_vars
    PROVE  disk' = disk \/ \E m : disk' = Merge(m, disk)
<1>1. CASE Crash \/ Tick \/ \E n \in Nodes : SessionEnds(n)
  BY <1>1 DEF Crash, Tick, SessionEnds
<1>2. CASE UNCHANGED vars
  BY <1>2 DEF vars
<1> QED BY <1>1, <1>2, SchedMerges, TaskMerges, CallMerges DEF Next

-----------------------------------------------------------------------------
\* Cancellation is authoritative, runner-canceler.ts: once the canceled record
\* is on disk no later save, however stale, resurrects the run or a node.
THEOREM CancellationHolds == Spec => CanceledIsFinal
<1>1. ASSUME [Next]_vars
      PROVE  /\ disk.status = "canceled" => disk'.status = "canceled"
             /\ \A n \in Nodes : disk.node[n].st = "canceled" => disk'.node[n].st = "canceled"
  BY <1>1, StepMerges, MergeKeepsCanceled
<1> QED BY <1>1, PTL DEF Spec, CanceledIsFinal

\* What is terminal on disk stays terminal, through crash, resume, retries and
\* saves of stale copies (mergeExistingRun in store.ts).
THEOREM TerminalHolds == Spec => TerminalNeverReopens
<1>1. ASSUME [Next]_vars
      PROVE  /\ RunTerminal(disk.status) => RunTerminal(disk'.status)
             /\ \A n \in Nodes : NodeTerminal(disk.node[n].st) => NodeTerminal(disk'.node[n].st)
  BY <1>1, StepMerges, MergeKeepsTerminal
<1> QED BY <1>1, PTL DEF Spec, TerminalNeverReopens

-----------------------------------------------------------------------------
(***************************************************************************)
(* Sound records                                                           *)
(***************************************************************************)

\* Saving a sound copy over a sound record leaves a sound record.
LEMMA MergeSound ==
    ASSUME NEW snap, NEW ex, Sound(snap), Sound(ex)
    PROVE  Sound(Merge(snap, ex))
<1> SUFFICES ASSUME Merge(snap, ex).status = "completed" PROVE AllDone(Merge(snap, ex))
  BY DEF Sound
<1>1. ex.status = "completed" \/ snap.status = "completed"
  BY DEF Merge
<1>2. AllDone(ex) \/ AllDone(snap)
  BY <1>1 DEF Sound
<1> QED BY <1>2, MergeKeepsTerminal, MergeTakesTerminal DEF AllDone

\* The reconciler finishes nodes, it never reopens one.
LEMMA RecoveredKeeps ==
    ASSUME NEW run \in RunRecords, NEW F
    PROVE  \A n \in Nodes : NodeTerminal(run.node[n].st) => NodeTerminal(Recovered(run, F).node[n].st)
<1> SUFFICES ASSUME NEW n \in Nodes, NodeTerminal(run.node[n].st)
             PROVE  NodeTerminal(Recovered(run, F).node[n].st)
  OBVIOUS
<1>1. n \notin Recoverable(run)
  BY DEF Recoverable, NodeTerminal
<1>2. Recovered(run, F).node[n] = IF n \in F THEN [run.node[n] EXCEPT !.st = "failed", !.at = now]
                                  ELSE run.node[n]
  BY <1>1 DEF Recovered
<1>3. [run.node[n] EXCEPT !.st = "failed", !.at = now].st = "failed"
  BY DEF RunRecords, NodeStates
<1> QED BY <1>2, <1>3 DEF NodeTerminal

\* The reconciler completes a run only if all its nodes are completed.
LEMMA RecoveredSound ==
    ASSUME NEW run \in RunRecords, NEW F, Sound(run)
    PROVE  Sound(Recovered(run, F))
<1> SUFFICES ASSUME Recovered(run, F).status = "completed" PROVE AllDone(Recovered(run, F))
  BY DEF Sound
<1>1. \/ run.status = "completed"
      \/ \A n \in Nodes : Recovered(run, F).node[n].st = "completed"
  BY DEF Recovered
<1>2. CASE run.status = "completed"
  BY <1>2, RecoveredKeeps DEF Sound, AllDone
<1>3. CASE \A n \in Nodes : Recovered(run, F).node[n].st = "completed"
  BY <1>3 DEF AllDone, NodeTerminal
<1> QED BY <1>1, <1>2, <1>3

\* What requireRun returns is sound, has every node done that was done on disk,
\* and leaves on disk every node done that it returns as done.
LEMMA ReadSound ==
    ASSUME TypeOK, Sound(disk), NEW run, RequireRun(run)
    PROVE  /\ Sound(run) /\ Sound(disk')
           /\ \A n \in Nodes : NodeTerminal(disk.node[n].st) => NodeTerminal(run.node[n].st)
           /\ \A n \in Nodes : NodeTerminal(run.node[n].st) => NodeTerminal(disk'.node[n].st)
<1>1. disk' = Merge(run, disk) /\ run \in Reads /\ disk \in RunRecords
  BY DEF RequireRun, TypeOK
<1>2. run = disk \/ \E F : run = Recovered(disk, F)
  BY <1>1 DEF Reads
<1>3. Sound(run)
  BY <1>1, <1>2, RecoveredSound
<1>4. \A n \in Nodes : NodeTerminal(disk.node[n].st) => NodeTerminal(run.node[n].st)
  BY <1>1, <1>2, RecoveredKeeps
<1> QED BY <1>1, <1>3, <1>4, MergeSound, MergeTakesTerminal

\* Saving a sound record keeps the disk sound.
LEMMA SaveSound ==
    ASSUME NEW run, Sound(run), Sound(disk), SaveAndEmit(run) \/ SaveOnly(run)
    PROVE  Sound(disk')
  BY MergeSound DEF SaveAndEmit, SaveOnly

\* A record that does not read 'completed' is sound.
LEMMA OpenSound ==
    ASSUME NEW run, run.status # "completed"
    PROVE  Sound(run)
  BY DEF Sound

\* The updates that change one status field.
LEMMA StatusSet ==
    ASSUME NEW run \in RunRecords, NEW st, NEW at
    PROVE  /\ [run EXCEPT !.status = st].status = st
           /\ [run EXCEPT !.status = st, !.at = at].status = st
           /\ [run EXCEPT !.status = st, !.at = at].node = run.node
  BY DEF RunRecords

\* A record given a status other than completed is sound.
LEMMA StatusSound ==
    ASSUME NEW run \in RunRecords, NEW st, NEW at, st # "completed"
    PROVE  Sound([run EXCEPT !.status = st]) /\ Sound([run EXCEPT !.status = st, !.at = at])
  BY DEF Sound, RunRecords

-----------------------------------------------------------------------------
(***************************************************************************)
(* Consistent is inductive                                                 *)
(***************************************************************************)

\* Nodes done before a step are done after it.
Grows == \A n \in Nodes : NodeTerminal(disk.node[n].st) => NodeTerminal(disk'.node[n].st)

\* Terminal nodes on disk stay terminal in every step.
LEMMA StepGrows ==
    ASSUME [Next]_vars
    PROVE  Grows
  BY StepMerges, MergeKeepsTerminal DEF Grows

\* A scheduler that does not move is not disturbed by what others save.
LEMMA SchedKeeps ==
    ASSUME NEW x, SchedOK(x, disk), Grows, x.layer \subseteq Nodes
    PROVE  SchedOK(x, disk')
<1>1. \A n \in Nodes : NeedsDone(disk, n) => NeedsDone(disk', n)
  BY ConstantsAssumption DEF NeedsDone, Grows
<1>2. AllDone(disk) => AllDone(disk')
  BY DEF AllDone, Grows
<1> QED BY <1>1, <1>2 DEF SchedOK

\* A step of one scheduler that re-establishes its own part preserves the whole.
LEMMA SchedFrame ==
    ASSUME TypeOK, Consistent, Grows, NEW s \in Scheds, Sound(disk'), SchedOK(sched'[s], disk'),
           \A t \in Scheds \ {s} : sched'[t] = sched[t], call' = call
    PROVE  Consistent'
<1>1. ASSUME NEW t \in Scheds
      PROVE  SchedOK(sched'[t], disk')
  <2>1. CASE t = s
    BY <2>1
  <2>2. CASE t # s
    <3>1. SchedOK(sched[t], disk) /\ sched[t].layer \subseteq Nodes /\ sched'[t] = sched[t]
      BY <2>2 DEF Consistent, TypeOK, SchedStates
    <3> QED BY <3>1, SchedKeeps
  <2> QED BY <2>1, <2>2
<1> QED BY <1>1 DEF Consistent

\* The same for a step of one call, which may also start a scheduler.
LEMMA CallFrame ==
    ASSUME TypeOK, Consistent, Grows, NEW c \in Calls, Sound(disk'), CallOK(call'[c]),
           \A d \in Calls \ {c} : call'[d] = call[d],
           \A t \in Scheds : sched'[t] = sched[t] \/ SchedOK(sched'[t], disk')
    PROVE  Consistent'
<1>1. ASSUME NEW t \in Scheds
      PROVE  SchedOK(sched'[t], disk')
  <2>1. SchedOK(sched[t], disk) /\ sched[t].layer \subseteq Nodes
    BY DEF Consistent, TypeOK, SchedStates
  <2>2. SchedOK(sched[t], disk')
    BY <2>1, SchedKeeps
  <2> QED BY <2>2
<1>2. \A d \in Calls : CallOK(call'[d])
  BY DEF Consistent
<1> QED BY <1>1, <1>2 DEF Consistent

\* Idle schedulers and calls satisfy their part of the invariant.
LEMMA IdleOK ==
    ASSUME NEW record
    PROVE  /\ SchedOK(IdleSched, record) /\ CallOK(IdleCall)
           /\ SchedOK([IdleSched EXCEPT !.pc = "throw"], record)
           /\ SchedOK([IdleSched EXCEPT !.pc = "loop"], record)
           /\ SchedOK([IdleSched EXCEPT !.pc = "spawn"], record)
           /\ CallOK([IdleCall EXCEPT !.op = "brokered"])
<1>1. Sound(NewRun)
  BY DEF NewRun, Sound
<1> QED BY <1>1 DEF SchedOK, CallOK, IdleSched, IdleCall, NoTasks

\* Where Goto, Exit and Throw lead.
LEMMA GotoEffect ==
    ASSUME TypeOK, NEW s \in Scheds, NEW pc, NEW run, Goto(s, pc, run)
    PROVE  /\ sched'[s].pc = pc /\ sched'[s].mem = run
           /\ sched'[s].task = sched[s].task /\ sched'[s].layer = sched[s].layer
           /\ \A t \in Scheds \ {s} : sched'[t] = sched[t]
  BY DEF TypeOK, Goto, SchedStates

\* What Exit and Throw leave of the scheduler that takes them.
LEMMA ExitEffect ==
    ASSUME TypeOK, NEW s \in Scheds, Exit(s) \/ Throw(s)
    PROVE  /\ SchedOK(sched'[s], disk')
           /\ \A t \in Scheds \ {s} : sched'[t] = sched[t]
  BY IdleOK DEF TypeOK, Exit, Throw

\* Goto to a control point with no special obligation, outside a layer.
LEMMA GotoOK ==
    ASSUME TypeOK, Consistent, NEW s \in Scheds, NEW run, Sound(run),
           NEW pc \in {"idle", "begin", "loop", "settled", "decide", "halt", "fail"},
           sched[s].task = NoTasks, Goto(s, pc, run)
    PROVE  /\ SchedOK(sched'[s], disk')
           /\ \A t \in Scheds \ {s} : sched'[t] = sched[t]
  BY GotoEffect DEF SchedOK, NoTasks

\* Every scheduler step preserves the invariant, one case per action.
LEMMA SchedConsistent ==
    ASSUME TypeOK, Consistent, NEW s \in Scheds, SchedNext(s)
    PROVE  Consistent'
<1>g. Grows
  BY StepGrows DEF Next
<1>c. SchedOK(sched[s], disk) /\ Sound(sched[s].mem) /\ Sound(disk)
  BY DEF Consistent, SchedOK
<1>m. sched[s].mem \in RunRecords /\ sched[s].layer \subseteq Nodes /\ disk \in RunRecords
  BY DEF TypeOK, SchedStates
<1>t. \A pc : At(s, pc) /\ pc # "exec" => sched[s].task = NoTasks
  BY <1>c DEF SchedOK, At
<1>n. Sound(NewRun)
  BY DEF NewRun, Sound
<1>1. CASE SchedBoot(s)
  <2>1. /\ SchedOK(sched'[s], disk')
        /\ \A t \in Scheds \ {s} : sched'[t] = sched[t]
    BY <1>1, <1>c, <1>t, GotoOK DEF SchedBoot
  <2> QED BY <1>1, <2>1, <1>g, <1>c, SchedFrame DEF SchedBoot
<1>2. CASE SchedBegin(s)
  <2>1. Sound([sched[s].mem EXCEPT !.status = "running"])
    BY <1>m, StatusSound
  <2>2. Sound(disk')
    BY <1>2, <1>c, <2>1, SaveSound DEF SchedBegin
  <2>3. /\ SchedOK(sched'[s], disk')
        /\ \A t \in Scheds \ {s} : sched'[t] = sched[t]
    BY <1>2, <1>n, <1>t, GotoOK DEF SchedBegin
  <2> QED BY <1>2, <2>2, <2>3, <1>g, SchedFrame DEF SchedBegin
<1>3. CASE SchedPreflightIssues(s)
  <2>1. Sound([sched[s].mem EXCEPT !.status = "blocked", !.at = now])
    BY <1>m, StatusSound
  <2>2. Sound(disk')
    BY <1>3, <1>c, <2>1, SaveSound DEF SchedPreflightIssues
  <2> QED BY <1>3, <2>2, <1>g, ExitEffect, SchedFrame DEF SchedPreflightIssues
<1>4. CASE SchedPreflightThrows(s)
  BY <1>4, <1>g, <1>c, ExitEffect, SchedFrame DEF SchedPreflightThrows
<1>5. CASE SchedStop(s)
  BY <1>5, <1>c, <1>g, ReadSound, ExitEffect, SchedFrame DEF SchedStop
<1>6. CASE SchedParked(s)
  BY <1>6, <1>c, <1>g, ReadSound, ExitEffect, SchedFrame DEF SchedParked
<1>7. CASE SchedWaitsTooLong(s)
  BY <1>7, <1>c, <1>g, ReadSound, ExitEffect, SchedFrame DEF SchedWaitsTooLong
<1>8. CASE SchedGuardThrows(s)
  BY <1>8, <1>c, <1>g, ReadSound, ExitEffect, SchedFrame DEF SchedGuardThrows
<1>9. CASE SchedDecideBlocked(s)
  BY <1>9, <1>c, <1>g, ReadSound, ExitEffect, SchedFrame DEF SchedDecideBlocked
<1>10. CASE SchedNotCompleted(s)
  BY <1>10, <1>c, <1>g, ReadSound, ExitEffect, SchedFrame DEF SchedNotCompleted
<1>11. CASE SchedDrained(s)
  <2>1. PICK run \in Reads : RequireRun(run) /\ AllDone(run)
    BY <1>11 DEF SchedDrained
  <2>2. Sound(disk') /\ AllDone(disk')
    BY <2>1, <1>c, ReadSound DEF AllDone
  <2>3. Goto(s, "complete", NewRun) /\ sched[s].task = NoTasks
    BY <1>11, <1>t DEF SchedDrained
  <2>4. SchedOK(sched'[s], disk')
    BY <2>2, <2>3, <1>n, GotoEffect DEF SchedOK, NoTasks
  <2> QED BY <1>11, <2>2, <2>3, <2>4, <1>g, GotoEffect, SchedFrame DEF SchedDrained
<1>12. CASE SchedWait(s)
  <2>1. Sound(disk')
    BY <1>12, <1>c, ReadSound DEF SchedWait
  <2> QED BY <1>12, <2>1, <1>g, <1>c, <1>m, SchedKeeps, SchedFrame DEF SchedWait
<1>13. CASE SchedLayer(s)
  <2>1. PICK run \in Reads :
              /\ RequireRun(run) /\ run.status = "running"
              /\ \E S \in SkipChoices(run) : sched' = [sched EXCEPT ![s] =
                    [pc |-> IF S = {} THEN "launch" ELSE "skip", mem |-> Skipped(run, S),
                     layer |-> Ready(run) \ S, task |-> NoTasks]]
    BY <1>13 DEF SchedLayer
  <2>2. PICK S \in SkipChoices(run) :
              sched' = [sched EXCEPT ![s] =
                    [pc |-> IF S = {} THEN "launch" ELSE "skip", mem |-> Skipped(run, S),
                     layer |-> Ready(run) \ S, task |-> NoTasks]]
    BY <2>1
  <2>3. run \in RunRecords /\ Sound(disk')
    BY <2>1, <1>c, ReadType, ReadSound
  <2>4. \A n \in Ready(run) : n \in Nodes /\ NeedsDone(disk', n)
    BY <2>1, <1>c, ReadSound, ConstantsAssumption DEF Ready, NeedsDone
  <2>5. Skipped(run, S).status = "running"
    BY <2>1, <2>3 DEF Skipped, RunRecords
  <2>6. /\ sched'[s].mem = Skipped(run, S) /\ sched'[s].layer = Ready(run) \ S
        /\ sched'[s].task = NoTasks /\ sched'[s].pc \in {"launch", "skip"}
        /\ \A t \in Scheds \ {s} : sched'[t] = sched[t]
    BY <2>2 DEF TypeOK
  <2>7. SchedOK(sched'[s], disk')
    BY <2>4, <2>5, <2>6, OpenSound DEF SchedOK, NoTasks
  <2> QED BY <1>13, <2>3, <2>6, <2>7, <1>g, SchedFrame DEF SchedLayer
<1>14. CASE SchedSaveSkips(s)
  <2>1. Sound(disk')
    BY <1>14, <1>c, SaveSound DEF SchedSaveSkips
  <2>2. CASE Goto(s, "loop", NewRun)
    <3>1. /\ SchedOK(sched'[s], disk')
          /\ \A t \in Scheds \ {s} : sched'[t] = sched[t]
      BY <1>14, <2>2, <1>n, <1>t, GotoOK DEF SchedSaveSkips
    <3> QED BY <1>14, <2>1, <3>1, <1>g, SchedFrame DEF SchedSaveSkips
  <2>3. CASE Goto(s, "launch", sched[s].mem)
    <3>1. SchedOK(sched[s], disk') /\ sched[s].pc = "skip"
      BY <1>14, <1>c, <1>g, <1>m, SchedKeeps DEF SchedSaveSkips, At
    <3>2. SchedOK(sched'[s], disk')
      BY <2>3, <3>1, GotoEffect DEF SchedOK
    <3> QED BY <1>14, <2>1, <2>3, <3>2, <1>g, GotoEffect, SchedFrame DEF SchedSaveSkips
  <2> QED BY <1>14, <2>2, <2>3 DEF SchedSaveSkips
<1>15. CASE SchedLaunch(s)
  <2> DEFINE run == [sched[s].mem EXCEPT !.node = [n \in Nodes |->
                       IF n \in sched[s].layer THEN [@[n] EXCEPT !.st = "running"] ELSE @[n]]]
             task == [n \in Nodes |-> IF n \in sched[s].layer THEN "work" ELSE "none"]
  <2>1. /\ SaveAndEmit(run) /\ At(s, "launch")
        /\ sched' = [sched EXCEPT ![s].pc = "exec", ![s].mem = run, ![s].task = task]
    BY <1>15 DEF SchedLaunch
  <2>2. run.status = "running"
    BY <2>1, <1>c, <1>m DEF SchedOK, RunRecords, At
  <2>3. \A n \in Nodes : task[n] # "none" => n \in sched[s].layer
    OBVIOUS
  <2> HIDE DEF run, task
  <2>4. Sound(run) /\ Sound(disk')
    BY <2>1, <2>2, <1>c, OpenSound, SaveSound
  <2>5. /\ sched'[s].pc = "exec" /\ sched'[s].mem = run /\ sched'[s].task = task
        /\ \A t \in Scheds \ {s} : sched'[t] = sched[t]
    BY <2>1 DEF TypeOK, SchedStates
  <2>6. \A n \in sched[s].layer : NeedsDone(disk', n)
    BY <2>1, <1>c, <1>g, <1>m, SchedKeeps DEF SchedOK, At
  <2>7. SchedOK(sched'[s], disk')
    BY <2>2, <2>3, <2>4, <2>5, <2>6 DEF SchedOK
  <2> QED BY <1>15, <2>4, <2>5, <2>7, <1>g, SchedFrame DEF SchedLaunch
<1>16. CASE SchedSettle(s)
  <2>1. PICK run \in Reads : RequireRun(run) /\ Goto(s, "settled", run)
    BY <1>16 DEF SchedSettle
  <2>2. Sound(run) /\ Sound(disk')
    BY <2>1, <1>c, ReadSound
  <2>3. sched[s].task = NoTasks
    BY <1>16, <1>t DEF SchedSettle
  <2>4. /\ SchedOK(sched'[s], disk')
        /\ \A t \in Scheds \ {s} : sched'[t] = sched[t]
    BY <2>1, <2>2, <2>3, GotoOK
  <2> QED BY <1>16, <2>2, <2>4, <1>g, SchedFrame DEF SchedSettle
<1>17. CASE SchedSaveSettled(s)
  <2>1. Sound(disk')
    BY <1>17, <1>c, SaveSound DEF SchedSaveSettled
  <2>2. /\ SchedOK(sched'[s], disk')
        /\ \A t \in Scheds \ {s} : sched'[t] = sched[t]
    BY <1>17, <1>n, <1>t, GotoOK DEF SchedSaveSettled
  <2> QED BY <1>17, <2>1, <2>2, <1>g, SchedFrame DEF SchedSaveSettled
<1>18. CASE SchedInvalidOutput(s)
  <2> DEFINE bad(n) == [sched[s].mem EXCEPT !.node[n].st = "failed"]
  <2>1. PICK n \in sched[s].layer : SaveAndEmit(bad(n))
    BY <1>18 DEF SchedInvalidOutput
  <2>2. /\ bad(n).status = sched[s].mem.status
        /\ \A k \in Nodes : bad(n).node[k].st \in {sched[s].mem.node[k].st, "failed"}
    BY <1>m DEF RunRecords, NodeStates
  <2> HIDE DEF bad
  <2>3. Sound(bad(n))
    BY <2>2, <1>c DEF Sound, AllDone, NodeTerminal
  <2>4. Sound(disk')
    BY <2>1, <2>3, <1>c, SaveSound
  <2> QED BY <1>18, <2>4, <1>g, ExitEffect, SchedFrame DEF SchedInvalidOutput
<1>19. CASE SchedDecideHalt(s)
  <2>1. PICK run \in Reads : RequireRun(run) /\ Goto(s, "halt", run)
    BY <1>19 DEF SchedDecideHalt
  <2>2. Sound(run) /\ Sound(disk')
    BY <2>1, <1>c, ReadSound
  <2>3. sched[s].task = NoTasks
    BY <1>19, <1>t DEF SchedDecideHalt
  <2>4. /\ SchedOK(sched'[s], disk')
        /\ \A t \in Scheds \ {s} : sched'[t] = sched[t]
    BY <2>1, <2>2, <2>3, GotoOK
  <2> QED BY <1>19, <2>2, <2>4, <1>g, SchedFrame DEF SchedDecideHalt
<1>20. CASE SchedDecideNext(s)
  <2>1. Sound(disk')
    BY <1>20, <1>c, ReadSound DEF SchedDecideNext
  <2>2. /\ SchedOK(sched'[s], disk')
        /\ \A t \in Scheds \ {s} : sched'[t] = sched[t]
    BY <1>20, IdleOK DEF SchedDecideNext, TypeOK
  <2> QED BY <1>20, <2>1, <2>2, <1>g, SchedFrame DEF SchedDecideNext
<1>21. CASE SchedHalt(s)
  <2>1. Sound([sched[s].mem EXCEPT !.status = "failed", !.at = now])
    BY <1>m, StatusSound
  <2>2. Sound(disk')
    BY <1>21, <1>c, <2>1, SaveSound DEF SchedHalt
  <2> QED BY <1>21, <2>2, <1>g, ExitEffect, SchedFrame DEF SchedHalt
<1>22. CASE SchedComplete(s)
  <2>1. PICK run \in Reads : RequireRun(run) /\ Goto(s, "finish", run) /\ At(s, "complete")
    BY <1>22 DEF SchedComplete
  <2>2. Sound(run) /\ Sound(disk')
    BY <2>1, <1>c, ReadSound
  <2>3. AllDone(run)
    BY <2>1, <1>c, ReadSound DEF SchedOK, At, AllDone
  <2>4. SchedOK(sched'[s], disk')
    BY <2>1, <2>2, <2>3, <1>t, GotoEffect DEF SchedOK, NoTasks
  <2> QED BY <1>22, <2>1, <2>2, <2>4, <1>g, GotoEffect, SchedFrame DEF SchedComplete
<1>23. CASE SchedFinish(s)
  <2> DEFINE done == [sched[s].mem EXCEPT !.status = "completed", !.at = now]
  <2>1. done.node = sched[s].mem.node
    BY <1>m, StatusSet
  <2>2. AllDone(sched[s].mem) /\ SaveAndEmit(done)
    BY <1>23, <1>c DEF SchedFinish, SchedOK, At
  <2> HIDE DEF done
  <2>3. Sound(done)
    BY <2>1, <2>2 DEF Sound, AllDone
  <2>4. Sound(disk')
    BY <2>2, <2>3, <1>c, SaveSound
  <2> QED BY <1>23, <2>4, <1>g, ExitEffect, SchedFrame DEF SchedFinish
<1>24. CASE FailRunRead(s)
  <2>1. PICK run \in Reads : RequireRun(run) /\ (Goto(s, "idle", NewRun) \/ Goto(s, "fail", run))
    BY <1>24 DEF FailRunRead
  <2>2. Sound(run) /\ Sound(disk') /\ sched[s].task = NoTasks
    BY <1>24, <2>1, <1>c, <1>t, ReadSound DEF FailRunRead
  <2>3. /\ SchedOK(sched'[s], disk')
        /\ \A t \in Scheds \ {s} : sched'[t] = sched[t]
    BY <2>1, <2>2, <1>n, GotoOK
  <2> QED BY <1>24, <2>2, <2>3, <1>g, SchedFrame DEF FailRunRead
<1>25. CASE FailRunSave(s)
  <2>1. Sound([sched[s].mem EXCEPT !.status = "failed", !.at = now])
    BY <1>m, StatusSound
  <2>2. Sound(disk')
    BY <1>25, <1>c, <2>1, SaveSound DEF FailRunSave
  <2>3. /\ SchedOK(sched'[s], disk')
        /\ \A t \in Scheds \ {s} : sched'[t] = sched[t]
    BY <1>25, IdleOK DEF FailRunSave, TypeOK
  <2> QED BY <1>25, <2>2, <2>3, <1>g, SchedFrame DEF FailRunSave
<1> QED
  BY <1>1, <1>2, <1>3, <1>4, <1>5, <1>6, <1>7, <1>8, <1>9, <1>10, <1>11, <1>12, <1>13, <1>14, <1>15, <1>16, <1>17, <1>18, <1>19, <1>20, <1>21, <1>22, <1>23, <1>24, <1>25
     DEF SchedNext

\* An executor works only in its scheduler's exec phase, on an open run.
LEMMA TaskMem ==
    ASSUME Consistent, TypeOK, NEW s \in Scheds, NEW n \in Nodes, Task(s, n) # "none"
    PROVE  sched[s].pc = "exec" /\ sched[s].mem.status \in {"running", "blocked"}
  BY DEF Consistent, SchedOK, Task, NoTasks

\* An executor's step that saves a sound record preserves the invariant.
LEMMA TaskMovesOK ==
    ASSUME TypeOK, Consistent, Grows, NEW s \in Scheds, NEW n \in Nodes, Task(s, n) # "none",
           NEW to, NEW run, run.status \in {"running", "blocked"}, TaskMoves(s, n, to, run)
    PROVE  /\ SchedOK(sched'[s], disk')
           /\ \A t \in Scheds \ {s} : sched'[t] = sched[t]
<1>1. /\ sched'[s].pc = sched[s].pc /\ sched'[s].mem = run
      /\ sched'[s].task = [sched[s].task EXCEPT ![n] = to]
      /\ \A t \in Scheds \ {s} : sched'[t] = sched[t]
  BY DEF TypeOK, TaskMoves, SchedStates
<1>2. sched[s].pc = "exec"
  BY TaskMem
<1>3. SchedOK(sched[s], disk') /\ sched[s].task \in [Nodes -> TaskStates]
  BY SchedKeeps DEF Consistent, TypeOK, SchedStates
<1>4. \A k \in Nodes : sched'[s].task[k] # "none" => NeedsDone(disk', k)
  BY <1>1, <1>3 DEF SchedOK, Task
<1> QED BY <1>1, <1>2, <1>4, OpenSound DEF SchedOK

\* Every executor step preserves the invariant.
LEMMA TaskConsistent ==
    ASSUME TypeOK, Consistent, NEW s \in Scheds, NEW n \in Nodes, TaskNext(s, n)
    PROVE  Consistent'
<1>g. Grows
  BY StepGrows DEF Next
<1>c. SchedOK(sched[s], disk) /\ Sound(sched[s].mem) /\ Sound(disk)
  BY DEF Consistent, SchedOK
<1>m. sched[s].mem \in RunRecords /\ sched[s].layer \subseteq Nodes
  BY DEF TypeOK, SchedStates
<1>t. Task(s, n) # "none"
  BY DEF TaskNext, TaskProgress, TaskLaunchSession, TaskLinkSession, TaskRetry, TaskComplete,
         TaskFail, TaskBlock
<1>o. sched[s].mem.status \in {"running", "blocked"}
  BY <1>t, TaskMem
<1>f. ASSUME NEW run, run.status \in {"running", "blocked"}, NEW to, TaskMoves(s, n, to, run),
             SaveAndEmit(run) \/ UNCHANGED disk, call' = call
      PROVE  Consistent'
  <2>1. Sound(run) /\ Sound(disk')
    BY <1>f, <1>c, OpenSound, SaveSound
  <2>2. /\ SchedOK(sched'[s], disk')
        /\ \A t \in Scheds \ {s} : sched'[t] = sched[t]
    BY <1>f, <1>g, <1>t, TaskMovesOK
  <2> QED BY <1>f, <2>1, <2>2, <1>g, SchedFrame
<1>1. CASE TaskProgress(s, n)
  <2>1. Sound(disk')
    BY <1>1, <1>c, SaveSound DEF TaskProgress
  <2> QED BY <1>1, <2>1, <1>g, <1>c, <1>m, SchedKeeps, SchedFrame DEF TaskProgress
<1>2. CASE TaskLaunchSession(s, n)
  <2> DEFINE run == [sched[s].mem EXCEPT !.node[n].sid = TRUE]
  <2>1. run.status = sched[s].mem.status
    BY <1>m DEF RunRecords
  <2>2. TaskMoves(s, n, "link", run) /\ UNCHANGED disk /\ call' = call
    BY <1>2 DEF TaskLaunchSession
  <2> HIDE DEF run
  <2> QED BY <2>1, <2>2, <1>o, <1>f
<1>3. CASE TaskLinkSession(s, n)
  BY <1>3, <1>o, <1>f DEF TaskLinkSession
<1>4. CASE TaskRetry(s, n)
  BY <1>4, <1>o, <1>f DEF TaskRetry
<1>5. CASE TaskComplete(s, n)
  <2>1. PICK branch \in BranchSkips(n) :
              /\ SaveAndEmit(Completed(sched[s].mem, n, branch))
              /\ TaskMoves(s, n, "none", Completed(sched[s].mem, n, branch))
    BY <1>5 DEF TaskComplete
  <2>2. Completed(sched[s].mem, n, branch).status = sched[s].mem.status
    BY <1>m DEF Completed, Skipped, SetNode, RunRecords
  <2> QED BY <1>5, <2>1, <2>2, <1>o, <1>f DEF TaskComplete
<1>6. CASE TaskFail(s, n)
  <2>1. SetNode(sched[s].mem, n, "failed", now).status = sched[s].mem.status
    BY <1>m DEF SetNode, RunRecords
  <2>2. /\ SaveAndEmit(SetNode(sched[s].mem, n, "failed", now))
        /\ TaskMoves(s, n, "none", SetNode(sched[s].mem, n, "failed", now))
    BY <1>6 DEF TaskFail
  <2> QED BY <1>6, <2>1, <2>2, <1>o, <1>f DEF TaskFail
<1>7. CASE TaskBlock(s, n)
  <2> DEFINE run == [sched[s].mem EXCEPT !.status = "blocked",
                           !.node[n] = [@ EXCEPT !.st = "blocked", !.ok = FALSE]]
  <2>1. run.status = "blocked"
    BY <1>m DEF RunRecords
  <2>2. SaveAndEmit(run) /\ TaskMoves(s, n, "none", run)
    BY <1>7 DEF TaskBlock
  <2> HIDE DEF run
  <2> QED BY <1>7, <2>1, <2>2, <1>f DEF TaskBlock
<1> QED
  BY <1>1, <1>2, <1>3, <1>4, <1>5, <1>6, <1>7
     DEF TaskNext

\* Beginning and ending a call, and spawning a scheduler.
LEMMA BeginOK ==
    ASSUME TypeOK, NEW c \in Calls, NEW op, NEW run, NEW n, Sound(run),
           op \in {"revise", "revising"} => run.status = "blocked", Begin(c, op, run, n)
    PROVE  CallOK(call'[c]) /\ \A d \in Calls \ {c} : call'[d] = call[d]
  BY DEF TypeOK, Begin, CallOK

\* Ending a call preserves the calls' part of the invariant.
LEMMA EndCallOK ==
    ASSUME TypeOK, NEW c \in Calls, EndCall(c)
    PROVE  CallOK(call'[c]) /\ \A d \in Calls \ {c} : call'[d] = call[d]
  BY IdleOK DEF TypeOK, EndCall

\* Starting a scheduler preserves the schedulers' part of the invariant.
LEMMA SpawnOK ==
    ASSUME TypeOK, Consistent, Spawn
    PROVE  \A t \in Scheds : sched'[t] = sched[t] \/ SchedOK(sched'[t], disk')
<1>1. PICK s \in Scheds : At(s, "idle") /\ sched' = [sched EXCEPT ![s].pc = "spawn"]
  BY DEF Spawn
<1>2. /\ sched'[s].pc = "spawn" /\ sched'[s].mem = sched[s].mem
      /\ sched'[s].task = sched[s].task
      /\ \A t \in Scheds \ {s} : sched'[t] = sched[t]
  BY <1>1 DEF TypeOK, SchedStates
<1>3. Sound(sched[s].mem) /\ sched[s].task = NoTasks
  BY <1>1 DEF Consistent, SchedOK, At
<1>4. SchedOK(sched'[s], disk')
  BY <1>2, <1>3 DEF SchedOK, NoTasks
<1> QED BY <1>2, <1>4

\* Every step of a runner call preserves the invariant.
LEMMA CallConsistent ==
    ASSUME TypeOK, Consistent, NEW c \in Calls, CallNext(c)
    PROVE  Consistent'
<1>g. Grows
  BY StepGrows DEF Next
<1>c. Sound(call[c].mem) /\ Sound(disk) /\ CallOK(call[c])
  BY DEF Consistent, CallOK
<1>m. call[c].mem \in RunRecords /\ disk \in RunRecords
  BY DEF TypeOK, CallStates
<1>b. ASSUME NEW op, NEW run, NEW n, Sound(run), Sound(disk'), UNCHANGED sched,
             op \in {"revise", "revising"} => run.status = "blocked", Begin(c, op, run, n)
      PROVE  Consistent'
  BY <1>b, <1>g, BeginOK, CallFrame
<1>e. ASSUME NEW run, Sound(run), SaveAndEmit(run) \/ SaveOnly(run) \/ UNCHANGED disk,
             EndCall(c), UNCHANGED sched \/ Spawn
      PROVE  Consistent'
  <2>1. Sound(disk')
    BY <1>e, <1>c, SaveSound
  <2> QED BY <1>e, <2>1, <1>g, EndCallOK, SpawnOK, CallFrame
<1>1. CASE CancelBegin(c)
  <2>1. PICK run \in Reads : RequireRun(run) /\ Begin(c, "cancel", run, NoNode)
    BY <1>1 DEF CancelBegin
  <2>2. Sound(run) /\ Sound(disk')
    BY <2>1, <1>c, ReadSound
  <2> QED BY <1>1, <2>1, <2>2, <1>b DEF CancelBegin
<1>2. CASE TouchBegin(c)
  BY <1>2, <1>c, <1>b DEF TouchBegin
<1>3. CASE ReconcileBegin(c)
  BY <1>3, <1>c, <1>b DEF ReconcileBegin
<1>4. CASE ResumeBegin(c)
  <2>1. PICK run : /\ RequireRun(run)
                   /\ Begin(c, "resume", run, NoNode) \/ UNCHANGED call
    BY <1>4 DEF ResumeBegin
  <2>2. Sound(run) /\ Sound(disk')
    BY <2>1, <1>c, ReadSound
  <2>3. CASE UNCHANGED call
    BY <1>4, <2>2, <2>3, <1>g, <1>c, CallFrame DEF ResumeBegin
  <2> QED BY <1>4, <2>1, <2>2, <2>3, <1>b DEF ResumeBegin
<1>5. CASE RejectFollowUp(c)
  <2>1. Sound(disk')
    BY <1>5, <1>c, SaveSound DEF RejectFollowUp
  <2> QED BY <1>5, <2>1, <1>g, <1>c, CallFrame DEF RejectFollowUp
<1>6. CASE \E n \in Nodes : BrokerBegin(c, n)
  BY <1>6, <1>c, <1>b DEF BrokerBegin
<1>7. CASE \E n \in Nodes, op \in {"approve", "reject", "revise"} : DecideBegin(c, n, op)
  <2>1. PICK n \in Nodes, op \in {"approve", "reject", "revise"} : DecideBegin(c, n, op)
    BY <1>7
  <2>2. PICK run \in Reads : RequireRun(run) /\ run.status = "blocked" /\ Begin(c, op, run, n)
    BY <2>1 DEF DecideBegin
  <2>3. Sound(run) /\ Sound(disk')
    BY <2>2, <1>c, ReadSound
  <2> QED BY <2>1, <2>2, <2>3, <1>b DEF DecideBegin
<1>8. CASE CancelCommit(c)
  <2>1. Sound(CanceledRun(call[c].mem, call[c].at))
    BY OpenSound DEF CanceledRun
  <2> QED BY <1>8, <2>1, <1>e DEF CancelCommit
<1>9. CASE ApproveCommit(c)
  <2>1. Sound(ApprovedRun(call[c].mem, call[c].node, call[c].at))
    BY <1>m, OpenSound DEF ApprovedRun, RunRecords
  <2> QED BY <1>9, <2>1, <1>e DEF ApproveCommit
<1>10. CASE RejectCommit(c)
  <2> DEFINE set == SetNode(call[c].mem, call[c].node, "failed", call[c].at)
             run == [set EXCEPT !.status = "canceled", !.at = call[c].at]
  <2>1. run.status = "canceled"
    BY <1>m DEF SetNode, RunRecords
  <2>2. Sound(run)
    BY <2>1, OpenSound
  <2> QED BY <1>10, <2>2, <1>e DEF RejectCommit
<1>11. CASE ReviseRecord(c)
  BY <1>11, <1>c, <1>e DEF ReviseRecord
<1>12. CASE TouchCommit(c)
  BY <1>12, <1>c, <1>e DEF TouchCommit
<1>13. CASE ResumePaused(c)
  BY <1>13, <1>c, <1>e DEF ResumePaused
<1>14. CASE ReviseStart(c)
  <2> DEFINE n == call[c].node
             run == [call[c].mem EXCEPT !.node[n] = [@ EXCEPT !.st = "running", !.sid = TRUE]]
  <2>1. run.status = "blocked"
    BY <1>14, <1>m, <1>c DEF ReviseStart, InCall, CallOK, RunRecords
  <2>2. SaveAndEmit(run) /\ call' = [call EXCEPT ![c].op = "revising", ![c].mem = run]
    BY <1>14 DEF ReviseStart
  <2> HIDE DEF run
  <2>3. Sound(run) /\ Sound(disk')
    BY <2>1, <2>2, <1>c, OpenSound, SaveSound
  <2>4. CallOK(call'[c]) /\ \A d \in Calls \ {c} : call'[d] = call[d]
    BY <2>1, <2>2, <2>3 DEF CallOK, TypeOK, CallStates
  <2> QED BY <1>14, <2>3, <2>4, <1>g, CallFrame DEF ReviseStart
<1>15. CASE ReviseFinish(c)
  <2> DEFINE run == [call[c].mem EXCEPT !.status = "blocked", !.node[call[c].node].st = "blocked"]
  <2>1. run.status = "blocked"
    BY <1>m DEF RunRecords
  <2>2. SaveAndEmit(run) /\ Sound(run)
    BY <1>15, <2>1, OpenSound DEF ReviseFinish
  <2> HIDE DEF run
  <2> QED BY <1>15, <2>2, <1>e DEF ReviseFinish
<1>16. CASE ReviseThrows(c)
  BY <1>16, <1>c, <1>e DEF ReviseThrows
<1>17. CASE ReconcileCommit(c)
  <2>1. PICK F : SaveAndEmit(Recovered(call[c].mem, F))
    BY <1>17 DEF ReconcileCommit
  <2>2. Sound(Recovered(call[c].mem, F))
    BY <1>m, <1>c, RecoveredSound
  <2> QED BY <1>17, <2>1, <2>2, <1>e DEF ReconcileCommit
<1>18. CASE BrokerCommit(c)
  <2> DEFINE done == SetNode(call[c].mem, call[c].node, "completed", call[c].at)
             run == IF AllDone(done)
                    THEN [done EXCEPT !.status = "completed", !.at = call[c].at]
                    ELSE [done EXCEPT !.status = "running"]
  <2>1. SaveAndEmit(run) /\ call' = [call EXCEPT ![c] = [IdleCall EXCEPT !.op = "brokered"]]
    BY <1>18 DEF BrokerCommit
  <2>2. call[c].node \in Nodes
    BY <1>18 DEF BrokerCommit, InCall, TypeOK, NodeOps
  <2>3. done \in RunRecords
    BY <1>m, <2>2, SetNodeType DEF TypeOK, CallStates, NodeStatuses
  <2> HIDE DEF done
  <2>4. Sound(run)
    <3>1. CASE AllDone(done)
      <4>1. run.node = done.node
        BY <2>3, <3>1, StatusSet
      <4> QED BY <3>1, <4>1 DEF Sound, AllDone
    <3>2. CASE ~AllDone(done)
      BY <2>3, <3>2, StatusSound
    <3> QED BY <3>1, <3>2
  <2> HIDE DEF run
  <2>5. Sound(disk')
    BY <2>1, <2>4, <1>c, SaveSound
  <2>6. CallOK(call'[c]) /\ \A d \in Calls \ {c} : call'[d] = call[d]
    BY <2>1, IdleOK DEF TypeOK
  <2> QED BY <1>18, <2>5, <2>6, <1>g, CallFrame DEF BrokerCommit
<1>19. CASE BrokerResume(c)
  BY <1>19, <1>c, <1>e DEF BrokerResume
<1>20. CASE ResumeCommit(c)
  <2>1. /\ Requeued(call[c].mem).status = call[c].mem.status
        /\ \A n \in Nodes : NodeTerminal(call[c].mem.node[n].st)
                              => Requeued(call[c].mem).node[n] = call[c].mem.node[n]
    BY <1>m DEF Requeued, RunRecords, NodeTerminal
  <2>2. Sound(Requeued(call[c].mem))
    BY <2>1, <1>c DEF Sound, AllDone
  <2> QED BY <1>20, <2>2, <1>e DEF ResumeCommit
<1>21. CASE BrokerAgain(c)
  <2>1. CallOK(call'[c]) /\ \A d \in Calls \ {c} : call'[d] = call[d]
    BY <1>21, IdleOK DEF BrokerAgain, TypeOK
  <2> QED BY <1>21, <2>1, <1>c, <1>g, CallFrame DEF BrokerAgain
<1> QED
  BY <1>1, <1>2, <1>3, <1>4, <1>5, <1>6, <1>7, <1>8, <1>9, <1>10, <1>11, <1>12, <1>13, <1>14, <1>15, <1>16, <1>17, <1>18, <1>19, <1>20, <1>21
     DEF CallNext, CallEnds

\* Session ends, crashes and clock ticks preserve the invariant.
LEMMA EnvironmentConsistent ==
    ASSUME TypeOK, Consistent, Crash \/ Tick \/ \E n \in Nodes : SessionEnds(n)
    PROVE  Consistent'
<1>1. CASE Crash
  BY <1>1, IdleOK DEF Consistent, Crash
<1>2. CASE Tick \/ \E n \in Nodes : SessionEnds(n)
  <2>1. UNCHANGED <<disk, sched, call>>
    BY <1>2 DEF Tick, SessionEnds
  <2> QED BY <2>1 DEF Consistent
<1> QED BY <1>1, <1>2

\* The inductive invariant holds of every reachable state.
THEOREM ConsistentHolds == Spec => []Consistent
<1>1. Init => Consistent
  <2> SUFFICES ASSUME Init PROVE Consistent
    OBVIOUS
  <2>1. Sound(NewRun)
    BY DEF NewRun, Sound
  <2> QED BY <2>1, IdleOK DEF Init, Consistent
<1>2. TypeOK /\ Consistent /\ [Next]_vars => Consistent'
  <2> SUFFICES ASSUME TypeOK, Consistent, [Next]_vars PROVE Consistent'
    OBVIOUS
  <2>1. CASE UNCHANGED vars
    BY <2>1 DEF Consistent, vars
  <2> QED BY <2>1, SchedConsistent, TaskConsistent, CallConsistent, EnvironmentConsistent DEF Next
<1> QED BY <1>1, <1>2, TypeCorrect, PTL DEF Spec

-----------------------------------------------------------------------------
\* A run reads 'completed' only when all its nodes are done, whether the
\* scheduler, the action broker's command or the reconciler completed it.
THEOREM CompletionHolds == Spec => []CompletedMeansAllDone
<1>1. Consistent => CompletedMeansAllDone
  BY DEF Consistent, Sound, CompletedMeansAllDone
<1> QED BY <1>1, ConsistentHolds, PTL

\* No executor works on a node before, or without, its needs being done on disk
\* (findReadyNodeIds), two schedulers and crashes included.
THEOREM DependencyOrderHolds == Spec => []StartsAfterNeeds
<1>1. Consistent => StartsAfterNeeds
  BY DEF Consistent, SchedOK, NeedsDone, StartsAfterNeeds
<1> QED BY <1>1, ConsistentHolds, PTL

\* The branch of runner-scheduler.ts that blocks a run with 'unmet dependencies'
\* is dead code for a definition without cycles: an open node whose needs are
\* all done, and there is one, is ready, running or blocked.
THEOREM RunsNeverStuck == Spec => []NeverOrphaned
<1>1. TypeOK => NeverOrphaned
  <2> SUFFICES ASSUME TypeOK, ~AllDone(disk),
                      \A n \in Nodes : disk.node[n].st \notin {"running", "blocked"}
               PROVE  Ready(disk) # {}
    BY DEF NeverOrphaned
  <2> DEFINE Open == {n \in Nodes : ~NodeTerminal(disk.node[n].st)}
  <2>1. Open # {} /\ Open \in SUBSET Nodes
    BY DEF AllDone
  <2>2. PICK n \in Open : Needs[n] \cap Open = {}
    BY <2>1, ConstantsAssumption
  <2>3. disk.node[n].st \in NodeStatuses
    BY <2>2 DEF TypeOK, RunRecords, NodeStates
  <2>4. disk.node[n].st = "queued"
    BY <2>2, <2>3 DEF NodeStatuses, NodeTerminal
  <2>5. \A m \in Needs[n] : NodeTerminal(disk.node[m].st)
    BY <2>2, ConstantsAssumption
  <2> QED
    BY <2>2, <2>4, <2>5 DEF Ready
<1> QED BY <1>1, TypeCorrect, PTL

\* The record of a run implements the abstract life cycle.
THEOREM LifecycleHolds == Spec => ImplementsLifecycle
<1>1. Init => Lifecycle!LifecycleInit
  BY DEF Init, Lifecycle!LifecycleInit, DoneNodes, NewRun, NodeTerminal
<1>2. ASSUME TypeOK, TypeOK', Consistent', [Next]_vars
      PROVE  [Lifecycle!LifecycleNext]_<<disk.status, DoneNodes>>
  <2>1. /\ DoneNodes \subseteq DoneNodes'
        /\ DoneNodes' \in SUBSET Nodes
    BY <1>2, StepGrows DEF DoneNodes, Grows
  <2>2. /\ RunTerminal(disk.status) => RunTerminal(disk'.status)
        /\ disk.status = "canceled" => disk'.status = "canceled"
    BY <1>2, StepMerges, MergeKeepsTerminal, MergeKeepsCanceled
  <2>3. disk.status \in RunStatuses /\ disk'.status \in RunStatuses
    BY <1>2 DEF TypeOK, RunRecords
  <2>4. disk'.status = "completed" => DoneNodes' = Nodes
    BY <1>2 DEF Consistent, Sound, AllDone, DoneNodes
  <2>5. CASE RunTerminal(disk'.status)
    BY <2>1, <2>2, <2>4, <2>5 DEF Lifecycle!LifecycleNext, Lifecycle!End, RunTerminal
  <2>6. CASE ~RunTerminal(disk'.status)
    BY <2>1, <2>2, <2>3, <2>6
       DEF Lifecycle!LifecycleNext, Lifecycle!Proceed, Lifecycle!RunTerminal, RunTerminal, RunStatuses
  <2> QED BY <2>5, <2>6
<1> QED BY <1>1, <1>2, TypeCorrect, ConsistentHolds, PTL
        DEF Spec, ImplementsLifecycle, Lifecycle!LifecycleSpec
=============================================================================
