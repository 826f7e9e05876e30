----------------------------- MODULE WorkflowRun -----------------------------
(***************************************************************************)
(* The life of one workflow run inside the daemon: the layer scheduler and *)
(* its node executors (runner-scheduler.ts, node-executor.ts), and the     *)
(* calls that race with them: cancelRun, decideApproval, the broker's      *)
(* action_completed command, the reconciler behind every read, writers     *)
(* that only append an event, and the resumer after a crash.               *)
(*                                                                         *)
(* JavaScript is single threaded but every one of these operations awaits  *)
(* between reading the record from disk and saving it, so each is split at *)
(* its awaits: a read step copies the record into the operation's own      *)
(* memory, a later save step merges that copy back.  One save is one step: *)
(* WorkflowRunStore snapshots synchronously, queues the writes of a run in *)
(* FIFO order and renames into place, so the merges happen in the order of *)
(* the snapshots and a reader sees all or nothing of each.                 *)
(***************************************************************************)
EXTENDS WorkflowStore, FiniteSets

CONSTANTS
    Needs,        \* [Nodes -> SUBSET Nodes], the definition's needs (acyclic)
    Type,         \* [Nodes -> NodeTypes]
    Rule,         \* [Nodes -> trigger rules]
    Halts,        \* nodes whose policy.onFailure is 'halt' (the default)
    When,         \* [Nodes -> outcomes their when: expression can have]
    Structured,   \* nodes with a required structured output
    Retryable,    \* nodes with a retry policy
    Then, Else,   \* [Nodes -> SUBSET Nodes], the branches of condition nodes
    Preflight,    \* outcomes preflightWorkflow can have: "ok", "issues", "throws"
    Scheds,       \* concurrent invocations of scheduler.run the model allows
    Calls,        \* concurrent runner calls the model allows
    Ops,          \* the runner calls that may be made
    NoNode,       \* stands for "no node" in a call without one
    MaxTime,      \* bound on the millisecond clock
    MaxCrash      \* bound on daemon crashes

NodeTypes == {"shell", "prompt", "agent", "approval", "plan", "action", "git_publish", "condition"}
AllOps    == {"cancel", "approve", "reject", "revise", "touch", "broker", "reconcile"}

ASSUME ConstantsAssumption ==
    /\ Needs \in [Nodes -> SUBSET Nodes]
    /\ \A S \in SUBSET Nodes : S # {} => \E n \in S : Needs[n] \cap S = {}   \* no cycles
    /\ Type \in [Nodes -> NodeTypes]
    /\ Rule \in [Nodes -> {"all_success", "all_done", "one_success"}]
    /\ Halts \subseteq Nodes /\ Structured \subseteq Nodes /\ Retryable \subseteq Nodes
    /\ When \in [Nodes -> SUBSET {"true", "false", "throws"}]
    /\ Then \in [Nodes -> SUBSET Nodes] /\ Else \in [Nodes -> SUBSET Nodes]
    /\ Preflight \subseteq {"ok", "issues", "throws"}
    /\ Ops \subseteq AllOps
    /\ NoNode \notin Nodes
    /\ MaxTime \in Nat /\ MaxCrash \in Nat

VARIABLES
    disk,       \* the record in the run's JSON file
    sched,      \* scheduler.run invocations: program counter, record, layer, executors
    call,       \* runner calls in progress: operation, record, node, time stamp
    sess,       \* the agent session launched for each node
    active,     \* is the run in activeRunIds?
    now,        \* Date.now()
    published,  \* run status of the last workflow:run-updated event
    boot,       \* has the daemon restarted without having resumed pending runs?
    crashes     \* crashes so far

vars == <<disk, sched, call, sess, active, now, published, boot, crashes>>

PCs == {"idle", "spawn", "begin", "loop", "skip", "launch", "exec", "settled", "decide",
        "halt", "complete", "finish", "throw", "fail"}
TaskStates == {"none", "work", "link", "wait"}
CallOps == {"none", "cancel", "approve", "reject", "revise", "revising", "touch",
            "broker", "brokered", "reconcile", "resume"}
NodeOps == {"approve", "reject", "revise", "revising", "broker"}   \* these name a node
SessStates == {"none", "live", "idle", "errored", "killed"}

NoTasks   == [n \in Nodes |-> "none"]
IdleSched == [pc |-> "idle", mem |-> NewRun, layer |-> {}, task |-> NoTasks]
IdleCall  == [op |-> "none", mem |-> NewRun, node |-> NoNode, at |-> 0]

\* The state startRun leaves: the record saved, one scheduler about to start.
Init ==
    /\ disk = NewRun
    /\ \E s \in Scheds : sched = [x \in Scheds |-> IF x = s THEN [IdleSched EXCEPT !.pc = "spawn"]
                                                   ELSE IdleSched]
    /\ call = [c \in Calls |-> IdleCall]
    /\ sess = [n \in Nodes |-> "none"]
    /\ active = FALSE
    /\ now = 1
    /\ published = "queued"
    /\ boot = FALSE
    /\ crashes = 0

-----------------------------------------------------------------------------
(***************************************************************************)
(* Saving and reading                                                      *)
(***************************************************************************)

\* saveAndEmit: the merged record goes to disk, the unmerged one to the listeners.
SaveAndEmit(run) ==
    /\ disk' = Merge(run, disk)
    /\ published' = run.status

\* store.save without the event, as the resumer does.
SaveOnly(run) ==
    /\ disk' = Merge(run, disk)
    /\ UNCHANGED published

\* Running prompt nodes whose session the reconciler finds finished.
Recoverable(run) ==
    {n \in Nodes : /\ run.node[n].st = "running"
                   /\ Type[n] = "prompt"
                   /\ run.node[n].sid
                   /\ sess[n] \in {"idle", "errored", "killed"}}

\* Of those, the ones whose state reads 'errored'.  A killed session reads
\* 'completed' for the SDK adapters and 'errored' for the pty adapter.
ErroredChoices(run) ==
    {F \in SUBSET Recoverable(run) :
        /\ \A n \in Recoverable(run) : sess[n] = "errored" => n \in F
        /\ \A n \in F : sess[n] # "idle"}

\* Variant: the run is completed as soon as the recovered prompts are.
RecoveredTooSoon(run, F) ==
    LET R == Recoverable(run)
    IN  [status |-> CASE F # {} -> "failed" [] F = {} /\ R # {} -> "completed" [] OTHER -> run.status,
         at     |-> IF R # {} THEN now ELSE run.at,
         node   |-> [n \in Nodes |->
                       CASE n \in F     -> [run.node[n] EXCEPT !.st = "failed", !.at = now]
                         [] n \in R \ F -> [run.node[n] EXCEPT !.st = "completed", !.at = now]
                         [] OTHER       -> run.node[n]]]

\* WorkflowRunReconciler.reconcile applied to a record.
Recovered(run, F) ==
    LET R == Recoverable(run)
        stampOf(at) == IF at = 0 THEN now ELSE at
        node == [n \in Nodes |->
                   CASE n \in F     -> [run.node[n] EXCEPT !.st = "failed", !.at = now]
                     [] n \in R \ F -> [run.node[n] EXCEPT !.st = "completed", !.at = stampOf(@)]
                     [] OTHER       -> run.node[n]]
        allCompleted == \A n \in Nodes : node[n].st = "completed"
    IN  [status |-> CASE F # {} -> "failed"
                      [] F = {} /\ R # {} /\ allCompleted -> "completed"
                      [] OTHER -> run.status,
         at     |-> CASE F # {} -> now
                      [] F = {} /\ R # {} /\ allCompleted -> stampOf(run.at)
                      [] OTHER -> run.at,
         node   |-> node]

NeedsReconcile(run) ==
    ~active /\ run.status \in {"queued", "running"} /\ Recoverable(run) # {}

\* The records requireRun can return now.
Reads ==
    IF NeedsReconcile(disk)
    THEN {Recovered(disk, F) : F \in ErroredChoices(disk)}
    ELSE {disk}

\* requireRun returns run, having saved and emitted it if the reconciler changed it.
RequireRun(run) ==
    /\ run \in Reads
    /\ disk' = Merge(run, disk)
    /\ published' = IF NeedsReconcile(disk) THEN run.status ELSE published

-----------------------------------------------------------------------------
(***************************************************************************)
(* The scheduler, runner-scheduler.ts                                      *)
(***************************************************************************)

At(s, pc) == sched[s].pc = pc
Goto(s, pc, run) == sched' = [sched EXCEPT ![s].pc = pc, ![s].mem = run]

\* Leaving scheduler.run: the finally clause forgets the run in activeRunIds.
Exit(s) ==
    /\ sched' = [sched EXCEPT ![s] = IdleSched]
    /\ active' = FALSE

\* An exception leaves through the same finally; the catch calls failRun.
Throw(s) ==
    /\ sched' = [sched EXCEPT ![s] = [IdleSched EXCEPT !.pc = "throw"]]
    /\ active' = FALSE

\* void runSchedulerWithRunTimeout(...): some free invocation starts.
Spawn == \E s \in Scheds : At(s, "idle") /\ sched' = [sched EXCEPT ![s].pc = "spawn"]

\* Variants: one finished parent is enough, or every parent must have completed.
ReadyAfterOneParent(run) ==
    {n \in Nodes : /\ run.node[n].st = "queued"
                   /\ Needs[n] = {} \/ \E p \in Needs[n] : NodeTerminal(run.node[p].st)}
ReadyAfterSuccess(run) ==
    {n \in Nodes : /\ run.node[n].st = "queued"
                   /\ \A p \in Needs[n] : run.node[p].st = "completed"}

\* findReadyNodeIds.
Ready(run) ==
    {n \in Nodes : /\ run.node[n].st = "queued"
                   /\ \A p \in Needs[n] : NodeTerminal(run.node[p].st)}

\* Variant: terminal parents are enough whatever the rule.
TriggeredWhenDone(run, n) == \A p \in Needs[n] : NodeTerminal(run.node[p].st)

\* evaluateTriggerRule, for a node whose parents are all terminal.
Triggered(run, n) ==
    LET completed == {p \in Needs[n] : run.node[p].st = "completed"}
    IN  \/ Needs[n] = {}
        \/ Rule[n] = "all_success" /\ completed = Needs[n]
        \/ Rule[n] = "all_done"
        \/ Rule[n] = "one_success" /\ completed # {}

\* classifyLayer: the ready nodes that may be skipped in this pass.
SkipChoices(run) ==
    {S \in SUBSET Ready(run) :
        \A n \in Ready(run) :
            \/ n \in S /\ (~Triggered(run, n) \/ "false" \in When[n])
            \/ n \notin S /\ Triggered(run, n) /\ "true" \in When[n]}

\* markSkipped for every node of S.
Skipped(run, S) ==
    [run EXCEPT !.node = [n \in Nodes |->
        IF n \in S THEN [@[n] EXCEPT !.st = "skipped", !.at = now] ELSE @[n]]]

\* activeRunIds.add and the first requireRun (the run is active: no reconciling).
SchedBoot(s) ==
    /\ At(s, "spawn")
    /\ active' = TRUE
    /\ Goto(s, "begin", disk)
    /\ UNCHANGED <<disk, call, sess, now, published, boot, crashes>>

\* Preflight passed: the run is running, whatever its status was.
SchedBegin(s) ==
    /\ At(s, "begin") /\ "ok" \in Preflight
    /\ SaveAndEmit([sched[s].mem EXCEPT !.status = "running"])
    /\ Goto(s, "loop", NewRun)
    /\ UNCHANGED <<call, sess, active, now, boot, crashes>>

SchedPreflightIssues(s) ==
    /\ At(s, "begin") /\ "issues" \in Preflight
    /\ SaveAndEmit([sched[s].mem EXCEPT !.status = "blocked", !.at = now])
    /\ Exit(s)
    /\ UNCHANGED <<call, sess, now, boot, crashes>>

SchedPreflightThrows(s) ==
    /\ At(s, "begin") /\ "throws" \in Preflight
    /\ Throw(s)
    /\ UNCHANGED <<disk, call, sess, now, published, boot, crashes>>

\* Top of the loop: the run is no longer running.
SchedStop(s) ==
    /\ At(s, "loop")
    /\ \E run \in Reads :
        /\ RequireRun(run)
        /\ run.status # "running"
    /\ Exit(s)
    /\ UNCHANGED <<call, sess, now, boot, crashes>>

\* Nothing is ready and every node is terminal: leave the loop.
SchedDrained(s) ==
    /\ At(s, "loop")
    /\ \E run \in Reads :
        /\ RequireRun(run)
        /\ run.status = "running"
        /\ AllDone(run)
    /\ Goto(s, "complete", NewRun)
    /\ UNCHANGED <<call, sess, active, now, boot, crashes>>

\* Nothing is ready but something runs: sleep 250 ms and look again.
SchedWait(s) ==
    /\ At(s, "loop")
    /\ \E run \in Reads :
        /\ RequireRun(run)
        /\ run.status = "running"
        /\ Ready(run) = {}
        /\ \E n \in Nodes : run.node[n].st = "running"
    /\ UNCHANGED <<sched, call, sess, active, now, boot, crashes>>

\* The loop's safety counter ends that wait with an exception.
SchedWaitsTooLong(s) ==
    /\ At(s, "loop")
    /\ \E run \in Reads :
        /\ RequireRun(run)
        /\ run.status = "running"
        /\ Ready(run) = {}
        /\ \E n \in Nodes : run.node[n].st = "running"
    /\ Throw(s)
    /\ UNCHANGED <<call, sess, now, boot, crashes>>

\* Nothing is ready or running, a gate is pending: stop, status left as it is.
SchedParked(s) ==
    /\ At(s, "loop")
    /\ \E run \in Reads :
        /\ RequireRun(run)
        /\ run.status = "running"
        /\ Ready(run) = {}
        /\ \A n \in Nodes : run.node[n].st # "running"
        /\ \E n \in Nodes : run.node[n].st = "blocked"
    /\ Exit(s)
    /\ UNCHANGED <<call, sess, now, boot, crashes>>

\* Variant: the skipped nodes stay in the layer that is executed.
SchedLayerKeepsSkipped(s) ==
    /\ At(s, "loop")
    /\ \E run \in Reads :
        /\ RequireRun(run)
        /\ run.status = "running"
        /\ Ready(run) # {}
        /\ \E S \in SkipChoices(run) :
            sched' = [sched EXCEPT ![s] =
                        [pc |-> IF S = {} THEN "launch" ELSE "skip", mem |-> Skipped(run, S),
                         layer |-> Ready(run), task |-> NoTasks]]
    /\ UNCHANGED <<call, sess, active, now, boot, crashes>>

\* A layer: classified into nodes to skip and nodes to execute.
SchedLayer(s) ==
    /\ At(s, "loop")
    /\ \E run \in Reads :
        /\ RequireRun(run)
        /\ run.status = "running"
        /\ Ready(run) # {}
        /\ \E S \in SkipChoices(run) :
            sched' = [sched EXCEPT ![s] =
                        [pc    |-> IF S = {} THEN "launch" ELSE "skip",
                         mem   |-> Skipped(run, S),
                         layer |-> Ready(run) \ S,
                         task  |-> NoTasks]]
    /\ UNCHANGED <<call, sess, active, now, boot, crashes>>

\* A when: expression of the layer throws.
SchedGuardThrows(s) ==
    /\ At(s, "loop")
    /\ \E run \in Reads :
        /\ RequireRun(run)
        /\ run.status = "running"
        /\ \E n \in Ready(run) : Triggered(run, n) /\ "throws" \in When[n]
    /\ Throw(s)
    /\ UNCHANGED <<call, sess, now, boot, crashes>>

SchedSaveSkips(s) ==
    /\ At(s, "skip")
    /\ SaveAndEmit(sched[s].mem)
    /\ IF sched[s].layer = {} THEN Goto(s, "loop", NewRun)
                              ELSE Goto(s, "launch", sched[s].mem)
    /\ UNCHANGED <<call, sess, active, now, boot, crashes>>

\* Every executor of the layer marks its node running and saves, before any
\* of them awaits anything.
SchedLaunch(s) ==
    /\ At(s, "launch")
    /\ LET run == [sched[s].mem EXCEPT !.node = [n \in Nodes |->
                     IF n \in sched[s].layer THEN [@[n] EXCEPT !.st = "running"] ELSE @[n]]]
       IN  /\ SaveAndEmit(run)
           /\ sched' = [sched EXCEPT ![s].pc = "exec", ![s].mem = run,
                          ![s].task = [n \in Nodes |->
                              IF n \in sched[s].layer THEN "work" ELSE "none"]]
    /\ UNCHANGED <<call, sess, active, now, boot, crashes>>

-----------------------------------------------------------------------------
(***************************************************************************)
(* Node executors, node-executor.ts and node-registry.ts.  The executors   *)
(* of a layer share the scheduler's record sched[s].mem.                   *)
(***************************************************************************)

Task(s, n)     == sched[s].task[n]
UsesSession(n) == Type[n] \in {"prompt", "agent"}
Decidable(n)   == Type[n] \in {"approval", "plan", "action", "git_publish"}

\* May the executor finish in a block, or in completion, given the approval?
MayBlock(n, approved) ==
    \/ Type[n] \in {"approval", "plan", "git_publish"}
    \/ Type[n] = "action" /\ ~approved
MayComplete(n, approved) ==
    \/ Type[n] \in {"shell", "condition", "git_publish"}
    \/ Type[n] = "action" /\ approved

\* The branches a condition node can skip; nothing for the other types.
BranchSkips(n) == IF Type[n] = "condition" THEN {Then[n], Else[n]} ELSE {{}}

SetNode(run, n, st, at) == [run EXCEPT !.node[n] = [@ EXCEPT !.st = st, !.at = at]]

\* The record with n finished and the still queued nodes of a branch skipped.
Completed(run, n, branch) ==
    LET done == SetNode(run, n, "completed", now)
    IN  Skipped(done, {m \in branch : done.node[m].st = "queued"})

TaskMoves(s, n, to, run) == sched' = [sched EXCEPT ![s].task[n] = to, ![s].mem = run]

\* Saves along the way: log chunks, artifacts, budget events, a retry of a
\* node without a session.
TaskProgress(s, n) ==
    /\ Task(s, n) \in {"work", "wait"}
    /\ SaveAndEmit(sched[s].mem)
    /\ UNCHANGED <<sched, call, sess, active, now, boot, crashes>>

\* launchSession returns; the shared record learns the session id ...
TaskLaunchSession(s, n) ==
    /\ Task(s, n) = "work" /\ UsesSession(n)
    /\ sess' = [sess EXCEPT ![n] = "live"]
    /\ TaskMoves(s, n, "link", [sched[s].mem EXCEPT !.node[n].sid = TRUE])
    /\ UNCHANGED <<disk, call, active, now, published, boot, crashes>>

\* ... and the session link is stored before the record is saved.
TaskLinkSession(s, n) ==
    /\ Task(s, n) = "link"
    /\ SaveAndEmit(sched[s].mem)
    /\ TaskMoves(s, n, "wait", sched[s].mem)
    /\ UNCHANGED <<call, sess, active, now, boot, crashes>>

\* The session failed and the retry policy allows another attempt.
TaskRetry(s, n) ==
    /\ Task(s, n) = "wait" /\ n \in Retryable
    /\ sess[n] \in {"errored", "killed"}
    /\ SaveAndEmit(sched[s].mem)
    /\ TaskMoves(s, n, "work", sched[s].mem)
    /\ UNCHANGED <<call, sess, active, now, boot, crashes>>

\* Success.  A session counts as successful when it went idle, and also when
\* it was killed: 'killed' is no failed session reason.
TaskComplete(s, n) ==
    /\ \/ Task(s, n) = "work" /\ MayComplete(n, sched[s].mem.node[n].ok)
       \/ Task(s, n) = "wait" /\ sess[n] \in {"idle", "killed"}
    /\ \E branch \in BranchSkips(n) :
        LET run == Completed(sched[s].mem, n, branch)
        IN  /\ SaveAndEmit(run)
            /\ TaskMoves(s, n, "none", run)
    /\ UNCHANGED <<call, sess, active, now, boot, crashes>>

\* The last attempt throws.  A session that timed out or waits for a
\* permission is killed first.
TaskFail(s, n) ==
    /\ Task(s, n) # "none"
    /\ sess' = IF Task(s, n) = "wait" /\ sess[n] = "live" THEN [sess EXCEPT ![n] = "killed"]
               ELSE sess
    /\ LET run == SetNode(sched[s].mem, n, "failed", now)
       IN  /\ SaveAndEmit(run)
           /\ TaskMoves(s, n, "none", run)
    /\ UNCHANGED <<call, active, now, boot, crashes>>

\* blockForApproval: the executor also blocks the run it shares.
TaskBlock(s, n) ==
    /\ Task(s, n) = "work" /\ MayBlock(n, sched[s].mem.node[n].ok)
    /\ LET run == [sched[s].mem EXCEPT !.status = "blocked",
                                       !.node[n] = [@ EXCEPT !.st = "blocked", !.ok = FALSE]]
       IN  /\ SaveAndEmit(run)
           /\ TaskMoves(s, n, "none", run)
    /\ UNCHANGED <<call, sess, active, now, boot, crashes>>

-----------------------------------------------------------------------------
(***************************************************************************)
(* The scheduler after a layer                                             *)
(***************************************************************************)

\* Promise.allSettled returned: reread the record ...
SchedSettle(s) ==
    /\ At(s, "exec") /\ sched[s].task = NoTasks
    /\ \E run \in Reads :
        /\ RequireRun(run)
        /\ Goto(s, "settled", run)
    /\ UNCHANGED <<call, sess, active, now, boot, crashes>>

\* ... capture structured outputs and save.
SchedSaveSettled(s) ==
    /\ At(s, "settled")
    /\ SaveAndEmit(sched[s].mem)
    /\ Goto(s, "decide", NewRun)
    /\ UNCHANGED <<call, sess, active, now, boot, crashes>>

\* A required structured output is invalid: the node fails, completedAt stays.
SchedInvalidOutput(s) ==
    /\ At(s, "settled")
    /\ \E n \in sched[s].layer \cap Structured :
        /\ sched[s].mem.node[n].st = "completed"
        /\ SaveAndEmit([sched[s].mem EXCEPT !.node[n].st = "failed"])
    /\ Throw(s)
    /\ UNCHANGED <<call, sess, now, boot, crashes>>

\* Variant: the layer halts the run only if all of it failed.
HaltingIfAllFailed(run, layer) ==
    {n \in layer \cap Halts : \A m \in layer : run.node[m].st = "failed"}

HaltingFailures(run, layer) == {n \in layer \cap Halts : run.node[n].st = "failed"}

\* Decide on the layer's outcome: halt, stop at a gate, or the next layer.
SchedDecideHalt(s) ==
    /\ At(s, "decide")
    /\ \E run \in Reads :
        /\ RequireRun(run)
        /\ HaltingFailures(run, sched[s].layer) # {}
        /\ Goto(s, "halt", run)
    /\ UNCHANGED <<call, sess, active, now, boot, crashes>>

SchedDecideBlocked(s) ==
    /\ At(s, "decide")
    /\ \E run \in Reads :
        /\ RequireRun(run)
        /\ HaltingFailures(run, sched[s].layer) = {}
        /\ \E n \in sched[s].layer : run.node[n].st = "blocked"
    /\ Exit(s)
    /\ UNCHANGED <<call, sess, now, boot, crashes>>

SchedDecideNext(s) ==
    /\ At(s, "decide")
    /\ \E run \in Reads :
        /\ RequireRun(run)
        /\ HaltingFailures(run, sched[s].layer) = {}
        /\ \A n \in sched[s].layer : run.node[n].st # "blocked"
    /\ sched' = [sched EXCEPT ![s] = [IdleSched EXCEPT !.pc = "loop"]]
    /\ UNCHANGED <<call, sess, active, now, boot, crashes>>

SchedHalt(s) ==
    /\ At(s, "halt")
    /\ SaveAndEmit([sched[s].mem EXCEPT !.status = "failed", !.at = now])
    /\ Exit(s)
    /\ UNCHANGED <<call, sess, now, boot, crashes>>

\* After the loop: reread, and complete the run if it is still running.
SchedComplete(s) ==
    /\ At(s, "complete")
    /\ \E run \in Reads :
        /\ RequireRun(run)
        /\ run.status = "running"
        /\ Goto(s, "finish", run)
    /\ UNCHANGED <<call, sess, active, now, boot, crashes>>

SchedNotCompleted(s) ==
    /\ At(s, "complete")
    /\ \E run \in Reads :
        /\ RequireRun(run)
        /\ run.status # "running"
    /\ Exit(s)
    /\ UNCHANGED <<call, sess, now, boot, crashes>>

SchedFinish(s) ==
    /\ At(s, "finish")
    /\ SaveAndEmit([sched[s].mem EXCEPT !.status = "completed", !.at = now])
    /\ Exit(s)
    /\ UNCHANGED <<call, sess, now, boot, crashes>>

\* failRun, from the catch of whoever started the scheduler.
FailRunRead(s) ==
    /\ At(s, "throw")
    /\ \E run \in Reads :
        /\ RequireRun(run)
        /\ IF RunTerminal(run.status) THEN Goto(s, "idle", NewRun) ELSE Goto(s, "fail", run)
    /\ UNCHANGED <<call, sess, active, now, boot, crashes>>

FailRunSave(s) ==
    /\ At(s, "fail")
    /\ SaveAndEmit([sched[s].mem EXCEPT !.status = "failed", !.at = now])
    /\ sched' = [sched EXCEPT ![s] = IdleSched]
    /\ UNCHANGED <<call, sess, active, now, boot, crashes>>

-----------------------------------------------------------------------------
(***************************************************************************)
(* Runner calls.  Each reads in its first step and saves in a later one.   *)
(***************************************************************************)

Begin(c, op, run, n) ==
    call' = [call EXCEPT ![c] = [op |-> op, mem |-> run, node |-> n, at |-> now]]
InCall(c, op) == call[c].op = op
EndCall(c)    == call' = [call EXCEPT ![c] = IdleCall]
Free(c, op)   == InCall(c, "none") /\ op \in Ops

\* cancelRun: read, forget the run, abort its shells, kill the sessions the
\* record names ...
CancelBegin(c) ==
    /\ Free(c, "cancel")
    /\ \E run \in Reads :
        /\ RequireRun(run)
        /\ ~RunTerminal(run.status)
        /\ Begin(c, "cancel", run, NoNode)
        /\ sess' = [n \in Nodes |-> IF run.node[n].sid /\ sess[n] = "live" THEN "killed"
                                    ELSE sess[n]]
    /\ active' = FALSE
    /\ UNCHANGED <<sched, now, boot, crashes>>

\* ... then cancel every open node of the record read before, and save.
CanceledRun(run, at) ==
    [status |-> "canceled", at |-> at,
     node |-> [n \in Nodes |-> IF NodeTerminal(run.node[n].st) THEN run.node[n]
                               ELSE [run.node[n] EXCEPT !.st = "canceled", !.at = at]]]

CancelCommit(c) ==
    /\ InCall(c, "cancel")
    /\ SaveAndEmit(CanceledRun(call[c].mem, call[c].at))
    /\ EndCall(c)
    /\ UNCHANGED <<sched, sess, active, now, boot, crashes>>

\* decideApproval up to the choice of the decision.
DecideBegin(c, n, op) ==
    /\ Free(c, op) /\ op \in {"approve", "reject", "revise"}
    /\ Decidable(n) /\ (op = "revise" => Type[n] = "plan")
    /\ \E run \in Reads :
        /\ RequireRun(run)
        /\ run.status = "blocked" /\ run.node[n].st = "blocked"
        /\ Begin(c, op, run, n)
    /\ UNCHANGED <<sched, sess, active, now, boot, crashes>>

\* Variant: the state of the approval is written as the status of the node.
ApprovedAsStatus(run, n, at) ==
    [run EXCEPT !.status = "running",
                !.node[n] = [@ EXCEPT !.st = "approved", !.at = at, !.ok = TRUE]]

\* Granted: an action or publication is queued again, a gate is complete.
ApprovedRun(run, n, at) ==
    LET again == Type[n] \in {"action", "git_publish"}
    IN  [run EXCEPT !.status = "running",
                    !.node[n] = [@ EXCEPT !.st = IF again THEN "queued" ELSE "completed",
                                          !.at = IF again THEN 0 ELSE at,
                                          !.ok = TRUE]]

ApproveCommit(c) ==
    /\ InCall(c, "approve")
    /\ SaveAndEmit(ApprovedRun(call[c].mem, call[c].node, call[c].at))
    /\ Spawn
    /\ EndCall(c)
    /\ UNCHANGED <<sess, active, now, boot, crashes>>

\* The onReject prompt saves the record it was given while it runs.
RejectFollowUp(c) ==
    /\ InCall(c, "reject") /\ Type[call[c].node] = "approval"
    /\ SaveAndEmit(call[c].mem)
    /\ UNCHANGED <<sched, call, sess, active, now, boot, crashes>>

RejectCommit(c) ==
    /\ InCall(c, "reject")
    /\ SaveAndEmit([SetNode(call[c].mem, call[c].node, "failed", call[c].at)
                       EXCEPT !.status = "canceled", !.at = call[c].at])
    /\ EndCall(c)
    /\ UNCHANGED <<sched, sess, active, now, boot, crashes>>

\* request_changes on a plan without a revision prompt only records the request.
ReviseRecord(c) ==
    /\ InCall(c, "revise")
    /\ SaveAndEmit(call[c].mem)
    /\ EndCall(c)
    /\ UNCHANGED <<sched, sess, active, now, boot, crashes>>

\* With one, a revision session is launched and linked: the node runs again.
ReviseStart(c) ==
    /\ InCall(c, "revise")
    /\ LET n == call[c].node
           run == [call[c].mem EXCEPT !.node[n] = [@ EXCEPT !.st = "running", !.sid = TRUE]]
       IN  /\ SaveAndEmit(run)
           /\ sess' = [sess EXCEPT ![n] = "live"]
           /\ call' = [call EXCEPT ![c].op = "revising", ![c].mem = run]
    /\ UNCHANGED <<sched, active, now, boot, crashes>>

ReviseFinish(c) ==
    /\ InCall(c, "revising") /\ sess[call[c].node] \in {"idle", "killed"}
    /\ SaveAndEmit([call[c].mem EXCEPT !.status = "blocked",
                                       !.node[call[c].node].st = "blocked"])
    /\ EndCall(c)
    /\ UNCHANGED <<sched, sess, active, now, boot, crashes>>

\* The revision session failed or timed out: the exception leaves decideApproval.
ReviseThrows(c) ==
    /\ InCall(c, "revising")
    /\ sess' = [sess EXCEPT ![call[c].node] = IF @ = "live" THEN "killed" ELSE @]
    /\ EndCall(c)
    /\ UNCHANGED <<disk, sched, active, now, published, boot, crashes>>

\* Writers that only add to the record: a hook event of some node's session,
\* the output of such a session backfilled by a reader, or a platform command
\* marked as consumed while the run is blocked.
TouchBegin(c) ==
    /\ Free(c, "touch")
    /\ disk.status = "blocked" \/ \E n \in Nodes : sess[n] # "none"
    /\ Begin(c, "touch", disk, NoNode)
    /\ UNCHANGED <<disk, sched, sess, active, now, published, boot, crashes>>

TouchCommit(c) ==
    /\ InCall(c, "touch")
    /\ SaveAndEmit(call[c].mem)
    /\ EndCall(c)
    /\ UNCHANGED <<sched, sess, active, now, boot, crashes>>

\* The reconciler behind getRun and listRuns, its session lookups awaited.
ReconcileBegin(c) ==
    /\ Free(c, "reconcile")
    /\ NeedsReconcile(disk)
    /\ Begin(c, "reconcile", disk, NoNode)
    /\ UNCHANGED <<disk, sched, sess, active, now, published, boot, crashes>>

ReconcileCommit(c) ==
    /\ InCall(c, "reconcile")
    /\ \E F \in ErroredChoices(call[c].mem) :
        SaveAndEmit(Recovered(call[c].mem, F))
    /\ EndCall(c)
    /\ UNCHANGED <<sched, sess, active, now, boot, crashes>>

\* The platform's action broker executed an action node.  It executes what
\* the node proposed, so the node has blocked for approval before.
BrokerBegin(c, n) ==
    /\ Free(c, "broker") /\ Type[n] = "action"
    /\ ~RunTerminal(disk.status)
    /\ ~NodeTerminal(disk.node[n].st)
    /\ disk.node[n].st = "blocked" \/ disk.node[n].ok
    /\ Begin(c, "broker", disk, n)
    /\ UNCHANGED <<disk, sched, sess, active, now, published, boot, crashes>>

\* Variant: the run is completed when nothing is queued or running.
BrokerCommitTooSoon(c) ==
    /\ InCall(c, "broker")
    /\ LET done == SetNode(call[c].mem, call[c].node, "completed", call[c].at)
       IN  SaveAndEmit(IF \A n \in Nodes : done.node[n].st \notin {"queued", "running"}
                       THEN [done EXCEPT !.status = "completed", !.at = call[c].at]
                       ELSE [done EXCEPT !.status = "running"])
    /\ call' = [call EXCEPT ![c] = [IdleCall EXCEPT !.op = "brokered"]]
    /\ UNCHANGED <<sched, sess, active, now, boot, crashes>>

BrokerCommit(c) ==
    /\ InCall(c, "broker")
    /\ LET done == SetNode(call[c].mem, call[c].node, "completed", call[c].at)
       IN  SaveAndEmit(IF AllDone(done)
                       THEN [done EXCEPT !.status = "completed", !.at = call[c].at]
                       ELSE [done EXCEPT !.status = "running"])
    /\ call' = [call EXCEPT ![c] = [IdleCall EXCEPT !.op = "brokered"]]
    /\ UNCHANGED <<sched, sess, active, now, boot, crashes>>

\* The command is delivered again: the node is completed, nothing is saved, but
\* the command counts as applied and the run is resumed all the same.
BrokerAgain(c) ==
    /\ Free(c, "broker")
    /\ \E n \in Nodes : Type[n] = "action" /\ disk.node[n].st = "completed"
    /\ call' = [call EXCEPT ![c] = [IdleCall EXCEPT !.op = "brokered"]]
    /\ UNCHANGED <<disk, sched, sess, active, now, published, boot, crashes>>

\* applyRuntimeCommandBody resumes the run unless it looks scheduled.
BrokerResume(c) ==
    /\ InCall(c, "brokered")
    /\ IF disk.status = "running" /\ ~active THEN Spawn ELSE UNCHANGED sched
    /\ EndCall(c)
    /\ UNCHANGED <<disk, sess, active, now, published, boot, crashes>>

-----------------------------------------------------------------------------
(***************************************************************************)
(* Crash and restart, runner-resumer.ts                                    *)
(***************************************************************************)

Crash ==
    /\ crashes < MaxCrash
    /\ crashes' = crashes + 1
    /\ sched' = [s \in Scheds |-> IdleSched]
    /\ call' = [c \in Calls |-> IdleCall]
    /\ active' = FALSE
    /\ boot' = TRUE
    /\ UNCHANGED <<disk, sess, now, published>>

\* Variant: only runs that never started are resumed.
ResumeBeginQueuedOnly(c) ==
    /\ boot /\ InCall(c, "none")
    /\ \E run \in IF disk.status = "queued" THEN Reads ELSE {disk} :
        /\ RequireRun(run)
        /\ IF run.status = "queued" THEN Begin(c, "resume", run, NoNode) ELSE UNCHANGED call
    /\ boot' = FALSE
    /\ UNCHANGED <<sched, sess, active, now, crashes>>

\* resumePendingRuns meets the run: blocked and terminal runs are left alone.
ResumeBegin(c) ==
    /\ boot /\ InCall(c, "none")
    /\ \E run \in IF disk.status \in {"running", "queued"} THEN Reads ELSE {disk} :
        /\ RequireRun(run)
        /\ IF run.status \in {"running", "queued"} THEN Begin(c, "resume", run, NoNode)
                                                   ELSE UNCHANGED call
    /\ boot' = FALSE
    /\ UNCHANGED <<sched, sess, active, now, crashes>>

InFlightPrompt(run) ==
    \E n \in Nodes : run.node[n].st = "running" /\ Type[n] = "prompt" /\ run.node[n].sid

Requeued(run) ==
    [run EXCEPT !.node = [n \in Nodes |->
        IF @[n].st = "running" THEN [@[n] EXCEPT !.st = "queued"] ELSE @[n]]]

ResumePaused(c) ==
    /\ InCall(c, "resume") /\ InFlightPrompt(call[c].mem)
    /\ SaveOnly(call[c].mem)
    /\ EndCall(c)
    /\ UNCHANGED <<sched, sess, active, now, boot, crashes>>

\* The record is saved only if some node had to be requeued.
ResumeCommit(c) ==
    /\ InCall(c, "resume") /\ ~InFlightPrompt(call[c].mem)
    /\ IF \E n \in Nodes : call[c].mem.node[n].st = "running"
       THEN SaveOnly(Requeued(call[c].mem))
       ELSE UNCHANGED <<disk, published>>
    /\ Spawn
    /\ EndCall(c)
    /\ UNCHANGED <<sess, active, now, boot, crashes>>

-----------------------------------------------------------------------------
\* The environment: sessions end by themselves, the clock ticks.
SessionEnds(n) ==
    /\ sess[n] = "live"
    /\ \E end \in {"idle", "errored"} : sess' = [sess EXCEPT ![n] = end]
    /\ UNCHANGED <<disk, sched, call, active, now, published, boot, crashes>>

Tick ==
    /\ now < MaxTime
    /\ now' = now + 1
    /\ UNCHANGED <<disk, sched, call, sess, active, published, boot, crashes>>

TaskNext(s, n) ==
    \/ TaskProgress(s, n) \/ TaskLaunchSession(s, n) \/ TaskLinkSession(s, n)
    \/ TaskRetry(s, n) \/ TaskComplete(s, n) \/ TaskFail(s, n) \/ TaskBlock(s, n)

SchedNext(s) ==
    \/ SchedBoot(s) \/ SchedBegin(s) \/ SchedPreflightIssues(s) \/ SchedPreflightThrows(s)
    \/ SchedStop(s) \/ SchedDrained(s) \/ SchedWait(s) \/ SchedWaitsTooLong(s)
    \/ SchedParked(s)
    \/ SchedLayer(s) \/ SchedGuardThrows(s) \/ SchedSaveSkips(s) \/ SchedLaunch(s)
    \/ SchedSettle(s) \/ SchedSaveSettled(s) \/ SchedInvalidOutput(s)
    \/ SchedDecideHalt(s) \/ SchedDecideBlocked(s) \/ SchedDecideNext(s) \/ SchedHalt(s)
    \/ SchedComplete(s) \/ SchedNotCompleted(s) \/ SchedFinish(s)
    \/ FailRunRead(s) \/ FailRunSave(s)

CallEnds(c) ==
    \/ CancelCommit(c) \/ ApproveCommit(c) \/ RejectCommit(c)
    \/ ReviseRecord(c) \/ ReviseStart(c) \/ ReviseFinish(c) \/ ReviseThrows(c)
    \/ TouchCommit(c) \/ ReconcileCommit(c) \/ BrokerCommit(c) \/ BrokerResume(c)
    \/ ResumePaused(c) \/ ResumeCommit(c)

CallNext(c) ==
    \/ CancelBegin(c) \/ TouchBegin(c) \/ ReconcileBegin(c) \/ ResumeBegin(c)
    \/ RejectFollowUp(c) \/ BrokerAgain(c)
    \/ \E n \in Nodes : BrokerBegin(c, n)
    \/ \E n \in Nodes, op \in {"approve", "reject", "revise"} : DecideBegin(c, n, op)
    \/ CallEnds(c)

Next ==
    \/ \E s \in Scheds : SchedNext(s)
    \/ \E s \in Scheds, n \in Nodes : TaskNext(s, n)
    \/ \E c \in Calls : CallNext(c)
    \/ \E n \in Nodes : SessionEnds(n)
    \/ Crash
    \/ Tick

Spec == Init /\ [][Next]_vars

(***************************************************************************)
(* Fairness.  The event loop runs every pending continuation, so a         *)
(* scheduler, an executor and a call in progress keep moving; an executor  *)
(* ends because its process or session has a timeout.  A started daemon    *)
(* resumes its runs.  Nothing is assumed of the users or of the clock.     *)
(***************************************************************************)
TaskEnds(s, n) == TaskLaunchSession(s, n) \/ TaskLinkSession(s, n) \/ TaskComplete(s, n)
                  \/ TaskFail(s, n) \/ TaskBlock(s, n)

Fairness ==
    /\ \A s \in Scheds : WF_vars(SchedNext(s))
    /\ \A s \in Scheds, n \in Nodes : WF_vars(TaskEnds(s, n))
    /\ \A c \in Calls : WF_vars(CallEnds(c))
    /\ WF_vars(\E c \in Calls : ResumeBegin(c))

FairSpec == Spec /\ Fairness

-----------------------------------------------------------------------------
(***************************************************************************)
(* Properties                                                              *)
(***************************************************************************)

SchedStates == [pc : PCs, mem : RunRecords, layer : SUBSET Nodes, task : [Nodes -> TaskStates]]
CallStates  == [op : CallOps, mem : RunRecords, node : Nodes \cup {NoNode}, at : Nat]

\* Every variable has its type.
TypeOK ==
    /\ disk \in RunRecords
    /\ sched \in [Scheds -> SchedStates]
    /\ call \in [Calls -> CallStates]
    /\ \A c \in Calls : call[c].op \in NodeOps => call[c].node \in Nodes
    /\ sess \in [Nodes -> SessStates]
    /\ active \in BOOLEAN
    /\ now \in Nat
    /\ published \in RunStatuses
    /\ boot \in BOOLEAN
    /\ crashes \in Nat

\* A run reads 'completed' only when every node of its record is terminal,
\* whichever of the scheduler, the broker command or the reconciler wrote it
\* and whatever stale copies are saved afterwards.
CompletedMeansAllDone == disk.status = "completed" => AllDone(disk)

\* While an executor works on a node, every node it needs is terminal on
\* disk: no stale save, resume or second scheduler reopens a dependency
\* under a running dependent.
StartsAfterNeeds ==
    \A s \in Scheds, n \in Nodes :
        sched[s].task[n] # "none" => \A p \in Needs[n] : NodeTerminal(disk.node[p].st)

\* Cancellation is authoritative (runner-canceler.ts): a canceled run and a
\* canceled node stay canceled on disk through every later save.
CanceledIsFinal ==
    [][/\ disk.status = "canceled" => disk'.status = "canceled"
       /\ \A n \in Nodes : disk.node[n].st = "canceled" => disk'.node[n].st = "canceled"]_vars

\* A terminal run and a terminal node never reopen, crash and resume included.
TerminalNeverReopens ==
    [][/\ RunTerminal(disk.status) => RunTerminal(disk'.status)
       /\ \A n \in Nodes : NodeTerminal(disk.node[n].st) => NodeTerminal(disk'.node[n].st)]_vars

\* Seen from its record, the run is a RunLifecycle: the abstract specification
\* a reader of the store may rely on.
DoneNodes == {n \in Nodes : NodeTerminal(disk.node[n].st)}
Lifecycle == INSTANCE RunLifecycle WITH status <- disk.status, done <- DoneNodes
ImplementsLifecycle == Lifecycle!LifecycleSpec

\* A node whose failure halts the workflow has not failed in a completed run.
NoHaltingFailureCompletes ==
    crashes = 0 /\ disk.status = "completed" => \A n \in Halts : disk.node[n].st # "failed"

\* With the rule all_success a node executes only while all its parents are
\* completed on disk, or the run has ended meanwhile.
RunsOnlyAfterSuccess ==
    \A s \in Scheds, n \in Nodes :
        sched[s].task[n] # "none" /\ Rule[n] = "all_success" /\ ~RunTerminal(disk.status)
            => \A p \in Needs[n] : disk.node[p].st = "completed"

\* A node the scheduler or a condition skipped is not executed as well, by
\* this or by a second scheduler working from an older copy of the record.
SkippedNeverExecutes ==
    \A s \in Scheds, n \in Nodes : disk.node[n].st = "skipped" => sched[s].task[n] = "none"

\* A record with open nodes always offers the scheduler something to run, to
\* wait for or to stop at: the branch of runner-scheduler.ts that blocks a run
\* with 'unmet dependencies' is never taken for the acyclic definitions the
\* parser accepts, whatever races have left on disk.
NeverOrphaned ==
    \/ AllDone(disk)
    \/ Ready(disk) # {}
    \/ \E n \in Nodes : disk.node[n].st \in {"running", "blocked"}

\* A run neither stops with nothing to run nor completes past a failure that
\* halts it.
EndsRight == NeverOrphaned /\ NoHaltingFailureCompletes

\* The inductive invariant.  Every copy of the record in memory could be saved
\* at any moment without making the run complete too early; a layer only holds
\* nodes whose needs are done on disk; a scheduler about to complete the run
\* has seen every node done, and only the executors of a layer touch nodes.
Sound(run) == run.status = "completed" => AllDone(run)
NeedsDone(record, n) == \A p \in Needs[n] : NodeTerminal(record.node[p].st)
SchedOK(x, record) ==
    /\ Sound(x.mem)
    /\ x.pc \in {"skip", "launch"} => /\ x.mem.status = "running"
                                      /\ \A n \in x.layer : NeedsDone(record, n)
    /\ x.pc = "exec" => x.mem.status \in {"running", "blocked"}
    /\ x.pc # "exec" => x.task = NoTasks
    /\ \A n \in Nodes : x.task[n] # "none" => NeedsDone(record, n)
    /\ x.pc = "complete" => AllDone(record)
    /\ x.pc = "finish" => AllDone(x.mem)
CallOK(x) ==
    /\ Sound(x.mem)
    /\ x.op \in {"revise", "revising"} => x.mem.status = "blocked"
Consistent ==
    /\ Sound(disk)
    /\ \A s \in Scheds : SchedOK(sched[s], disk)
    /\ \A c \in Calls : CallOK(call[c])

\* Something in the daemon will still move the run on.
InProgress ==
    \/ \E s \in Scheds : sched[s].pc # "idle"
    \/ \E c \in Calls : call[c].op # "none"
    \/ boot

\* When the daemon has nothing left to do for a run that is not over, a gate
\* that is still pending can be decided: the run was left 'blocked', as
\* runner-scheduler.ts says when it stops at a pending gate.
PendingGateApprovable ==
    ~InProgress /\ ~RunTerminal(disk.status) /\ (\E n \in Nodes : disk.node[n].st = "blocked")
        => disk.status = "blocked"

\* A blocked run the daemon is done with waits for an external event, as
\* runner-resumer.ts says of the blocked runs it leaves alone.
BlockedRunHasWaiter ==
    ~InProgress /\ disk.status = "blocked" => \E n \in Nodes : disk.node[n].st = "blocked"

\* Once a cancellation was announced, no later event and no later platform
\* sync shows the run failed or completed.
NoResurrectedStatusPublished ==
    [][published = "canceled" => published' \notin {"failed", "completed"}]_vars

\* The scheduler, the calls and the resumer never walk away from an open run:
\* it always comes to rest, ended or blocked, crashes included.
EventuallyRests == []<>(RunTerminal(disk.status) \/ disk.status = "blocked")
=============================================================================
