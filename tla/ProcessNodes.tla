---------------------------- MODULE ProcessNodes ----------------------------
(***************************************************************************)
(* A node that runs processes: a shell command, the iterations of a loop,  *)
(* the children of a subflow (workflows/runtime-helpers.ts, node-registry, *)
(* loop-executor, subflow-executor, shell-abort-registry), tried again by  *)
(* its retry policy.  Exits, timeouts, kills and the cancellation of the   *)
(* run interleave with the executor.                                       *)
(***************************************************************************)
EXTENDS NodeOrder

CONSTANTS
  Children,       \* the nodes of the subflow, numbers
  LoopLimit,      \* bound: maxIterations of the loop
  MaxAttempts     \* bound: retry.maxAttempts

ASSUME ProcessAssumption ==
  Children \subseteq Nat /\ LoopLimit \in Nat /\ MaxAttempts \in Nat \ {0}

VARIABLES
  kind,       \* "shell", "foreach", "while", "until", "subflow"
  childNeeds, \* per child, the children it needs
  policy,     \* the node's retry policy
  cap,        \* iterations the loop may take: maxIterations, items
  at,         \* the executor: "idle", "next" unit, "gap" before its process, "waiting", "done"
  units,      \* the units of this attempt (command, iterations, children), in order
  attempt,
  processes,  \* in the order they were started
  aborts,     \* the processes with an AbortController in the registry
  canceled,   \* the run was canceled
  between,    \* history: it was canceled while no process was waited for
  nodeEnds    \* how the node ended: "no", "completed", "failed"

processVars == <<kind, childNeeds, policy, cap, at, units, attempt, processes, aborts,
                 canceled, between, nodeEnds>>
plan == <<kind, childNeeds, policy, cap>>

Messages == {"exit", "canceled", "timeout", "spawn", "denied"}
NoPolicy == [on |-> FALSE, fatal |-> {}, transient |-> Messages]
RetryPolicies == {NoPolicy} \cup
  {[on |-> TRUE, fatal |-> f, transient |-> t] : f \in {{}, {"canceled"}}, t \in {{"timeout"}, Messages}}

\* classifyRetry; transient is every message when the list is not set.
ClassifyRetry(message) ==
  IF ~policy.on \/ message \in policy.fatal \/ message \notin policy.transient
  THEN "fatal" ELSE "retry"

ProcessInit ==
  /\ kind \in {"shell", "foreach", "while", "until", "subflow"}
  /\ childNeeds \in [Children -> SUBSET Children]
  /\ (kind = "subflow" \/ childNeeds = [c \in Children |-> {}])
  /\ policy \in RetryPolicies /\ cap \in 0 .. LoopLimit
  /\ (kind = "foreach" \/ cap >= 1) /\ (kind \in {"foreach", "while", "until"} \/ cap = 1)
  /\ at = "idle" /\ units = <<>> /\ attempt = 1 /\ processes = <<>> /\ aborts = {}
  /\ canceled = FALSE /\ between = FALSE /\ nodeEnds = "no"

IsLoop == kind \in {"foreach", "while", "until"}
Current == Len(processes)
Living == {p \in DOMAIN processes : processes[p].alive}
UnitsOf == CASE IsLoop -> cap [] kind = "subflow" -> Cardinality(Children) [] OTHER -> 1
Child(i) == OrderOf(Children, childNeeds)[i]
Status(i) == units[i].status

-----------------------------------------------------------------------------
(* Processes.                                                              *)

\* runProcessNode: how the promise settles when the process closes.
Settlement(p, ok) ==
  IF p.settled # "no" THEN p.settled
  ELSE IF p.aborted THEN "canceled" ELSE IF ok THEN "ok" ELSE "exit"

\* By itself, or by the signals: SIGTERM at once, SIGKILL two seconds later.
ProcessCloses(p, ok) ==
  /\ p \in Living
  /\ processes' = [processes EXCEPT ![p] =
       [@ EXCEPT !.alive = FALSE, !.timer = FALSE, !.settled = Settlement(processes[p], ok)]]
  /\ UNCHANGED <<plan, at, units, attempt, aborts, canceled, between, nodeEnds>>

\* The promise is rejected while the process is still being killed.
TimedOut(p) ==
  [p EXCEPT !.aborted = TRUE, !.timer = FALSE, !.settled = IF @ = "no" THEN "timeout" ELSE @]

\* Variant for mutation testing: the bodies of loops have no default timeout.
ProcessTimesOutShellOnly(p) ==
  /\ p \in Living /\ processes[p].timer /\ ~(kind \in {"foreach", "while", "until"})
  /\ processes' = [processes EXCEPT ![p] = TimedOut(@)]
  /\ UNCHANGED <<plan, at, units, attempt, aborts, canceled, between, nodeEnds>>

ProcessTimesOut(p) ==
  /\ p \in Living /\ processes[p].timer
  /\ processes' = [processes EXCEPT ![p] = TimedOut(@)]
  /\ UNCHANGED <<plan, at, units, attempt, aborts, canceled, between, nodeEnds>>

\* Variant for mutation testing: an abort settles the promise at once.
AbortedAtOnce(p) == [p EXCEPT !.aborted = TRUE, !.settled = IF @ = "no" THEN "canceled" ELSE @]

\* abort in runProcessNode: kill, and wait for the process to close.
Aborted(p) == [p EXCEPT !.aborted = TRUE]

\* cancelRun of WorkflowShellAbortRegistry, for WorkflowRunCanceler.
CancelProcesses ==
  /\ ~canceled /\ at \notin {"idle", "done"} /\ canceled' = TRUE
  /\ between' = (at # "waiting" \/ processes[Current].settled # "no")
  /\ processes' = [p \in DOMAIN processes |->
                     IF p \in aborts /\ processes[p].alive THEN Aborted(processes[p])
                                                           ELSE processes[p]]
  /\ aborts' = {}
  /\ UNCHANGED <<plan, at, units, attempt, nodeEnds>>

-----------------------------------------------------------------------------
(* The executor.                                                           *)

\* executeWorkflowNode, after an executor threw: try again or fail.
NodeThrows(message, us) ==
  IF attempt < MaxAttempts /\ ClassifyRetry(message) = "retry"
  THEN /\ attempt' = attempt + 1 /\ units' = <<>> /\ at' = "next" /\ UNCHANGED nodeEnds
  ELSE /\ at' = "done" /\ nodeEnds' = "failed" /\ units' = us /\ UNCHANGED attempt

\* executeWorkflowNode calls the executor of the node.
NodeExecutes ==
  /\ at = "idle" /\ ~canceled /\ at' = "next"
  /\ UNCHANGED <<plan, units, attempt, processes, aborts, canceled, between, nodeEnds>>

NodeCompletes ==
  /\ at = "next" /\ at' = "done" /\ nodeEnds' = "completed"
  /\ \/ Len(units) = UnitsOf
     \/ kind = "while" \/ (kind = "until" /\ units # <<>>)  \* the condition says so
  /\ (kind = "subflow" => Orderable(Children, childNeeds))
  /\ UNCHANGED <<plan, units, attempt, processes, aborts, canceled, between>>

\* A child whose needs did not all complete is skipped; or its when is false.
MaySkip == kind = "subflow"
MustSkip ==
  /\ kind = "subflow"
  /\ \E need \in childNeeds[Child(Len(units) + 1)] :
       ~\E i \in DOMAIN units : Child(i) = need /\ Status(i) = "completed"

UnitBegins ==
  /\ at = "next" /\ Len(units) < UnitsOf
  /\ (kind = "subflow" => Orderable(Children, childNeeds))
  /\ \/ /\ ~MustSkip /\ at' = "gap"
        /\ units' = Append(units, [status |-> "running", process |-> 0])
     \/ /\ MaySkip /\ units' = Append(units, [status |-> "skipped", process |-> 0])
        /\ UNCHANGED at
  /\ UNCHANGED <<plan, attempt, processes, aborts, canceled, between, nodeEnds>>

\* An expression throws, the children form a cycle, policy denies the command,
\* or an artifact the node declares is missing in the end.
UnitRefused ==
  /\ \/ at = "next" /\ (IsLoop \/ kind = "subflow" \/ Len(units) = UnitsOf)
     \/ at = "gap"
  /\ NodeThrows("denied", units)
  /\ UNCHANGED <<plan, processes, aborts, canceled, between>>

ProcessStarts ==
  /\ at = "gap" /\ at' = "waiting"
  /\ \E alive \in BOOLEAN :  \* FALSE: spawn reports an error
       processes' = Append(processes,
         [alive |-> alive, aborted |-> FALSE, timer |-> TRUE, late |-> canceled,
          settled |-> IF alive THEN "no" ELSE "spawn"])
  /\ units' = [units EXCEPT ![Len(units)].process = Current + 1]
  /\ aborts' = aborts \cup {Current + 1}
  /\ UNCHANGED <<plan, attempt, canceled, between, nodeEnds>>

\* runIteration and runChild after the promise settled; abort.dispose().
UnitEnds ==
  LET settled == processes[Current].settled
      ended(s) == [units EXCEPT ![Len(units)].status = s]
  IN  /\ at = "waiting" /\ settled # "no" /\ aborts' = aborts \ {Current}
      /\ IF settled = "ok"
         THEN at' = "next" /\ units' = ended("completed") /\ UNCHANGED <<attempt, nodeEnds>>
         ELSE NodeThrows(settled, ended("failed"))
      /\ UNCHANGED <<plan, processes, canceled, between>>

ProcessNext ==
  \/ \E p \in DOMAIN processes :
       ProcessTimesOut(p) \/ \E ok \in BOOLEAN : ProcessCloses(p, ok)
  \/ CancelProcesses
  \/ NodeExecutes \/ NodeCompletes \/ UnitBegins \/ UnitRefused \/ ProcessStarts \/ UnitEnds

\* The executor goes on, the timer fires, a signalled process dies.
ProcessFairness ==
  /\ WF_processVars(NodeCompletes \/ UnitBegins \/ UnitRefused) /\ WF_processVars(ProcessStarts)
  /\ WF_processVars(UnitEnds)
  /\ WF_processVars(\E p \in DOMAIN processes : ProcessTimesOut(p))
  /\ WF_processVars(\E p \in DOMAIN processes : processes[p].aborted /\ ProcessCloses(p, FALSE))

ProcessSpec == ProcessInit /\ [][ProcessNext]_processVars /\ ProcessFairness

-----------------------------------------------------------------------------
ProcessTypeOK ==
  /\ Len(units) <= UnitsOf /\ attempt \in 1 .. MaxAttempts
  /\ aborts \subseteq {Current} /\ at \in {"idle", "next", "gap", "waiting", "done"}

(* Two processes of a node live at once only while one that timed out is
   still being killed.  Once the run is canceled, every process started
   before is being killed, and none is started afterwards unless the
   cancellation met the executor between processes or the retry policy takes
   the interruption for a failure to try again.  A unit counts as completed
   exactly when its process exited with zero, a child ran only after what it
   needs, and a node completes with all its units done. *)
ProcessesUnderControl ==
  /\ \A p \in Living : p = Current \/ processes[p].settled = "timeout"
  /\ canceled => \A p \in Living : processes[p].aborted \/ processes[p].late
  /\ (\E p \in DOMAIN processes : processes[p].late) =>
       between \/ "retry" \in {ClassifyRetry("canceled"), ClassifyRetry("timeout")}
  /\ \A i \in DOMAIN units :
       (Status(i) = "completed") <=>
         (units[i].process # 0 /\ processes[units[i].process].settled = "ok"
            /\ (i < Len(units) \/ at # "waiting"))
  /\ kind = "subflow" => \A i \in DOMAIN units : units[i].process # 0 =>
       \A need \in childNeeds[Child(i)] :
         \E j \in 1 .. (i - 1) : Child(j) = need /\ Status(j) = "completed"
  /\ nodeEnds = "completed" =>
       \A i \in DOMAIN units : Status(i) \in {"completed", "skipped"}
  /\ nodeEnds # "no" => aborts = {}

(* A node that is executed ends, and leaves no process behind: the timeout of
   a process that never exits rejects its promise, and the signals end it. *)
ProcessesEnd == at # "idle" ~> (nodeEnds # "no" /\ Living = {})
=============================================================================
