----------------------------- MODULE Supervisor -----------------------------
(***************************************************************************)
(* The supervisor process that keeps the daemon's worker process running   *)
(* (cli/supervisor.ts), the worker's way out (startup.ts) and the two ways *)
(* `vpd stop` asks for an end: the worker's lifecycle route, or a signal   *)
(* to the supervisor (cli/lifecycle-commands.ts).                          *)
(***************************************************************************)
EXTENDS Integers, FiniteSets

CONSTANT MaxSpawns  \* bound on workers launched

VARIABLES
  supPc,       \* "starting", "up", "delay", "reload", "clearing", "gone"
  supWorker,   \* the worker: "none", "running", "leaving" (in shutdown())
  leaveWith,   \* the exit code a leaving worker was asked for first
  stopping, restarting,  \* the supervisor's flags
  spawns,
  endAsked,    \* history: an end was asked for
  endMissed    \* history: it was asked for where the code does not act on it

supVars == <<supPc, supWorker, leaveWith, stopping, restarting, spawns, endAsked, endMissed>>

SupInit ==
  /\ supPc = "starting" /\ supWorker = "none" /\ leaveWith = "none" /\ spawns = 0
  /\ stopping = FALSE /\ restarting = FALSE /\ endAsked = FALSE /\ endMissed = FALSE

\* spawnWorker.
Spawned ==
  /\ spawns < MaxSpawns /\ spawns' = spawns + 1
  /\ supPc' = "up" /\ supWorker' = "running" /\ leaveWith' = "none"

\* The directory and the state file are written, then the worker is launched.
SupStarts ==
  /\ supPc = "starting" /\ Spawned /\ UNCHANGED <<stopping, restarting, endAsked, endMissed>>

\* requestWorkerStop: the flag, and the signal to a worker that is there.
SignalStop ==
  /\ supPc # "gone" /\ ~endAsked /\ endAsked' = TRUE /\ stopping' = TRUE
  /\ endMissed' = (endMissed \/ supPc \in {"starting", "reload"})
  /\ IF supWorker = "running" THEN supWorker' = "leaving" /\ leaveWith' = "term"
     ELSE UNCHANGED <<supWorker, leaveWith>>
  /\ UNCHANGED <<supPc, restarting, spawns>>

\* onLifecycleShutdown: shutdownPromise makes the first request win.
LifecycleShutdown ==
  /\ supWorker # "none" /\ ~endAsked /\ endAsked' = TRUE
  /\ IF supWorker = "running"
     THEN supWorker' = "leaving" /\ leaveWith' = "shutdown" /\ UNCHANGED endMissed
     ELSE endMissed' = (endMissed \/ leaveWith = "restart") /\ UNCHANGED <<supWorker, leaveWith>>
  /\ UNCHANGED <<supPc, stopping, restarting, spawns>>

LifecycleRestart ==
  /\ supWorker = "running" /\ supWorker' = "leaving" /\ leaveWith' = "restart"
  /\ UNCHANGED <<supPc, stopping, restarting, spawns, endAsked, endMissed>>

\* The handler of the worker's 'exit' event.
OnExit(code) ==
  /\ supWorker' = "none" /\ leaveWith' = "none"
  /\ IF stopping \/ code = "shutdown"
     THEN supPc' = "clearing" /\ stopping' = TRUE /\ UNCHANGED restarting
     ELSE /\ supPc' = "delay" /\ restarting' = (restarting \/ code = "restart")
          /\ UNCHANGED stopping
  /\ UNCHANGED <<spawns, endAsked, endMissed>>

WorkerLeaves == supWorker = "leaving" /\ OnExit(leaveWith)

\* A worker that dies instead of leaving loses what it was asked.
WorkerCrashes ==
  /\ supWorker # "none" /\ supWorker' = "none" /\ leaveWith' = "none"
  /\ IF stopping THEN supPc' = "clearing" ELSE supPc' = "delay"
  /\ endMissed' = (endMissed \/ (leaveWith = "shutdown" /\ ~stopping))
  /\ UNCHANGED <<stopping, restarting, spawns, endAsked>>

\* Variant for mutation testing: the timer does not look at the flag.
DelayOverAnyway ==
  /\ supPc = "delay"
  /\ IF restarting
     THEN supPc' = "reload" /\ UNCHANGED <<supWorker, leaveWith, spawns>>
     ELSE Spawned
  /\ UNCHANGED <<stopping, restarting, endAsked, endMissed>>

\* The restart timer; when the supervisor is stopping, nothing is left to do
\* and the process ends.
DelayOver ==
  /\ supPc = "delay"
  /\ \/ stopping /\ supPc' = "gone" /\ UNCHANGED <<supWorker, leaveWith, spawns>>
     \/ ~stopping /\ restarting /\ supPc' = "reload" /\ UNCHANGED <<supWorker, leaveWith, spawns>>
     \/ ~stopping /\ ~restarting /\ Spawned
  /\ UNCHANGED <<stopping, restarting, endAsked, endMissed>>

\* reloadConfig has returned.
Reloaded ==
  /\ supPc = "reload" /\ Spawned /\ restarting' = FALSE /\ UNCHANGED <<stopping, endAsked, endMissed>>

\* clearDaemonRuntimeState, then process.exit.
Cleared ==
  /\ supPc = "clearing" /\ supPc' = "gone"
  /\ UNCHANGED <<supWorker, leaveWith, stopping, restarting, spawns, endAsked, endMissed>>

SupNext ==
  \/ SupStarts \/ SignalStop \/ LifecycleShutdown \/ LifecycleRestart
  \/ WorkerLeaves \/ WorkerCrashes \/ DelayOver \/ Reloaded \/ Cleared

\* Timers fire, file operations end, and a worker's shutdown() ends.
SupFairness == WF_supVars(WorkerLeaves \/ DelayOver \/ Reloaded \/ Cleared)

SupTypeOK ==
  /\ supPc \in {"starting", "up", "delay", "reload", "clearing", "gone"}
  /\ supWorker \in {"none", "running", "leaving"} /\ (supPc = "up" <=> supWorker # "none")
  /\ leaveWith \in {"none", "term", "shutdown", "restart"} /\ spawns \in 0 .. MaxSpawns
  /\ {stopping, restarting, endAsked, endMissed} \subseteq BOOLEAN

(* When an end is asked for, the supervisor ends, whatever its worker is
   doing, except in four windows: before the first worker is launched, while
   the configuration is reloaded for a restart, on the lifecycle route of a
   worker that is already leaving to be restarted, and when the worker dies
   on its way out. *)
SupervisorStops == endAsked ~> (supPc = "gone" \/ endMissed)

-----------------------------------------------------------------------------
(***************************************************************************)
(* vpd start, stop and restart (startup.ts, cli/lifecycle-commands.ts)     *)
(* against the supervisors they start and end.  What they know of each     *)
(* other is one file, daemon-state.json (cli/daemon-lifecycle.ts), and     *)
(* who answers on the port.  Commands run at any time, together too.       *)
(***************************************************************************)

CONSTANTS
  Sups,         \* supervisors, by process id, in the order they are launched
  Terminals,    \* where commands are typed, one at a time each
  MaxTyped,     \* bound on commands
  MaxSupFaults  \* bound on supervisors and workers that die of themselves

ASSUME CommandBounds ==
  /\ Sups \subseteq Nat \ {0} /\ Terminals \subseteq Nat /\ MaxTyped \in Nat /\ MaxSupFaults \in Nat

VARIABLES
  sups,      \* per supervisor: its step, its worker's, its group, its stopping flag
  stateFile, \* daemon-state.json: the owner's process id, 0 without one, -1 half written
  typed,     \* per terminal: the command, its step, the state it read, whether it said
             \* that the daemon is down and what was up then
  entered,   \* number of commands typed
  stranger,  \* a process of someone else that was given a dead supervisor's id
  struck,    \* history: the commands that signalled it
  supFaults,
  together,  \* history: a command began while another, or a new supervisor, had
             \* not got as far as the file
  halfRead   \* history: a command read the file while it was being written

commandVars == <<sups, stateFile, typed, entered, stranger, struck, supFaults,
                 together, halfRead>>

NoSup == [at |-> "none", worker |-> "none", group |-> FALSE, ends |-> FALSE]
NoCommand == [kind |-> "none", at |-> "none", seen |-> 0, down |-> FALSE, live |-> {}]

DaemonCommandsInit ==
  /\ sups = [s \in Sups |-> NoSup] /\ stateFile = 0
  /\ typed = [t \in Terminals |-> NoCommand] /\ entered = 0
  /\ stranger = 0 /\ struck = {} /\ supFaults = 0 /\ together = FALSE /\ halfRead = FALSE

LiveSups == {s \in Sups : sups[s].at \notin {"none", "gone"}}
Serving == {s \in Sups : sups[s].worker = "serving"}
HoldsPort == {s \in Sups : sups[s].worker \in {"serving", "leaving"}}
IsPidRunning(p) == p \in LiveSups \/ (p # 0 /\ stranger = p)
IsOwnershipMatch(p) == p \in LiveSups
InFlight == {t \in Terminals : typed[t].at # "none"}

SupBecomes(s, at, worker) == sups' = [sups EXCEPT ![s].at = at, ![s].worker = worker]

(***************************************************************************)
(* The supervisor and its worker                                           *)
(***************************************************************************)
\* The state is written in place when the supervisor starts and each time it
\* launches a worker.
SupLaunches(s) ==
  /\ sups[s].at \in {"boot", "delay"} /\ SupBecomes(s, "writing", "starting")
  /\ stateFile' = -1
  /\ UNCHANGED <<typed, entered, stranger, struck, supFaults, together, halfRead>>

SupWrites(s) ==
  /\ sups[s].at = "writing" /\ sups' = [sups EXCEPT ![s].at = "up"] /\ stateFile' = s
  /\ UNCHANGED <<typed, entered, stranger, struck, supFaults, together, halfRead>>

\* The handler of the worker's exit: an end that was asked for clears the file
\* and ends the supervisor, any other leads to a new worker after a delay.
WorkerExited(s, asked) ==
  IF asked \/ sups[s].ends
  THEN SupBecomes(s, "gone", "none") /\ stateFile' = 0
  ELSE SupBecomes(s, "delay", "none") /\ stateFile' = IF sups[s].at = "writing" THEN s ELSE stateFile

\* runDaemonWorker: the worker listens, or finds the port in use and throws.
DaemonListens(s) ==
  /\ sups[s].worker = "starting" /\ s \in LiveSups
  /\ IF HoldsPort = {} THEN SupBecomes(s, sups[s].at, "serving") /\ UNCHANGED stateFile
     ELSE WorkerExited(s, FALSE)
  /\ UNCHANGED <<typed, entered, stranger, struck, supFaults, together, halfRead>>

\* shutdown() has run to its end; a worker without a supervisor just ends.
DaemonLeaves(s) ==
  /\ sups[s].worker = "leaving"
  /\ IF s \in LiveSups THEN WorkerExited(s, TRUE)
     ELSE SupBecomes(s, "gone", "none") /\ UNCHANGED stateFile
  /\ UNCHANGED <<typed, entered, stranger, struck, supFaults, together, halfRead>>

DaemonCrashes(s) ==
  /\ s \in LiveSups /\ sups[s].worker \in {"starting", "serving"}
  /\ supFaults < MaxSupFaults /\ supFaults' = supFaults + 1 /\ WorkerExited(s, FALSE)
  /\ UNCHANGED <<typed, entered, stranger, struck, together, halfRead>>

\* The supervisor dies alone: its worker goes on, the file names the dead.
SupDies(s) ==
  /\ s \in LiveSups /\ supFaults < MaxSupFaults /\ supFaults' = supFaults + 1
  /\ sups' = [sups EXCEPT ![s].at = "gone"]
  /\ UNCHANGED <<stateFile, typed, entered, stranger, struck, together, halfRead>>

\* The system gives the id in the file to another process; not within the few
\* seconds a command takes.
PidReused ==
  /\ stateFile \in Sups /\ stateFile \notin LiveSups /\ stranger = 0 /\ InFlight = {}
  /\ stranger' = stateFile
  /\ UNCHANGED <<sups, stateFile, typed, entered, struck, supFaults, together, halfRead>>

(***************************************************************************)
(* The commands                                                            *)
(***************************************************************************)
Kinds == {"start", "foreground", "stop", "force stop", "restart"}
Starts(t) == typed[t].kind \in {"start", "foreground", "restart"}
Goes(t, at) == typed' = [typed EXCEPT ![t].at = at]
\* A stop that says the daemon is down; the other messages say nothing of that.
ToldDown == [NoCommand EXCEPT !.down = TRUE, !.live = LiveSups]
Over(t) == typed' = [typed EXCEPT ![t] = NoCommand]

TypeCommand(t, k) ==
  /\ typed[t].at = "none" /\ \A u \in Terminals \ InFlight : t <= u  \* all are alike
  /\ entered < MaxTyped /\ entered' = entered + 1
  /\ typed' = [typed EXCEPT ![t] = [NoCommand EXCEPT !.kind = k, !.at = "read"]]
  /\ together' = (together \/ InFlight # {}
                  \/ \E s \in Sups : sups[s].at = "boot")
  /\ UNCHANGED <<sups, stateFile, stranger, struck, supFaults, halfRead>>

\* Variant for mutation testing: a state without a healthy owner is cleared
\* without ending the owner.
AfterReadNoProbe(t, p) ==
  IF Starts(t) THEN (IF p = 0 THEN "spawn" ELSE "clear")
  ELSE IF ~IsPidRunning(p) THEN "clear" ELSE "ask"

\* Where a command goes with the state it read.  Stop and start look whether
\* the process is the daemon's, restart does not.
AfterRead(t, p) ==
  IF typed[t].kind = "restart" THEN (IF p = 0 THEN "start" ELSE "signal")
  ELSE IF Starts(t) THEN (IF p = 0 THEN "spawn" ELSE IF IsOwnershipMatch(p) THEN "probe" ELSE "clear")
  ELSE IF ~IsPidRunning(p) THEN "clear" ELSE "ask"

\* readDaemonRuntimeState: a file that does not parse reads as none.
ReadState(t) ==
  LET p == IF stateFile \in Sups THEN stateFile ELSE 0 IN
  /\ typed[t].at = "read"
  /\ typed' = [typed EXCEPT ![t] =
       IF ~Starts(t) /\ (p = 0 \/ (IsPidRunning(p) /\ ~IsOwnershipMatch(p)))
       THEN IF p = 0 THEN ToldDown ELSE NoCommand  \* "not running", or refused
       ELSE [@ EXCEPT !.at = AfterRead(t, p), !.seen = p]]
  /\ halfRead' = (halfRead \/ (stateFile = -1 /\ LiveSups # {}))
  /\ UNCHANGED <<sups, stateFile, entered, stranger, struck, supFaults, together>>

\* The start inside a restart reads the state again; from here on it is a start.
ReadAgain(t) ==
  LET p == IF stateFile \in Sups THEN stateFile ELSE 0 IN
  /\ typed[t].at = "start"
  /\ typed' = [typed EXCEPT ![t].kind = "start", ![t].seen = p, ![t].at =
       IF p = 0 THEN "spawn" ELSE IF IsOwnershipMatch(p) THEN "probe" ELSE "clear"]
  /\ halfRead' = (halfRead \/ (stateFile = -1 /\ LiveSups # {}))
  /\ UNCHANGED <<sups, stateFile, entered, stranger, struck, supFaults, together>>

\* isRuntimeResponsive: whoever serves the port answers, within 1.2 s or not.
Probe(t) ==
  /\ typed[t].at = "probe"
  /\ (Serving # {} /\ Over(t)) \/ Goes(t, "signal")
  /\ UNCHANGED <<sups, stateFile, entered, stranger, struck, supFaults, together, halfRead>>

\* requestLifecycle("shutdown"): whoever serves the port ends; it may not answer.
Ask(t) ==
  /\ typed[t].at = "ask"
  /\ \/ \E s \in Serving :
          /\ sups' = [sups EXCEPT ![s].worker = "leaving"]
          /\ Goes(t, "wait") \/ Goes(t, "signal")
     \/ Goes(t, "signal") /\ UNCHANGED sups
  /\ UNCHANGED <<stateFile, entered, stranger, struck, supFaults, together, halfRead>>

\* stopPid, SIGTERM to the owner's group.  A supervisor hands the signal to its
\* worker; one that has none ends as it is, and leaves the file.
Signal(t) ==
  LET p == typed[t].seen IN
  /\ typed[t].at = "signal" /\ Goes(t, IF IsPidRunning(p) THEN "wait signal" ELSE "clear")
  /\ struck' = IF p \notin LiveSups /\ stranger = p /\ p # 0
               THEN struck \cup {typed[t].kind} ELSE struck
  /\ sups' = IF p \notin LiveSups THEN sups
             ELSE IF sups[p].worker = "none" THEN [sups EXCEPT ![p].at = "gone"]
             ELSE [sups EXCEPT ![p].ends = TRUE, ![p].worker = "leaving"]
  /\ UNCHANGED <<stateFile, entered, stranger, supFaults, together, halfRead>>

\* waitForPidExit sees the process gone.
SeesExit(t) ==
  /\ typed[t].at \in {"wait", "wait signal"} /\ ~IsPidRunning(typed[t].seen)
  /\ Goes(t, "clear")
  /\ UNCHANGED <<sups, stateFile, entered, stranger, struck, supFaults, together, halfRead>>

\* It does not, in time: an error, or for a forced stop that has only asked the
\* signal, or SIGKILL to the group.  A supervisor that is not a group's leader
\* leaves its worker behind.
WaitTimesOut(t) ==
  LET p == typed[t].seen IN
  /\ typed[t].at \in {"wait", "wait signal"} /\ IsPidRunning(p)
  /\ IF typed[t].kind = "stop"
     THEN Over(t) /\ UNCHANGED <<sups, stranger, struck>>
     ELSE IF typed[t].at = "wait" THEN Goes(t, "signal") /\ UNCHANGED <<sups, stranger, struck>>
     ELSE /\ Goes(t, "clear")
          /\ sups' = IF p \notin LiveSups THEN sups
                     ELSE [sups EXCEPT ![p].at = "gone",
                                       ![p].worker = IF sups[p].group THEN "none" ELSE @]
          /\ stranger' = IF p \in LiveSups THEN stranger ELSE 0
          /\ struck' = IF p \in LiveSups THEN struck ELSE struck \cup {typed[t].kind}
  /\ UNCHANGED <<stateFile, entered, supFaults, together, halfRead>>

\* clearDaemonRuntimeState, whoever the file names by now.  A restart's first
\* clear is followed by the start.
ClearState(t) ==
  /\ typed[t].at = "clear" /\ stateFile' = 0
  /\ IF Starts(t) THEN Goes(t, IF typed[t].kind = "restart" THEN "start" ELSE "spawn")
     ELSE typed' = [typed EXCEPT ![t] = ToldDown]
  /\ UNCHANGED <<sups, entered, stranger, struck, supFaults, together, halfRead>>

\* startSupervisorDetached, runSupervisorForeground: the command does not wait
\* until the supervisor has written the file.
SpawnSupervisor(t) ==
  LET s == CHOOSE n \in Sups : sups[n] = NoSup /\ \A m \in Sups : sups[m] = NoSup => n <= m IN
  /\ typed[t].at = "spawn" /\ \E n \in Sups : sups[n] = NoSup
  /\ sups' = [sups EXCEPT ![s] = [NoSup EXCEPT !.at = "boot",
                !.group = typed[t].kind # "foreground"]]
  /\ Over(t)
  /\ UNCHANGED <<stateFile, entered, stranger, struck, supFaults, together, halfRead>>

DaemonCommandsNext ==
  \/ \E s \in Sups :
       \/ SupLaunches(s) \/ SupWrites(s) \/ DaemonListens(s) \/ DaemonLeaves(s)
       \/ DaemonCrashes(s) \/ SupDies(s)
  \/ PidReused
  \/ \E t \in Terminals :
       \/ \E k \in Kinds : TypeCommand(t, k)
       \/ ReadState(t) \/ ReadAgain(t) \/ Probe(t) \/ Ask(t) \/ Signal(t)
       \/ SeesExit(t) \/ WaitTimesOut(t) \/ ClearState(t) \/ SpawnSupervisor(t)

DaemonCommandsSpec == DaemonCommandsInit /\ [][DaemonCommandsNext]_commandVars

DaemonCommandsTypeOK ==
  /\ \A s \in Sups :
       /\ sups[s].at \in {"none", "boot", "writing", "up", "delay", "gone"}
       /\ sups[s].worker \in {"none", "starting", "serving", "leaving"}
  /\ stateFile \in Sups \cup {0, -1} /\ stranger \in Sups \cup {0} /\ struck \subseteq Kinds
  /\ \A t \in Terminals :
       /\ typed[t].at \in {"none", "read", "start", "probe", "ask", "wait", "signal",
                           "wait signal", "clear", "spawn"}
       /\ typed[t].seen \in Sups \cup {0} /\ typed[t].live \subseteq Sups
  /\ entered \in 0..MaxTyped /\ supFaults \in 0..MaxSupFaults

(* One supervisor at a time, and while it runs and nobody types the file names
   it, so that stop and restart can find it.  Both need the commands to come
   one after the other, and a file that nobody reads half written. *)
OneSupervisor ==
  \/ together \/ halfRead
  \/ /\ Cardinality(LiveSups) <= 1
     /\ InFlight = {} => \A s \in LiveSups : sups[s].at \in {"up", "delay"} => stateFile = s

(* What stop says is so: told that the daemon was stopped or is not running,
   none is, with the same two reservations. *)
StopTells ==
  \A t \in Terminals :
    typed[t].down =>
      typed[t].live = {} \/ together \/ halfRead

(* A process that only has the daemon's old id is never signalled by stop or
   start; restart, which does not look whose process it is, signals it. *)
StrangersSpared == struck \subseteq {"restart"}

(* What the commands keep of the daemon they start and end (startup.ts,
   cli/lifecycle-commands.ts, cli/daemon-lifecycle.ts). *)
DaemonCommandsHold == OneSupervisor /\ StopTells /\ StrangersSpared
=============================================================================
