----------------------------- MODULE MCServices ------------------------------
(***************************************************************************)
(* What runs beside the workflow runner and the relay's connections.  The  *)
(* services share no state, so one run checks them all: the initial state  *)
(* chooses a service, and only that service takes steps.                   *)
(***************************************************************************)
EXTENDS RelayPresence, AgentSessions, HookSupervision, PlatformSync,
  ManagedWorker, Supervisor, AgentTurns, RelayHandshake, ProcessNodes

VARIABLE service  \* the service that takes steps

servicesVars == <<service, presenceVars, sessionVars, hookVars, syncVars, workerVars,
                  supVars, turnVars, handshakeVars, processVars, transportVars, commandVars>>

ServicesInit ==
  /\ service \in {"presence", "sessions", "hooks", "sync", "worker", "supervisor",
                  "turns", "handshake", "process", "transport", "commands"}
  /\ PresenceInit /\ SessionsInit /\ HooksInit /\ SyncInit
  /\ WorkerInit /\ SupInit /\ TransportInit /\ DaemonCommandsInit
  /\ TurnsInit /\ (service = "turns" \/ adapter = "claude")
  /\ HandshakeInit /\ (service = "handshake" \/ required = "noise-ik")
  /\ ProcessInit /\ (service = "process" \/ (kind = "shell" /\ policy = NoPolicy))

Rests(s, v) == IF service = s THEN TRUE ELSE UNCHANGED v

Only(s) ==
  /\ service = s /\ UNCHANGED service
  /\ Rests("presence", presenceVars) /\ Rests("sessions", sessionVars)
  /\ Rests("hooks", hookVars) /\ Rests("sync", syncVars)
  /\ Rests("worker", workerVars) /\ Rests("supervisor", supVars)
  /\ Rests("turns", turnVars) /\ Rests("handshake", handshakeVars)
  /\ Rests("process", processVars) /\ Rests("transport", transportVars)
  /\ Rests("commands", commandVars)

ServicesNext ==
  \/ Only("presence") /\ PresenceNext
  \/ Only("sessions") /\ SessionsNext
  \/ Only("hooks") /\ HooksNext
  \/ Only("sync") /\ SyncNext
  \/ Only("worker") /\ WorkerNext
  \/ Only("supervisor") /\ SupNext
  \/ Only("turns") /\ TurnsNext
  \/ Only("handshake") /\ HandshakeNext
  \/ Only("process") /\ ProcessNext
  \/ Only("transport") /\ TransportNext
  \/ Only("commands") /\ DaemonCommandsNext

(* The fair actions of a service are not enabled in its initial state, so
   they ask nothing of a service at rest. *)
ServicesSpec ==
  /\ ServicesInit /\ [][ServicesNext]_servicesVars
  /\ PresenceFairness /\ SessionsFairness /\ SupFairness /\ ProcessFairness
  /\ TransportFairness

(* The variables of every service have their types and keep their caps: the
   supervised sessions, the held hook requests, the retries. *)
ServicesTypeOK ==
  /\ PresenceTypeOK /\ SessionsTypeOK /\ HooksTypeOK /\ SyncTypeOK
  /\ WorkerTypeOK /\ SupTypeOK
  /\ TurnsTypeOK /\ HandshakeTypeOK /\ ProcessTypeOK /\ TransportTypeOK
  /\ DaemonCommandsTypeOK

(* Operators reach what runs: a live session is in the manager's map and has
   the mode it shows, and a hook is held only for someone who supervises its
   session, up to the gaps the two properties name. *)
OperatorsInControl == Managed /\ HeldHasSupervisor

(* What the platform has of a hosted run is what the worker did, and what the
   worker asks over its transport is done as often as it was told, over the
   one socket it uses. *)
WorkerTruthful == WorkerReportsTruth /\ TransportHolds

(* What is awaited ends: presence settles, permissions and the worker's calls
   are answered, a supervisor that is told to stop stops, and processes end. *)
ServicesSettle ==
  PresenceSettles /\ EveryCallAnswered /\ CallsSettle /\ SupervisorStops /\ ProcessesEnd
=============================================================================
