--------------------------- MODULE ManagedWorker ----------------------------
(***************************************************************************)
(* The standalone worker that executes runs leased from the platform       *)
(* (cli/worker-runtime.ts).  It claims a run, starts or finds the local    *)
(* run for it, waits for that run and reports how it ended.  The platform  *)
(* hands an unfinished run out again when its lease has expired.           *)
(***************************************************************************)
EXTENDS Integers, Sequences, FiniteSets

CONSTANTS HostedRuns,
  MaxLocal,  \* bound on local runs
  MaxClaims  \* bound on claims

VARIABLES
  workerPc,   \* where runStandaloneWorker is
  claim,      \* the claim at hand: [run, local (0: none), report]
  localRuns,  \* the local run store: [of, status, runners], in order of creation
  hosted,     \* the platform: [status, leased, knows], knows the reported local run
  claims,
  doubted     \* history: runs whose report may not be what happened

workerVars == <<workerPc, claim, localRuns, hosted, claims, doubted>>

Ended == {"completed", "failed", "blocked", "canceled"}
NoClaim == [run |-> 0, local |-> 0, report |-> "none"]

WorkerInit ==
  /\ workerPc = "down" /\ claim = NoClaim /\ localRuns = << >> /\ claims = 0 /\ doubted = {}
  /\ hosted = [r \in HostedRuns |-> [status |-> "queued", leased |-> FALSE, knows |-> 0]]

BootWorker ==
  /\ workerPc = "down" /\ workerPc' = "idle"
  /\ UNCHANGED <<claim, localRuns, hosted, claims, doubted>>

\* Nothing of the process is left: its runners end with it.
Killed(runs) == [i \in DOMAIN runs |-> [runs[i] EXCEPT !.runners = 0]]

\* The loop is left by an exception, the process by its end or a crash.
WorkerDies ==
  /\ workerPc # "down" /\ workerPc' = "down" /\ claim' = NoClaim
  /\ localRuns' = Killed(localRuns) /\ UNCHANGED <<hosted, claims, doubted>>

\* createStandaloneWorkerDaemon: every claim makes a new Daemon, which resumes
\* the runs the store has as running, being run already or not.
Resumed(runs) ==
  [i \in DOMAIN runs |-> IF runs[i].status = "running" THEN [runs[i] EXCEPT !.runners = @ + 1]
                         ELSE runs[i]]
RunTwice == {localRuns[i].of : i \in {j \in DOMAIN localRuns :
                localRuns[j].status = "running" /\ localRuns[j].runners > 0}}

\* normalizeWorkflowStatus.
Normalized(status) == IF status \in Ended THEN status ELSE "failed"

\* existingHostedRuntimeRun: the run the platform was told of, if it is there.
Existing(r) == {i \in DOMAIN localRuns : i = hosted[r].knows /\ localRuns[i].of = r}

Claims(r) ==
  /\ workerPc = "idle" /\ claims < MaxClaims /\ claims' = claims + 1
  /\ ~hosted[r].leased /\ hosted[r].status \in {"queued", "blocked"}
  /\ hosted' = [hosted EXCEPT ![r].leased = TRUE]

Reporting(r, i, status) ==
  workerPc' = "syncing" /\ claim' = [run |-> r, local |-> i, report |-> status]
Awaiting(r, i) == workerPc' = "waiting" /\ claim' = [run |-> r, local |-> i, report |-> "none"]

\* No local run is known: one is started, whatever else the store has for r.
ClaimStarts(r) ==
  /\ Claims(r) /\ Existing(r) = {} /\ Len(localRuns) < MaxLocal
  /\ localRuns' = Append(Resumed(localRuns), [of |-> r, status |-> "running", runners |-> 1])
  /\ Awaiting(r, Len(localRuns) + 1)
  /\ doubted' = doubted \cup RunTwice
                  \cup (IF \E i \in DOMAIN localRuns : localRuns[i].of = r THEN {r} ELSE {})

\* The catch of executeHostedWorkflowClaim: failed, and no run is named.
ClaimFails(r) ==
  /\ Claims(r) /\ \A i \in Existing(r) : localRuns[i].status = "blocked"
  /\ localRuns' = Resumed(localRuns) /\ Reporting(r, 0, "failed")
  /\ doubted' = doubted \cup RunTwice
                  \cup (IF \E i \in DOMAIN localRuns : localRuns[i].of = r /\ i \notin Existing(r)
                        THEN {r} ELSE {})

\* A blocked run is known and the platform has commands for it.
ClaimContinues(r) ==
  \E i \in Existing(r) :
    /\ Claims(r) /\ localRuns[i].status = "blocked"
    /\ localRuns' = [Resumed(localRuns) EXCEPT ![i].status = "running", ![i].runners = @ + 1]
    /\ Awaiting(r, i) /\ doubted' = doubted \cup RunTwice

\* A run is known and there is nothing to do for it: its status is reported,
\* as failed when it is still running.
ClaimReports(r) ==
  \E i \in Existing(r) :
    /\ Claims(r) /\ localRuns' = Resumed(localRuns)
    /\ Reporting(r, i, Normalized(localRuns[i].status))
    /\ doubted' = doubted \cup RunTwice \cup (IF localRuns[i].status \in Ended THEN {} ELSE {r})

\* A runner takes its run to an end, or to a gate.
RunnerEnds(i) ==
  /\ localRuns[i].runners > 0
  /\ \E status \in Ended :
       localRuns' = [localRuns EXCEPT ![i].status = status, ![i].runners = @ - 1]
  /\ UNCHANGED <<workerPc, claim, hosted, claims, doubted>>

Report(status) == workerPc' = "syncing" /\ claim' = [claim EXCEPT !.report = status]

\* Variant for mutation testing: the first record read is taken.
WaitDoneAtOnce ==
  /\ workerPc \in {"waiting", "rewaiting"} /\ Report(Normalized(localRuns[claim.local].status))
  /\ UNCHANGED <<localRuns, hosted, claims, doubted>>

\* waitForWorkflowRun returns.
WaitDone ==
  /\ workerPc \in {"waiting", "rewaiting"} /\ localRuns[claim.local].status \in Ended
  /\ Report(localRuns[claim.local].status)
  /\ UNCHANGED <<localRuns, hosted, claims, doubted>>

\* Its deadline passes and it throws: the first wait is caught and reported
\* as a failure without a run, a later one ends the worker (WorkerDies).
WaitGivesUp ==
  /\ workerPc = "waiting" /\ localRuns[claim.local].status \notin Ended
  /\ workerPc' = "syncing" /\ claim' = [claim EXCEPT !.local = 0, !.report = "failed"]
  /\ doubted' = doubted \cup {claim.run} /\ UNCHANGED <<localRuns, hosted, claims>>

\* The platform takes the report; a run that is over gives up its lease.
Told(r) ==
  [hosted EXCEPT ![r] = [status |-> claim.report, leased |-> claim.report = "blocked",
                         knows |-> claim.local]]

\* sync: a run blocked at a gate is then polled for commands.
SyncTaken ==
  /\ workerPc = "syncing" /\ hosted[claim.run].leased /\ hosted' = Told(claim.run)
  /\ IF claim.report = "blocked" /\ claim.local # 0
     THEN workerPc' = "polling" /\ UNCHANGED claim
     ELSE workerPc' = "idle" /\ claim' = NoClaim
  /\ UNCHANGED <<localRuns, claims, doubted>>

\* The report arrives and the answer does not: sync throws, the worker ends.
SyncAnswerLost ==
  /\ workerPc = "syncing" /\ hosted[claim.run].leased /\ hosted' = Told(claim.run)
  /\ workerPc' = "down" /\ claim' = NoClaim /\ localRuns' = Killed(localRuns)
  /\ UNCHANGED <<claims, doubted>>

\* resumeBlockedHostedExecution: commands are applied and waited for, or
\* there are none, or the deadline has passed.
PollApplies ==
  /\ workerPc = "polling" /\ hosted[claim.run].leased /\ workerPc' = "rewaiting"
  /\ localRuns' = [localRuns EXCEPT ![claim.local].status = "running",
                                    ![claim.local].runners = @ + 1]
  /\ UNCHANGED <<claim, hosted, claims, doubted>>

PollEnds ==
  /\ workerPc = "polling" /\ workerPc' = "idle" /\ claim' = NoClaim
  /\ UNCHANGED <<localRuns, hosted, claims, doubted>>

LeaseExpires(r) ==
  /\ hosted[r].leased /\ hosted' = [hosted EXCEPT ![r].leased = FALSE]
  /\ UNCHANGED <<workerPc, claim, localRuns, claims, doubted>>

WorkerNext ==
  \/ BootWorker \/ WorkerDies \/ WaitDone \/ WaitGivesUp \/ SyncTaken \/ SyncAnswerLost
  \/ PollApplies \/ PollEnds
  \/ \E i \in DOMAIN localRuns : RunnerEnds(i)
  \/ \E r \in HostedRuns : ClaimStarts(r) \/ ClaimFails(r) \/ ClaimContinues(r)
                             \/ ClaimReports(r) \/ LeaseExpires(r)

WorkerTypeOK ==
  /\ workerPc \in {"down", "idle", "waiting", "rewaiting", "syncing", "polling"}
  /\ localRuns \in Seq([of : HostedRuns, status : Ended \cup {"running"}, runners : Nat])
  /\ hosted \in [HostedRuns -> [status : Ended \cup {"queued"}, leased : BOOLEAN,
                                knows : 0 .. MaxLocal]]
  /\ doubted \subseteq HostedRuns

(* A run the platform has as completed was completed here, one it has as
   failed neither runs nor has completed here, and a hosted run is run by one
   local run and one runner, through lost answers, expired leases and
   restarts of the worker, unless the worker stopped waiting for the run,
   found it still running, or started it again not knowing of the first. *)
WorkerReportsTruth ==
  \A r \in HostedRuns \ doubted :
    LET mine == {localRuns[i] : i \in {j \in DOMAIN localRuns : localRuns[j].of = r}}
    IN /\ hosted[r].status = "completed" => \E l \in mine : l.status = "completed"
       /\ hosted[r].status = "failed" => \A l \in mine : l.status \notin {"running", "completed"}
       /\ Cardinality({j \in DOMAIN localRuns : localRuns[j].of = r}) <= 1
       /\ \A l \in mine : l.runners <= 1

-----------------------------------------------------------------------------
(***************************************************************************)
(* How a hosted worker's requests reach the platform through the relay     *)
(* (cli/worker-runtime.ts): RelayWorkerTransport sends each as a frame on  *)
(* one WebSocket, which it opens when it has none that is open, and        *)
(* hostedManagedExecutorFetch tries again after a transient status.  The   *)
(* worker makes one call at a time; sockets outlive the calls.             *)
(***************************************************************************)

CONSTANTS MaxTransportCalls, MaxSockets, MaxReconnects

VARIABLES
  call,       \* the call under way: [pc, attempt, request, socket]
  transportCalls,      \* per call made: [outcome, applied, retried]
  sockets,    \* the sockets made so far: [state, heard], heard once it has handlers
  ws,         \* this.ws, or 0
  requests,   \* the frames sent: [call, socket, status], status once answered
  forgotten   \* history: the close of an older socket made it forget the newer one

transportVars == <<call, transportCalls, sockets, ws, requests, forgotten>>

NoTransportCall == [pc |-> "idle", attempt |-> 0, request |-> 0, socket |-> 0]
Statuses == {"ok", "transient", "refused"}

TransportInit ==
  /\ call = NoTransportCall /\ transportCalls = << >> /\ sockets = << >> /\ ws = 0
  /\ requests = << >> /\ forgotten = FALSE

CallsMade == Len(transportCalls)

\* The call ends; the worker sees its answer or its error.
Settles(outcome) ==
  /\ call' = NoTransportCall /\ transportCalls' = [transportCalls EXCEPT ![CallsMade].outcome = outcome]

CallStarts ==
  /\ call = NoTransportCall /\ CallsMade < MaxTransportCalls
  /\ transportCalls' = Append(transportCalls, [outcome |-> "none", applied |-> 0, retried |-> 0])
  /\ call' = [NoTransportCall EXCEPT !.pc = "dispatch", !.attempt = 1]
  /\ UNCHANGED <<sockets, ws, requests, forgotten>>

\* The frame is sent under a new requestId, and the timer runs.
Sent(s) ==
  /\ requests' = Append(requests, [call |-> CallsMade, socket |-> s, status |-> "none"])
  /\ call' = [call EXCEPT !.pc = "waiting", !.request = Len(requests) + 1, !.socket = s]

\* connection(): the socket there is if it is open, else a token first.
Dispatch ==
  /\ call.pc = "dispatch"
  /\ IF ws # 0 /\ sockets[ws].state = "open"
     THEN Sent(ws)
     ELSE call' = [call EXCEPT !.pc = "token"] /\ UNCHANGED requests
  /\ UNCHANGED <<transportCalls, sockets, ws, forgotten>>

TokenComes ==
  /\ call.pc = "token" /\ Len(sockets) < MaxSockets
  /\ sockets' = Append(sockets, [state |-> "connecting", heard |-> FALSE])
  /\ call' = [call EXCEPT !.pc = "opening", !.socket = Len(sockets) + 1]
  /\ UNCHANGED <<transportCalls, ws, requests, forgotten>>

\* No token, or no socket: nothing is tried again.
ConnectionFails ==
  /\ \/ call.pc = "token" /\ UNCHANGED sockets
     \/ call.pc = "opening" /\ sockets' = [sockets EXCEPT ![call.socket].state = "closed"]
  /\ Settles("failed") /\ UNCHANGED <<ws, requests, forgotten>>

\* The timer rejects; the socket it waited for is left to itself.
ConnectionTimesOut ==
  /\ call.pc = "opening" /\ Settles("failed")
  /\ UNCHANGED <<sockets, ws, requests, forgotten>>

SocketOpens(s) ==
  /\ sockets[s].state = "connecting"
  /\ IF call.pc = "opening" /\ call.socket = s
     THEN /\ sockets' = [sockets EXCEPT ![s] = [state |-> "open", heard |-> TRUE]]
          /\ ws' = s /\ Sent(s)
     ELSE /\ sockets' = [sockets EXCEPT ![s].state = "open"]
          /\ UNCHANGED <<ws, call, requests>>
  /\ UNCHANGED <<transportCalls, forgotten>>

\* A socket stops being open some time before it reports its close.
SocketCloses(s) ==
  /\ sockets[s].state = "open" /\ sockets' = [sockets EXCEPT ![s].state = "closing"]
  /\ UNCHANGED <<call, transportCalls, ws, requests, forgotten>>

\* The handler rejects all that is pending and forgets the socket there is,
\* whichever socket has closed.
SocketClosed(s) ==
  /\ sockets[s].state = "closing" /\ sockets' = [sockets EXCEPT ![s].state = "closed"]
  /\ IF sockets[s].heard
     THEN /\ ws' = 0 /\ forgotten' = (forgotten \/ ws \notin {0, s})
          /\ IF call.pc = "waiting" THEN Settles("failed") ELSE UNCHANGED <<call, transportCalls>>
     ELSE UNCHANGED <<ws, call, transportCalls, forgotten>>
  /\ UNCHANGED requests

\* The platform does what a frame asks for and answers it.
PlatformAnswers(r) ==
  /\ requests[r].status = "none" /\ sockets[requests[r].socket].state # "connecting"
  /\ \E s \in Statuses :
       /\ requests' = [requests EXCEPT ![r].status = s]
       /\ \E done \in IF s = "refused" THEN {0} ELSE IF s = "ok" THEN {1} ELSE {0, 1} :
            transportCalls' = [transportCalls EXCEPT ![requests[r].call].applied = @ + done]
  /\ UNCHANGED <<call, sockets, ws, forgotten>>

IsTransient(status) == status = "transient"

\* handleMessage finds the request pending; a transient status is retried.
TransportAnswer ==
  LET status == requests[call.request].status IN
  /\ call.pc = "waiting" /\ status # "none"
  /\ sockets[call.socket].state = "open"
  /\ IF IsTransient(status) /\ call.attempt < MaxReconnects
     THEN /\ call' = [call EXCEPT !.pc = "delay"]
          /\ transportCalls' = [transportCalls EXCEPT ![CallsMade].retried = @ + 1]
     ELSE Settles(IF status = "ok" THEN "ok" ELSE "failed")
  /\ UNCHANGED <<sockets, ws, requests, forgotten>>

DelayEnds ==
  /\ call.pc = "delay"
  /\ call' = [call EXCEPT !.pc = "dispatch", !.attempt = @ + 1]
  /\ UNCHANGED <<transportCalls, sockets, ws, requests, forgotten>>

\* Variant for mutation testing: the timer only runs while the socket is open.
RequestTimesOutOpen ==
  /\ call.pc = "waiting" /\ sockets[call.socket].state = "closed" /\ Settles("failed")
  /\ UNCHANGED <<sockets, ws, requests, forgotten>>

\* The timer, or the error of send: not tried again either.
RequestTimesOut ==
  /\ call.pc = "waiting" /\ Settles("failed")
  /\ UNCHANGED <<sockets, ws, requests, forgotten>>

TransportNext ==
  \/ CallStarts \/ Dispatch \/ TokenComes \/ ConnectionFails \/ ConnectionTimesOut
  \/ \E s \in DOMAIN sockets : SocketOpens(s) \/ SocketCloses(s) \/ SocketClosed(s)
  \/ \E r \in DOMAIN requests : PlatformAnswers(r)
  \/ TransportAnswer \/ DelayEnds \/ RequestTimesOut

\* The worker goes on and timers fire; the relay and the platform owe nothing.
TransportFairness ==
  /\ WF_transportVars(Dispatch) /\ WF_transportVars(DelayEnds)
  /\ WF_transportVars(TokenComes \/ ConnectionFails)
  /\ WF_transportVars(ConnectionTimesOut) /\ WF_transportVars(RequestTimesOut)

TransportSpec == TransportInit /\ [][TransportNext]_transportVars /\ TransportFairness

---------------------------------------------------------------------------

TransportTypeOK ==
  /\ Len(transportCalls) <= MaxTransportCalls /\ Len(sockets) <= MaxSockets
  /\ ws \in 0..Len(sockets) /\ call.attempt \in 0..MaxReconnects

(* A call that succeeded was done, and none was done more often than the
   platform answered it as transient and once more: what a lost answer or a
   closed socket leaves in doubt is never sent again. *)
DoneAsOften ==
  \A i \in DOMAIN transportCalls :
    /\ transportCalls[i].outcome = "ok" => transportCalls[i].applied >= 1
    /\ transportCalls[i].applied <= transportCalls[i].retried + 1

(* The socket the worker listens to is the one it would use, and the only one
   open: it never opens a second beside it, unless the late close of an older
   socket made it forget the one it has. *)
OneSocketUsed ==
  ~forgotten => \A s \in DOMAIN sockets : sockets[s] = [state |-> "open", heard |-> TRUE] => s = ws

TransportHolds == DoneAsOften /\ OneSocketUsed

(* Every call the worker makes ends, whatever becomes of the sockets. *)
CallsSettle == call.pc # "idle" ~> call.pc = "idle"
=============================================================================
