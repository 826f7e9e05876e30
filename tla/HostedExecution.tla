--------------------------- MODULE HostedExecution ---------------------------
(***************************************************************************)
(* What a standalone worker does around the run it has leased              *)
(* (cli/worker-runtime.ts): where its identity comes from and what is left *)
(* of it, the model gateway's keys it puts into its own environment while  *)
(* the claim executes, the credentials it fetches for the run, and the     *)
(* verification commands it runs once a completed run has been reported.   *)
(* ManagedWorker has the claims themselves; here a run is what it ends as. *)
(***************************************************************************)
EXTENDS Integers, Sequences, FiniteSets

CONSTANTS HandleNames,  \* names of credentials, each written in two cases
  Providers,          \* providers of the model gateway
  OwnKeys,            \* variables the worker's own environment has
  MaxChecks,          \* bound on the commands of a contract
  MaxStarts, MaxLeases  \* bounds on starts, and on the leases of a start

VARIABLES
  host,      \* the process: [pc, kind, file, key, leases]
  identity,  \* the executor's identity file: [key, state]
  keyFiles,  \* identity files of sandboxes, by start
  environ,   \* process.env
  held,      \* the lease at hand
  fetched,   \* what the run was started with: [given, env], env the secret by variable
  outcome,   \* how the run at hand ended
  checks,    \* commands of the contract that are left to run
  ran,       \* what became of the others
  toldHost,      \* what the platform was told of the lease: [status, verdict]
  starts,
  leftover,  \* history: starts refused or killed before they cleaned up
  rekeyed    \* history: identity files that were torn or written twice

hostedVars == <<host, identity, keyFiles, environ, held, fetched, outcome, checks, ran, toldHost,
                starts, leftover, rekeyed>>

Handles == HandleNames \X (1 .. 2)
\* envNameForCredentialRef writes a name in capitals.
EnvName(handle) == handle[1]
\* How the workflow uses a handle: a node of one of the three types names it,
\* names it by a template, or something else has it in its environment.
Uses == [ref : Handles, by : {"node", "template", "env"}]
\* What the workflow's credentials, the profiles of the two snapshots and the
\* contract's provider actions may list between them.
Lists == SUBSET Handles
NoSecrets == [given |-> {}, env |-> [n \in HandleNames |-> <<"none", 0>>]]
EnvKeys == {"VIEWPORT"} \cup Providers
OwnKey == [k \in EnvKeys |-> IF k \in OwnKeys THEN "own" ELSE "unset"]
Off == [pc |-> "off", kind |-> "none", key |-> 0, leases |-> 0]
NoLease == [token |-> FALSE, yaml |-> FALSE, claimToken |-> FALSE, runId |-> FALSE,
            gateway |-> "none", session |-> FALSE, contract |-> "none", uses |-> {}, listed |-> {}]
ToldOf(status, verdict) == [status |-> status, verdict |-> verdict]
Nothing == ToldOf("none", "none")

\* A claim may leave out each of these; only the lease of a bootstrap file
\* names a gateway (claimLeaseHttp, claimedLeaseFromBootstrap).
Leases(gateways) ==
  [token : {TRUE}, yaml : {TRUE}, claimToken : {TRUE}, runId : {TRUE}, gateway : gateways,
   session : BOOLEAN, contract : {"none", "closed", "open"}, uses : {{}}, listed : {{}}]
    \cup [token : BOOLEAN, yaml : BOOLEAN, claimToken : BOOLEAN, runId : BOOLEAN,
          gateway : {"none"}, session : {FALSE}, contract : {"none"}, uses : {{}}, listed : {{}}]
    \cup [token : {TRUE}, yaml : {TRUE}, claimToken : {TRUE}, runId : {TRUE},
          gateway : {"none"}, session : {FALSE}, contract : {"none"},
          uses : {u \in SUBSET Uses : Cardinality(u) <= 2}, listed : Lists]

\* A verification command: where its working_directory is, "dotted" for a
\* directory of the run whose name begins with two dots.
HostCommands == [required : BOOLEAN, text : BOOLEAN, dir : {"none", "inside", "dotted", "outside"}]
\* The commands a contract may list; a longer list is of plain ones.
Contracts ==
  {<<c>> : c \in HostCommands}
    \cup {[i \in 1 .. n |-> [required |-> i = m, text |-> TRUE, dir |-> "none"]] :
            n \in 0 .. MaxChecks, m \in 1 .. MaxChecks}

HostedInit ==
  /\ host = Off /\ identity = [key |-> 0, state |-> "absent"] /\ keyFiles = {}
  /\ environ = OwnKey /\ held = NoLease /\ fetched = NoSecrets /\ outcome = "none"
  /\ checks = << >> /\ ran = << >> /\ toldHost = Nothing
  /\ starts = 0 /\ leftover = {} /\ rekeyed = {}

Goes(pc) == host' = [host EXCEPT !.pc = pc]
LeaseAlone == UNCHANGED <<held, fetched, outcome, checks, ran, toldHost>>
FilesAlone == UNCHANGED <<identity, keyFiles, starts, leftover, rekeyed>>

Starting(kind) ==
  /\ host.pc = "off" /\ starts < MaxStarts /\ starts' = starts + 1

\* loadSandboxBootstrap: the identity is written before the other fields of
\* the bootstrap file are asked for.
StartSandbox ==
  /\ Starting("sandbox") /\ keyFiles' = keyFiles \cup {starts'}
  /\ host' = [pc |-> "loading", kind |-> "sandbox", key |-> starts', leases |-> 0]
  /\ UNCHANGED <<identity, environ, leftover, rekeyed>> /\ LeaseAlone

\* A required field is missing: loadWorkerRuntimeBootstrap throws, and
\* nothing that cleans up has been reached.
BootstrapRefused ==
  /\ host.pc = "loading" /\ host.kind = "sandbox" /\ host' = Off
  /\ leftover' = leftover \cup {host.key}
  /\ UNCHANGED <<identity, keyFiles, environ, starts, rekeyed>> /\ LeaseAlone

\* ensureManagedExecutorIdentity: a file that can be read is the identity,
\* in place of any other a key is generated and written over it.
StartRegistered ==
  /\ Starting("registered")
  /\ IF identity.state = "whole"
     THEN /\ host' = [pc |-> "loading", kind |-> "registered", key |-> identity.key, leases |-> 0]
          /\ UNCHANGED identity
     ELSE /\ host' = [pc |-> "writing", kind |-> "registered", key |-> starts', leases |-> 0]
          /\ identity' = [identity EXCEPT !.state = "torn"]
  /\ UNCHANGED <<keyFiles, environ, leftover, rekeyed>> /\ LeaseAlone

HostIdentityWritten ==
  /\ host.pc = "writing" /\ Goes("loading") /\ identity' = [key |-> host.key, state |-> "whole"]
  /\ UNCHANGED <<keyFiles, environ, starts, leftover, rekeyed>> /\ LeaseAlone

\* Another start of the executor read the directory before the file was
\* there: the worker lock is only taken later.
RivalWrites ==
  /\ host.kind = "registered" /\ host.key = starts /\ identity.state = "whole"
  /\ starts < MaxStarts /\ starts' = starts + 1 /\ identity' = [identity EXCEPT !.key = starts']
  /\ rekeyed' = rekeyed \cup {host.key}
  /\ UNCHANGED <<host, keyFiles, environ, leftover>> /\ LeaseAlone

\* A paired worker has no workspace, executor and credential: it is not
\* hosted.
StartPaired ==
  /\ Starting("paired") /\ host' = [pc |-> "loading", kind |-> "paired", key |-> 0, leases |-> 0]
  /\ UNCHANGED <<identity, keyFiles, environ, leftover, rekeyed>> /\ LeaseAlone

Hosted == host.kind # "paired"

\* The finally of runStandaloneWorker: bootstrap.cleanup.
Leaves ==
  /\ host' = Off /\ environ' = OwnKey /\ held' = NoLease /\ fetched' = NoSecrets /\ outcome' = "none"
  /\ checks' = << >> /\ ran' = << >> /\ toldHost' = Nothing
  /\ keyFiles' = IF host.kind = "sandbox" THEN keyFiles \ {host.key} ELSE keyFiles
  /\ UNCHANGED <<identity, starts, leftover, rekeyed>>

\* The workspace root is not there, the lock is taken or the first heartbeat
\* throws; the inbound transport has no listener and is always refused.
StartRefused == host.pc = "loading" /\ Leaves

Online ==
  /\ host.pc = "loading" /\ Goes("idle") /\ UNCHANGED environ /\ LeaseAlone /\ FilesAlone

\* gatewayLeaseEnv: the variables of every provider and those of its own.
GatewayEnv(gateway) ==
  IF gateway = "none" THEN [k \in {} |-> "leased"] ELSE [k \in {"VIEWPORT", gateway} |-> "leased"]
Over(upper, lower) ==
  [k \in DOMAIN lower |-> IF k \in DOMAIN upper THEN upper[k] ELSE lower[k]]

\* The bootstrap file's lease, or the answer to a claim; withGatewayLease-
\* ProcessEnv sets the variables before the claim is executed.
TakesLease ==
  /\ host.pc = "idle" /\ host.leases < MaxLeases
  /\ \E lease \in Leases(IF host.kind = "sandbox" THEN Providers \cup {"none"} ELSE {"none"}) :
       /\ held' = lease /\ host' = [host EXCEPT !.pc = "claimed", !.leases = @ + 1]
       /\ environ' = IF Hosted THEN Over(GatewayEnv(lease.gateway), environ) ELSE environ
  /\ fetched' = NoSecrets /\ outcome' = "none" /\ checks' = << >> /\ ran' = << >> /\ toldHost' = Nothing
  /\ FilesAlone

\* Variant for mutation testing: the claim's end puts nothing back.
RestoredNot == environ

\* The finally of withGatewayLeaseProcessEnv.
Restored ==
  [k \in EnvKeys |-> IF k \in DOMAIN GatewayEnv(held.gateway) THEN OwnKey[k] ELSE environ[k]]

\* executeClaim returns.
Ends(result) == outcome' = result /\ Goes("report") /\ environ' = Restored

\* executeClaim reports what is not hosted as completed; a lease without its
\* token or its workflow fails, as does one whose credentials cannot be asked
\* for, or whose credential request, registration or start throws.
ExecutesPaired ==
  /\ host.pc = "claimed" /\ ~Hosted /\ Ends("fixture")
  /\ UNCHANGED <<held, fetched, checks, ran, toldHost>> /\ FilesAlone

ClaimRefused ==
  /\ host.pc = "claimed" /\ Hosted /\ Ends("failed")
  /\ UNCHANGED <<held, fetched, checks, ran, toldHost>> /\ FilesAlone

\* A lease that is refused by the code, whatever the platform does.
Startable == held.token /\ held.yaml /\ held.runId /\ held.claimToken

\* workflowNodeCredentialRefs: what the nodes name, as it is written there.
NodeRefs == {u.ref : u \in {v \in held.uses : v.by = "node"}}
\* credentialHandlesFromLease.
AskedOf == NodeRefs \cup held.listed

\* materializeHostedRunCredentials asks for one handle after the other; a
\* handle whose answer has no secret is left out.  Of two that have one
\* variable the later of the order stays.
HandleWritten(given) ==
  [given |-> given,
   env |-> [n \in HandleNames |->
     LET mine == {h \in given : EnvName(h) = n}
     IN IF mine = {} THEN <<"none", 0>>
        ELSE CHOOSE h \in mine : \A g \in mine : g[2] <= h[2]]]
StartsRun ==
  /\ host.pc = "claimed" /\ Hosted /\ Startable
  /\ fetched' \in {HandleWritten(given) : given \in SUBSET AskedOf} /\ Goes("running")
  /\ UNCHANGED <<environ, held, outcome, checks, ran, toldHost>> /\ FilesAlone

\* waitForWorkflowRun returns the run, or its deadline has passed.
RunEnds ==
  /\ host.pc = "running" /\ \E status \in {"completed", "failed", "canceled", "blocked"} : Ends(status)
  /\ UNCHANGED <<held, fetched, checks, ran, toldHost>> /\ FilesAlone
WaitEnds ==
  /\ host.pc = "running" /\ Ends("lost")
  /\ UNCHANGED <<held, fetched, checks, ran, toldHost>> /\ FilesAlone

\* The status syncLeaseHttp sends.
Reported(result) ==
  CASE result = "fixture" -> "completed" [] result = "lost" -> "failed" [] OTHER -> result

\* sync, and whether the run is to be polled for commands: the lease of a
\* bootstrap file is not.
ReportTaken ==
  /\ host.pc = "report" /\ (Hosted => held.runId)
  /\ toldHost' = [toldHost EXCEPT !.status = Reported(outcome)]
  /\ Goes(IF outcome = "blocked" /\ host.kind = "registered" THEN "polling" ELSE "reported")
  /\ UNCHANGED <<environ, held, fetched, outcome, checks, ran>> /\ FilesAlone

\* It throws: without a run id at once, else when the answer is lost.  The
\* lease of the bootstrap file and the loop are both left.
ReportFails == host.pc = "report" /\ Hosted /\ Leaves

\* resumeBlockedHostedExecution: commands arrive, the credentials are asked
\* for anew and the run goes on; or there are none, or the deadline passes.
\* A gateway's variables are not set again, for a polled lease has none.
CommandsApplied ==
  /\ host.pc = "polling" /\ fetched' \in {HandleWritten(given) : given \in SUBSET AskedOf}
  /\ \E status \in {"completed", "failed", "canceled", "blocked"} :
       outcome' = status /\ Goes("report")
  /\ UNCHANGED <<environ, held, checks, ran, toldHost>> /\ FilesAlone
PollingEnds ==
  /\ host.pc = "polling" /\ Goes("reported")
  /\ UNCHANGED environ /\ LeaseAlone /\ FilesAlone
PollingThrows == host.pc = "polling" /\ Leaves

\* maybeExecuteHostedSessionVerification: a completed run of a hosted worker.
Verifiable == Hosted /\ outcome = "completed"

\* leaseMayHaveSessionVerification.
MayHaveContract == held.session \/ held.contract # "none"

\* verificationCommands: those with a text; the lease's contract if the
\* runner may execute it, else the one the platform has now.
StartsChecks ==
  /\ host.pc = "reported" /\ Verifiable /\ (held.contract = "open" \/ MayHaveContract)
  /\ \E contract \in Contracts :
       checks' = SelectSeq(contract, LAMBDA c : c.text)
  /\ checks' # << >> /\ Goes("checking") /\ ran' = << >>
  /\ UNCHANGED <<environ, held, fetched, outcome, toldHost>> /\ FilesAlone

\* No contract, none that may be executed, no session or no command.
NothingToCheck ==
  /\ host.pc = "reported" /\ Goes("cleanup")
  /\ UNCHANGED environ /\ LeaseAlone /\ FilesAlone

\* verificationCommandCwd: the command's directory, else the first checkout
\* that is inside the run's directory, else that.
CwdInside(c) == c.dir \in {"none", "inside"}

\* One command: it ends with its exit code, cannot be started, or is not
\* started for where it would run; the two count as exit code 1.
RunsCheck ==
  /\ host.pc = "checking" /\ checks # << >> /\ checks' = Tail(checks)
  /\ LET c == Head(checks)
     IN \E result \in IF CwdInside(c) THEN {"zero", "nonzero", "error"} ELSE {"unrun"} :
          ran' = Append(ran, [required |-> c.required, dir |-> c.dir, result |-> result,
                              env |-> environ])
  /\ UNCHANGED <<host, environ, held, fetched, outcome, toldHost>> /\ FilesAlone

\* Whether a required command did not pass.
Verdict ==
  IF \E i \in DOMAIN ran : ran[i].required /\ ran[i].result # "zero" THEN "failed" ELSE "passed"

\* postHostedSessionVerificationAttempt.
Posts ==
  /\ host.pc = "checking" /\ checks = << >> /\ toldHost' = [toldHost EXCEPT !.verdict = Verdict]
  /\ Goes("cleanup") /\ UNCHANGED <<environ, held, fetched, outcome, checks, ran>> /\ FilesAlone

\* The poll for the contract or the post throws: the worker is left before
\* cleanup.
VerificationThrows == host.pc \in {"reported", "checking"} /\ Hosted /\ Leaves

\* cleanup, which tells the platform of a paired worker's lease only; the
\* lease of a bootstrap file is the only one of its process.
CleansUp ==
  /\ host.pc = "cleanup" /\ host.kind # "sandbox" /\ Goes("idle")
  /\ UNCHANGED environ /\ LeaseAlone /\ FilesAlone
Departs == host.pc \in {"idle", "cleanup"} /\ Leaves

\* The process is killed.
HostKilled ==
  /\ host.pc # "off" /\ host' = Off /\ environ' = OwnKey /\ held' = NoLease /\ fetched' = NoSecrets
  /\ outcome' = "none" /\ checks' = << >> /\ ran' = << >> /\ toldHost' = Nothing
  /\ leftover' = leftover \cup {host.key}
  /\ rekeyed' = IF host.pc = "writing" THEN rekeyed \cup {host.key} ELSE rekeyed
  /\ UNCHANGED <<identity, keyFiles, starts>>

HostedNext ==
  \/ StartSandbox \/ BootstrapRefused \/ StartRegistered \/ HostIdentityWritten \/ RivalWrites
  \/ StartPaired \/ StartRefused \/ Online \/ TakesLease \/ ExecutesPaired \/ ClaimRefused
  \/ StartsRun \/ RunEnds \/ WaitEnds \/ ReportTaken \/ ReportFails
  \/ CommandsApplied \/ PollingEnds \/ PollingThrows
  \/ StartsChecks \/ NothingToCheck \/ RunsCheck \/ Posts \/ VerificationThrows
  \/ CleansUp \/ Departs \/ HostKilled

HostedSpec == HostedInit /\ [][HostedNext]_hostedVars

HostedTypeOK ==
  /\ host.pc \in {"off", "writing", "loading", "idle", "claimed", "running", "report", "polling",
                  "reported", "checking", "cleanup"}
  /\ environ \in [EnvKeys -> {"unset", "own", "leased"}]
  /\ fetched.given \subseteq Handles /\ keyFiles \subseteq 1 .. MaxStarts
  /\ Len(ran) + Len(checks) <= MaxChecks

(* The gateway's keys are in the worker's environment while the claim they
   were leased for executes and at no other time: what the environment had
   before is back when a claim has ended however it ended, and no
   verification command is given them. *)
LeasedKeysEnd ==
  /\ (\E k \in EnvKeys : environ[k] = "leased") =>
       host.pc \in {"claimed", "running"} /\ held.gateway # "none"
  /\ host.pc \notin {"claimed", "running"} => environ = OwnKey
  /\ \A i \in DOMAIN ran : ran[i].env = OwnKey

(* What the platform is told of a verification is what happened: the run had
   completed and been reported so before, no command was run outside the
   run's directory, and the attempt passed if and only if every required
   command was run and ended with 0. *)
VerdictsTrue ==
  /\ toldHost.verdict # "none" =>
       /\ toldHost.status = "completed" /\ outcome = "completed" /\ ran # << >>
       /\ (toldHost.verdict = "passed") <=>
            \A i \in DOMAIN ran : ran[i].required => ran[i].result = "zero"
  /\ \A i \in DOMAIN ran : ran[i].dir = "outside" => ran[i].result = "unrun"

(* A sandbox's private key does not outlast its process, unless the process
   was killed or its bootstrap file was refused after the key had been
   written; and an executor signs with the key of its identity file, unless
   another first start wrote one too. *)
IdentityKept ==
  /\ \A f \in keyFiles : (f = host.key /\ host.kind = "sandbox") \/ f \in leftover
  /\ host.kind = "registered" /\ host.pc \notin {"off", "writing"} /\ host.key \notin rekeyed =>
       identity = [key |-> host.key, state |-> "whole"]

(* A node finds under its handle the secret the platform gave for that
   handle, or none where it gave none: unless another handle that differs
   only in case was asked for too.  What a template names, or what is only
   in an environment, is found if a list of the lease has it as well. *)
CredentialsFound ==
  host.pc = "running" =>
    \A u \in held.uses :
      (\A h \in AskedOf \ {u.ref} : EnvName(h) # EnvName(u.ref)) =>
        /\ u.ref \in fetched.given => fetched.env[EnvName(u.ref)] = u.ref
        /\ fetched.env[EnvName(u.ref)] \in {u.ref, <<"none", 0>>}
        /\ u.by = "node" \/ u.ref \in held.listed => u.ref \in AskedOf

HostedHolds == CredentialsFound /\ LeasedKeysEnd /\ VerdictsTrue /\ IdentityKept
=============================================================================
