---------------------------- MODULE WorkerFiles -----------------------------
(***************************************************************************)
(* The file that keeps a second worker of an executor from starting        *)
(* (cli/worker-process-lock.ts).  Creating the file and writing the pid    *)
(* into it are two steps, and so are judging a lock stale and removing it. *)
(* Second, the files a worker is paired with.                              *)
(***************************************************************************)
EXTENDS Integers, FiniteSets, Sequences

CONSTANT Processes  \* pids; a process that has ended does not come back

ASSUME Pids == Processes \subseteq Nat \ {0}

VARIABLES
  lockFile,  \* who created the file and whether the pid is in it
  lockPc,    \* per process: where it is in acquireWorkerProcessLock
  judged,    \* per process: the file it found, as it found it
  raced      \* history: a file was removed that was not the stale one judged

lockVars == <<lockFile, lockPc, judged, raced>>

NoFile == [by |-> 0, written |-> FALSE]

LockInit ==
  /\ lockFile = NoFile /\ lockPc = [p \in Processes |-> "out"]
  /\ judged = [p \in Processes |-> NoFile] /\ raced = FALSE

At(p, from, to) == lockPc[p] = from /\ lockPc' = [lockPc EXCEPT ![p] = to]
IsAlive(p) == lockPc[p] # "ended"

\* openSync with 'wx': the file is created, or exists already.
Create(p, from, onExists) ==
  \/ /\ lockFile = NoFile /\ At(p, from, "created")
     /\ lockFile' = [by |-> p, written |-> FALSE] /\ UNCHANGED <<judged, raced>>
  \/ /\ lockFile # NoFile /\ At(p, from, onExists) /\ UNCHANGED <<lockFile, judged, raced>>

LockOpen(p) == Create(p, "out", "exists")

\* The pid goes into the file that was opened, still there or not.
LockWrite(p) ==
  /\ At(p, "created", "holds")
  /\ lockFile' = IF lockFile.by = p THEN [lockFile EXCEPT !.written = TRUE] ELSE lockFile
  /\ UNCHANGED <<judged, raced>>

\* Variant for mutation testing: a lock that can be read is taken over.
IsStaleAlways(f) == TRUE

\* readWorkerLock and processIsAlive: an unreadable file counts as stale.
IsStale(f) == ~f.written \/ ~IsAlive(f.by)

LockRead(p) ==
  /\ At(p, "exists", IF IsStale(lockFile) THEN "stale" ELSE "ended")
  /\ judged' = [judged EXCEPT ![p] = lockFile] /\ UNCHANGED <<lockFile, raced>>

\* Does p remove something other than what it judged, or a lock whose living
\* creator has yet to write its pid?
Races(p) ==
  /\ lockFile # NoFile
  /\ lockFile # judged[p] \/ (~lockFile.written /\ IsAlive(lockFile.by))

LockRemove(p) ==
  /\ At(p, "stale", "retry") /\ lockFile' = NoFile
  /\ raced' = (raced \/ Races(p))
  /\ UNCHANGED judged

\* The second attempt; a file that is there again is an error.
LockReopen(p) == Create(p, "retry", "ended")

\* release, and the end of the process: only its own pid's file is removed.
LockRelease(p) ==
  /\ At(p, "holds", "ended")
  /\ lockFile' = IF lockFile.written /\ lockFile.by = p THEN NoFile ELSE lockFile
  /\ UNCHANGED <<judged, raced>>

LockCrash(p) ==
  /\ lockPc[p] \notin {"out", "ended"}
  /\ lockPc' = [lockPc EXCEPT ![p] = "ended"] /\ UNCHANGED <<lockFile, judged, raced>>

\* stopWorkerProcessLock: a stale lock is inspected, then removed; a live
\* worker is signalled, which is LockRelease.
StopInspects(p) ==
  /\ lockFile.written /\ ~IsAlive(lockFile.by) /\ At(p, "out", "stopping")
  /\ judged' = [judged EXCEPT ![p] = lockFile] /\ UNCHANGED <<lockFile, raced>>

StopRemoves(p) ==
  /\ At(p, "stopping", "ended") /\ lockFile' = NoFile
  /\ raced' = (raced \/ Races(p)) /\ UNCHANGED judged

LockNext ==
  \E p \in Processes :
    \/ LockOpen(p) \/ LockWrite(p) \/ LockRead(p) \/ LockRemove(p) \/ LockReopen(p)
    \/ LockRelease(p) \/ LockCrash(p) \/ StopInspects(p) \/ StopRemoves(p)

LockSpec == LockInit /\ [][LockNext]_lockVars

LockFiles == [by : Processes \cup {0}, written : BOOLEAN]

LockTypeOK ==
  /\ raced \in BOOLEAN /\ lockFile \in LockFiles
  /\ lockPc \in [Processes -> {"out", "created", "exists", "stale", "retry",
                               "holds", "stopping", "ended"}]
  /\ judged \in [Processes -> LockFiles]

(* Two workers hold the lock only after one of them, or a stop command,
   removed a file other than the dead worker's lock it had judged: one that
   had changed hands since, or whose pid was not written yet. *)
LockExclusive ==
  Cardinality({p \in Processes : lockPc[p] = "holds"}) <= 1 \/ raced

-----------------------------------------------------------------------------
(***************************************************************************)
(* How a worker gets its identity and its place in a workspace: identity.  *)
(* json, pairing.json and the worker section of config.json, written one   *)
(* after another by `vpd pair --worker` (cli/lifecycle-pair-command.ts,    *)
(* cli/lifecycle-pair-server.ts, cli/worker-profile.ts), removed one after *)
(* another by `vpd worker reset`, and read by the worker that starts and   *)
(* by every request it signs (cli/worker-command.ts, worker-runtime.ts).   *)
(*                                                                         *)
(* A key is its number; an approval is the number of the pairing code that *)
(* got it, and stands for the server, workspace, executor and credential.  *)
(***************************************************************************)

CONSTANTS Pairers, MaxCodes, MaxWorkerKeys, PollAttempts, MaxWorkerCommands

VARIABLES
  identityFile,   \* the key in identity.json, NoKey or Unreadable
  workerSection,  \* the worker section of config.json
  pairingFile,    \* the approval in pairing.json, or 0
  codes,          \* the platform's pairing codes: the key claimed with, the status
  pairing,        \* per pairing command: where it is
  resetting,      \* the reset command
  worker,         \* the running worker: the profile it loaded and its lock
  workerKeys,       \* how many keys were generated
  workerCommands, \* how many resets, starts, stops and interruptions there were
  collided,       \* history: two commands wrote over each other
  halfway,        \* history: a command ended with some of its files written
  unseen          \* history: the running worker's key was removed unseen

pairVars == <<identityFile, workerSection, pairingFile, codes, pairing, resetting, worker,
              workerKeys, workerCommands, collided, halfway, unseen>>

NoKey == 0
Unreadable == -1
NoSection == [approval |-> 0, key |-> 0, transport |-> "none"]
NotPairing == [pc |-> "idle", key |-> 0, code |-> 0, polls |-> 0]
NotResetting == [pc |-> "idle", section |-> NoSection]
NoWorker == [approval |-> 0, key |-> 0, lock |-> << >>, since |-> NoSection]
Transports == {"polling", "relay"}

PairInit ==
  /\ identityFile = NoKey /\ workerSection = NoSection /\ pairingFile = 0 /\ codes = << >>
  /\ pairing = [p \in Pairers |-> NotPairing] /\ resetting = NotResetting
  /\ worker = NoWorker /\ workerKeys = 0 /\ workerCommands = 0
  /\ collided = FALSE /\ halfway = FALSE /\ unseen = FALSE

---------------------------------------------------------------------------
(* vpd pair --worker *)

PairerAt(p, pc) == pairing[p].pc = pc
Becomes(p, r) == pairing' = [pairing EXCEPT ![p] = r]
Moves(p, pc) == pairing' = [pairing EXCEPT ![p].pc = pc]
Commanded == workerCommands < MaxWorkerCommands /\ workerCommands' = workerCommands + 1
OtherPairers(p) == Pairers \ {p}

\* ensureWorkerIdentity: the key of the file, or a new one.  The commands are
\* alike; one that begins is the first that is free.
IdentityRead(p) ==
  /\ PairerAt(p, "idle") /\ \A q \in Pairers : q < p => ~PairerAt(q, "idle")
  /\ Len(codes) < MaxCodes
  /\ IF identityFile > 0
     THEN Becomes(p, [NotPairing EXCEPT !.pc = "identified", !.key = identityFile])
          /\ UNCHANGED workerKeys
     ELSE /\ workerKeys < MaxWorkerKeys /\ workerKeys' = workerKeys + 1
          /\ Becomes(p, [NotPairing EXCEPT !.pc = "generated", !.key = workerKeys + 1])
  /\ UNCHANGED <<identityFile, workerSection, pairingFile, codes, resetting, worker,
                 workerCommands, collided, halfway, unseen>>

\* The new key replaces what another first pairing wrote meanwhile.
IdentityWritten(p) ==
  /\ PairerAt(p, "generated") /\ Moves(p, "identified")
  /\ identityFile' = pairing[p].key
  /\ collided' = (collided \/ identityFile > 0 \/ resetting.pc # "idle")
  /\ UNCHANGED <<workerSection, pairingFile, codes, resetting, worker, workerKeys, workerCommands,
                 halfway, unseen>>

\* workerPairingPayload: what the platform learns of the worker.
ClaimWith(key) == [key |-> key, status |-> "pending"]

\* pairWithCode claims a code, pairWithoutCode creates one, with the key.
CodeClaimed(p) ==
  /\ PairerAt(p, "identified") /\ Len(codes) < MaxCodes
  /\ codes' = Append(codes, ClaimWith(pairing[p].key))
  /\ Becomes(p, [pairing[p] EXCEPT !.pc = "polling", !.code = Len(codes) + 1])
  /\ UNCHANGED <<identityFile, workerSection, pairingFile, resetting, worker, workerKeys,
                 workerCommands, collided, halfway, unseen>>

\* The owner's decision, or none in time, on a code still waited for.
OwnerDecides(i) ==
  /\ codes[i].status = "pending" /\ \E p \in Pairers : pairing[p].code = i
  /\ \E s \in {"approved", "refused"} : codes' = [codes EXCEPT ![i].status = s]
  /\ UNCHANGED <<identityFile, workerSection, pairingFile, pairing, resetting, worker, workerKeys,
                 workerCommands, collided, halfway, unseen>>

\* Variant for mutation testing: any decision ends the polling well.
PollDecided(p) == codes[pairing[p].code].status # "pending"

PollApproved(p) == codes[pairing[p].code].status = "approved"

\* pollForApproval: a poll that fails on the network counts as one too.
Polled(p) ==
  /\ PairerAt(p, "polling")
  /\ \/ /\ PollApproved(p) /\ Moves(p, "approved")
     \/ /\ pairing[p].polls + 1 < PollAttempts
        /\ Becomes(p, [pairing[p] EXCEPT !.polls = @ + 1])
     \/ /\ \/ codes[pairing[p].code].status = "refused"
           \/ pairing[p].polls + 1 = PollAttempts
        /\ Becomes(p, NotPairing)
  /\ UNCHANGED <<identityFile, workerSection, pairingFile, codes, resetting, worker, workerKeys,
                 workerCommands, collided, halfway, unseen>>

\* storeWorkerProfile: config.json first, with the default transport,
ProfileStored(p) ==
  /\ PairerAt(p, "approved") /\ Moves(p, "stored")
  /\ workerSection' = [approval |-> pairing[p].code, key |-> pairing[p].key,
                        transport |-> "polling"]
  /\ collided' = (collided \/ resetting.pc # "idle" \/ \E q \in OtherPairers(p) : PairerAt(q, "stored"))
  /\ UNCHANGED <<identityFile, pairingFile, codes, resetting, worker, workerKeys, workerCommands,
                 halfway, unseen>>

\* then pairing.json.
RecordStored(p) ==
  /\ PairerAt(p, "stored") /\ Becomes(p, NotPairing)
  /\ pairingFile' = pairing[p].code
  /\ collided' = (collided \/ resetting.pc # "idle")
  /\ UNCHANGED <<identityFile, workerSection, codes, resetting, worker, workerKeys, workerCommands,
                 halfway, unseen>>

\* The command fails or is ended; a file it was writing may be cut short.
PairingEnds(p) ==
  /\ Commanded /\ ~PairerAt(p, "idle") /\ Becomes(p, NotPairing)
  /\ \/ UNCHANGED <<identityFile, pairingFile>>
     \/ PairerAt(p, "generated") /\ identityFile' = Unreadable /\ UNCHANGED pairingFile
     \/ PairerAt(p, "stored") /\ pairingFile' = 0 /\ UNCHANGED identityFile
  /\ collided' = (collided \/ (PairerAt(p, "generated") /\ identityFile > 0))
  /\ halfway' = (halfway \/ PairerAt(p, "stored"))
  /\ UNCHANGED <<workerSection, codes, resetting, worker, workerKeys, unseen>>

---------------------------------------------------------------------------
(* vpd worker start, stop, reset, doctor *)

\* currentWorkerLockOptions: the lock of the profile that is configured now.
LockOf(s, transport) == <<s.approval, s.key, transport>>
LockActive == /\ worker # NoWorker /\ workerSection # NoSection
              /\ worker.lock = LockOf(workerSection, workerSection.transport)

\* workerProfileIntegrity: an approval without its record does not pass.
Integrity == pairingFile = workerSection.approval

\* loadWorkerRuntimeProfile, then the lock: not for --once, and for the
\* transport of the flag.
WorkerStarts ==
  /\ Commanded /\ worker = NoWorker /\ workerSection # NoSection /\ Integrity
  /\ \E t \in Transports \cup {"once"} :
       worker' = [approval |-> workerSection.approval, key |-> workerSection.key,
                  lock |-> IF t = "once" THEN << >> ELSE LockOf(workerSection, t),
                  since |-> workerSection]
  /\ collided' = (collided \/ resetting.pc # "idle")
  /\ UNCHANGED <<identityFile, workerSection, pairingFile, codes, pairing, resetting, workerKeys,
                 halfway, unseen>>

\* The work is done, a request could not be signed, or it is killed.
WorkerEnds ==
  /\ worker # NoWorker /\ worker' = NoWorker
  /\ UNCHANGED <<identityFile, workerSection, pairingFile, codes, pairing, resetting, workerKeys,
                 workerCommands, collided, halfway, unseen>>

WorkerStop ==
  /\ Commanded /\ LockActive /\ worker' = NoWorker
  /\ UNCHANGED <<identityFile, workerSection, pairingFile, codes, pairing, resetting, workerKeys,
                 collided, halfway, unseen>>

\* Variant for mutation testing: the lock is not looked at.
ResetAnyway(forced) == TRUE

ResetAllowed(forced) == ~LockActive \/ forced

ResetChecks(forced) ==
  /\ Commanded /\ resetting.pc = "idle" /\ ResetAllowed(forced)
  /\ resetting' = [pc |-> "checked", section |-> workerSection]
  /\ unseen' = (unseen \/ forced)
  /\ UNCHANGED <<identityFile, workerSection, pairingFile, codes, pairing, worker, workerKeys,
                 collided, halfway>>

\* resetWorkerProfile: the key, if a worker is configured,
ResetRemovesKey ==
  /\ resetting.pc = "checked"
  /\ resetting' = [pc |-> "keyless", section |-> workerSection]
  /\ identityFile' = IF workerSection = NoSection THEN identityFile ELSE NoKey
  /\ collided' = (collided \/ \E p \in Pairers : ~PairerAt(p, "idle"))
  /\ unseen' = (unseen \/ (/\ worker # NoWorker
                           /\ \/ worker.lock = << >> \/ workerSection # worker.since
                              \/ worker.lock[3] # workerSection.transport))
  /\ UNCHANGED <<workerSection, pairingFile, codes, pairing, worker, workerKeys, workerCommands,
                 halfway>>

\* the record,
ResetRemovesRecord ==
  /\ resetting.pc = "keyless" /\ resetting' = [resetting EXCEPT !.pc = "recordless"]
  /\ pairingFile' = 0
  /\ UNCHANGED <<identityFile, workerSection, codes, pairing, worker, workerKeys, workerCommands,
                 collided, halfway, unseen>>

\* and the section.
ResetClearsSection ==
  /\ resetting.pc = "recordless" /\ resetting' = NotResetting
  /\ workerSection' = NoSection
  /\ UNCHANGED <<identityFile, pairingFile, codes, pairing, worker, workerKeys, workerCommands,
                 collided, halfway, unseen>>

ResetEnds ==
  /\ Commanded /\ resetting.pc # "idle" /\ resetting' = NotResetting
  /\ halfway' = (halfway \/ resetting.pc # "checked")
  /\ UNCHANGED <<identityFile, workerSection, pairingFile, codes, pairing, worker, workerKeys,
                 collided, unseen>>

PairNext ==
  \/ \E p \in Pairers : \/ IdentityRead(p) \/ IdentityWritten(p) \/ CodeClaimed(p) \/ Polled(p)
                        \/ ProfileStored(p) \/ RecordStored(p) \/ PairingEnds(p)
  \/ \E i \in DOMAIN codes : OwnerDecides(i)
  \/ WorkerStarts \/ WorkerEnds \/ WorkerStop
  \/ \E forced \in BOOLEAN : ResetChecks(forced)
  \/ ResetRemovesKey \/ ResetRemovesRecord \/ ResetClearsSection \/ ResetEnds

PairSpec == PairInit /\ [][PairNext]_pairVars

---------------------------------------------------------------------------

PairTypeOK ==
  /\ identityFile \in -1..MaxWorkerKeys /\ pairingFile \in 0..MaxCodes /\ workerKeys \in 0..MaxWorkerKeys
  /\ Len(codes) <= MaxCodes /\ workerCommands \in 0..MaxWorkerCommands
  /\ DOMAIN pairing = Pairers /\ \A p \in Pairers : pairing[p].polls < PollAttempts

AtRest == resetting.pc = "idle" /\ \A p \in Pairers : ~PairerAt(p, "stored")

\* signWorkerRequest reads the key again for each request.
CanSign(s) == identityFile = s.key

(* A profile only ever holds an approval the owner gave, with the key it was
   given for: of the pairing that was approved, not of one denied, expired,
   or run beside it. *)
OnlyApprovedProfiles ==
  \A s \in {workerSection, worker.since} :
    s # NoSection => codes[s.approval] = [key |-> s.key, status |-> "approved"]

(* When no command is between its files, the three files agree: a paired
   worker passes the integrity check and signs with the key the platform
   approved, and after a reset no record is left.  The exceptions are two
   commands at once, as two first pairings that generate a key each, and one
   that ended between its files. *)
FilesAgree ==
  AtRest /\ ~collided /\ ~halfway =>
    /\ workerSection # NoSection => Integrity /\ CanSign(workerSection)
    /\ workerSection = NoSection => pairingFile = 0

(* A reset that is not forced leaves a running worker the key it signs with.
   The worker must have taken the lock that the reset looks up: that of the
   profile configured now, with the transport it names. *)
RunningWorkerKeepsKey ==
  worker # NoWorker /\ ~unseen /\ ~collided /\ ~halfway => CanSign(worker)

WorkerFilesHold == OnlyApprovedProfiles /\ FilesAgree /\ RunningWorkerKeepsKey
=============================================================================
