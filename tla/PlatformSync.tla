---------------------------- MODULE PlatformSync ----------------------------
(***************************************************************************)
(* How a run's state reaches the platform (workflows/platform-sync.ts):    *)
(* every save schedules a snapshot, one worker at a time sends the latest, *)
(* retries with delays, then by a timer, and polls while the run is        *)
(* blocked.  One run; snapshots are numbered by the saves, and save n adds *)
(* the run's event n.                                                      *)
(***************************************************************************)
EXTENDS Integers

CONSTANTS
  MaxSaves,   \* bound: saves of the run
  MaxRetries  \* Len(retryDelaysMs)

ASSUME SyncAssumption == MaxSaves \in Nat /\ MaxRetries \in Nat

VARIABLES
  saved,      \* the newest save: its number, and whether the run is blocked
  newestRun,     \* latestRuns: the snapshot to send, number 0: none
  worker,     \* "idle", "sending", "waiting", "returned" (finally to come)
  carried,    \* the snapshot being sent
  attempts,
  retryTimer, pollTimer,
  offset,     \* eventOffsets: events believed sent
  platform,   \* what the platform has: the newest snapshot, and the events
  unsent,     \* history: a save came while the worker was returning
  refused     \* history: the platform refused, and the snapshot was dropped

syncVars == <<saved, newestRun, worker, carried, attempts, retryTimer, pollTimer,
              offset, platform, unsent, refused>>

None0 == [n |-> 0, blocked |-> FALSE]
Snapshots == [n : 0..MaxSaves, blocked : BOOLEAN]
Receipts == [n : 0..MaxSaves, events : SUBSET (1..MaxSaves)]

SyncInit ==
  /\ saved = None0 /\ newestRun = None0 /\ worker = "idle" /\ carried = None0
  /\ attempts = 0 /\ retryTimer = FALSE /\ pollTimer = FALSE /\ offset = 0
  /\ platform = [n |-> 0, events |-> {}] /\ unsent = FALSE /\ refused = FALSE

\* startWorker: syncLatest up to its first await.
StartWorker(s) ==
  /\ worker' = "sending" /\ carried' = s /\ attempts' = 0 /\ unsent' = FALSE

Schedule(b) ==
  LET s == [n |-> saved.n + 1, blocked |-> b] IN
  /\ saved.n < MaxSaves /\ saved' = s /\ newestRun' = s
  /\ retryTimer' = FALSE /\ pollTimer' = FALSE /\ refused' = FALSE
  /\ IF worker = "idle" THEN StartWorker(s)
     ELSE unsent' = (worker = "returned") /\ UNCHANGED <<worker, carried, attempts>>
  /\ UNCHANGED <<offset, platform>>

\* The platform takes a snapshot, and the events after the offset with it.
Taken == platform' = [n |-> IF carried.n > platform.n THEN carried.n ELSE platform.n,
                      events |-> platform.events \cup (offset + 1)..carried.n]

\* Variant for mutation testing: what was sent settles what is newer, too.
SettleAny ==
  /\ worker' = "returned"
  /\ newestRun' = IF carried.blocked THEN newestRun ELSE None0
  /\ pollTimer' = (pollTimer \/ carried.blocked) /\ UNCHANGED <<carried, attempts>>

\* syncLatest after a success.
Settle ==
  IF newestRun = carried
  THEN /\ worker' = "returned"
       /\ newestRun' = IF carried.blocked THEN newestRun ELSE None0
       /\ pollTimer' = (pollTimer \/ carried.blocked) /\ UNCHANGED <<carried, attempts>>
  ELSE /\ carried' = newestRun /\ attempts' = 0 /\ UNCHANGED <<worker, newestRun, pollTimer>>

SyncOk ==
  /\ worker = "sending" /\ Taken /\ offset' = carried.n /\ Settle
  /\ UNCHANGED <<saved, retryTimer, unsent, refused>>

\* The request or its answer is lost, or may be repeated later.
SyncFails(lost) ==
  /\ worker = "sending" /\ (IF lost THEN Taken ELSE UNCHANGED platform)
  /\ IF attempts = MaxRetries
     THEN worker' = "returned" /\ retryTimer' = TRUE /\ UNCHANGED attempts
     ELSE worker' = "waiting" /\ attempts' = attempts + 1 /\ UNCHANGED retryTimer
  /\ UNCHANGED <<saved, newestRun, carried, pollTimer, offset, unsent, refused>>

\* An answer that is not retryable: the latest snapshot is dropped, also when
\* it is newer than the one refused.
SyncRefused ==
  /\ worker = "sending" /\ newestRun' = None0 /\ worker' = "returned" /\ refused' = TRUE
  /\ UNCHANGED <<saved, carried, attempts, retryTimer, pollTimer, offset, platform, unsent>>

RetryDelayOver ==
  /\ worker = "waiting" /\ worker' = "sending" /\ carried' = newestRun
  /\ UNCHANGED <<saved, newestRun, attempts, retryTimer, pollTimer, offset, platform,
                 unsent, refused>>

WorkerRemoved ==
  /\ worker = "returned" /\ worker' = "idle"
  /\ UNCHANGED <<saved, newestRun, carried, attempts, retryTimer, pollTimer, offset,
                 platform, unsent, refused>>

\* Timers fire when no worker is just returning: its finally runs first.
TimerStarts ==
  /\ worker # "returned"
  /\ IF newestRun = None0 \/ worker # "idle"
     THEN UNCHANGED <<worker, carried, attempts, unsent>> ELSE StartWorker(newestRun)
  /\ UNCHANGED <<saved, newestRun, offset, platform, refused>>

RetryFires == retryTimer /\ retryTimer' = FALSE /\ UNCHANGED pollTimer /\ TimerStarts
PollFires == pollTimer /\ pollTimer' = FALSE /\ UNCHANGED retryTimer /\ TimerStarts

SyncNext ==
  \/ \E b \in BOOLEAN : Schedule(b) \/ SyncFails(b)
  \/ SyncOk \/ SyncRefused \/ RetryDelayOver \/ WorkerRemoved \/ RetryFires \/ PollFires

SyncSpec == SyncInit /\ [][SyncNext]_syncVars

SyncTypeOK ==
  /\ saved \in Snapshots /\ newestRun \in Snapshots /\ carried \in Snapshots
  /\ worker \in {"idle", "sending", "waiting", "returned"}
  /\ attempts \in 0..MaxRetries /\ retryTimer \in BOOLEAN /\ pollTimer \in BOOLEAN
  /\ offset \in 0..MaxSaves /\ platform \in Receipts
  /\ unsent \in BOOLEAN /\ refused \in BOOLEAN

(* What the platform does not have yet is being sent or will be: the newest
   snapshot is the one kept, with a worker or a timer to send it, and no
   event before the offset is missing.  Two gaps of the code are named: a save
   in the moment a worker returns starts none, and an answer that is not
   retryable drops whatever is newest. *)
NothingForgotten ==
  /\ platform.n < saved.n /\ ~unsent /\ ~refused =>
       newestRun = saved /\ (worker \in {"sending", "waiting"} \/ retryTimer)
  /\ 1..offset \subseteq platform.events
=============================================================================
