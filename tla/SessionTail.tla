---------------------------- MODULE SessionTail -----------------------------
(***************************************************************************)
(* How the daemon follows the session file of an agent it did not start    *)
(* (discovery/watcher.ts, startup-watchers.ts): a tailer reads what was    *)
(* appended since its last read, woken by file events and by a poll; one   *)
(* read of a file at a time.  The agent appends lines in two halves, and   *)
(* may truncate the file or put another in its place.  Second, how the     *)
(* directories of such files are watched.                                  *)
(***************************************************************************)
EXTENDS Integers, FiniteSets, SequencesExt

CONSTANTS
  MaxInitial,  \* MAX_INITIAL_SESSION_TAIL_BYTES, in halves
  MaxWrites    \* bound: changes of the file

ASSUME TailAssumption ==
  MaxInitial \in Nat \ {0} /\ MaxWrites \in Nat

VARIABLES
  file,      \* its inode, its first line and its size in halves
  writes,    \* changes so far; stands for the file's mtime
  tailer,    \* lastSize, lastInode (0: null), partialLine; first: history,
             \* the first line of the file it follows
  reading,   \* the read under way: the range and inode its stat() found
  polled,    \* sourceStats: the change the poll saw last
  passed,    \* the lines passed on since the file was last begun, in order
  shifted,   \* history: lines dropped from their beginning as the rest of a torn one
  missed,    \* history: a change was polled only while a read was under way
  damaged    \* history: a read failed, began late, or met a file that was
             \* cut or replaced unnoticed

tailVars == <<file, writes, tailer, reading, polled, passed, shifted, missed, damaged>>

NoTailer == [on |-> FALSE, size |-> 0, ino |-> 0, partial |-> <<>>, first |-> 0]
NotReading == [on |-> FALSE, from |-> 0, to |-> 0, ino |-> 0]

\* Two halves make a line; the second ends it.
Half(f, k) == [line |-> f.first + (k - 1) \div 2, part |-> 1 + ((k - 1) % 2)]
NextLine(f) == f.first + (f.size + 1) \div 2
Lines(f, size) == {f.first + i : i \in 0 .. (size \div 2) - 1}

TailInit ==
  /\ file = [ino |-> 1, first |-> 1, size |-> 0] /\ writes = 0
  /\ tailer = NoTailer /\ reading = NotReading /\ polled = -1 /\ passed = <<>>
  /\ shifted = {} /\ missed = FALSE /\ damaged = FALSE

-----------------------------------------------------------------------------
(* The agent.                                                              *)

Rewritten(f) ==
  /\ writes < MaxWrites /\ writes' = writes + 1 /\ file' = f
  /\ damaged' = (damaged \/ (reading.on /\ (f.ino # file.ino \/ f.size < file.size)))
  /\ UNCHANGED <<tailer, reading, polled, passed, shifted, missed>>

FileAppended(halves) == Rewritten([file EXCEPT !.size = @ + halves])
FileTruncated == Rewritten([file EXCEPT !.first = NextLine(file), !.size = 0])
FileReplaced(halves) ==
  Rewritten([ino |-> file.ino + 1, first |-> NextLine(file), size |-> halves])

-----------------------------------------------------------------------------
(* The tailer.                                                             *)

\* A file that is another, or shorter than what was read.
Begun(t, f) == (t.ino # 0 /\ f.ino # t.ino) \/ f.size < t.size

\* Variant for mutation testing: the torn line outlives the file it was in.
RestartedKeeps(t, f) == IF Begun(t, f) THEN [t EXCEPT !.size = 0] ELSE t

\* readNew, after its stat(): a file that was replaced or cut is read anew.
Restarted(t, f) ==
  IF Begun(t, f) THEN [t EXCEPT !.size = 0, !.partial = <<>>] ELSE t

\* processFileChange up to the read: the tailer is made if there is none.
ReadBegins ==
  LET t == Restarted([tailer EXCEPT !.on = TRUE], file)
      fresh == t.size = 0
      late == fresh /\ file.size > MaxInitial
      cutUnseen == ~fresh /\ tailer.first # file.first
  IN /\ missed' = FALSE
     /\ passed' = IF fresh THEN <<>> ELSE passed
     /\ shifted' = IF fresh THEN {} ELSE shifted
     /\ damaged' = (late \/ cutUnseen \/ (damaged /\ ~fresh))
     /\ IF file.size = t.size
        THEN /\ tailer' = [t EXCEPT !.ino = file.ino, !.first = file.first]
             /\ UNCHANGED reading
        ELSE /\ tailer' = [t EXCEPT !.partial = IF late THEN <<>> ELSE @,
                                    !.first = file.first]
             /\ reading' = [on |-> TRUE, to |-> file.size, ino |-> file.ino,
                            from |-> IF late THEN file.size - MaxInitial ELSE t.size]

\* onFileChanged.  Events may come late or not at all; while a read is under
\* way (processingFiles) they are not followed up.
FileEvent ==
  /\ ~reading.on /\ ReadBegins
  /\ UNCHANGED <<file, writes, polled>>

\* tailerPollTimer: the stat is remembered whether or not a read begins.
TailPoll ==
  /\ polled # writes /\ polled' = writes
  /\ IF reading.on
     THEN missed' = TRUE /\ UNCHANGED <<tailer, reading, passed, shifted, damaged>>
     ELSE ReadBegins
  /\ UNCHANGED <<file, writes>>

\* What the range holds when it is read; past the end the buffer keeps zeros.
Zero == [line |-> 0, part |-> 1]
RangeRead == [i \in 1 .. (reading.to - reading.from) |->
  IF reading.from + i <= file.size THEN Half(file, reading.from + i) ELSE Zero]

\* readNew drops the first line of a read that begins inside the file with
\* nothing carried over.
Shifts == reading.from > 0 /\ tailer.partial = <<>>

\* A whole line of text begins at i; any other line does not parse.
WholeAt(text, i) ==
  /\ i < Len(text) /\ text[i].part = 1 /\ text[i].line # 0
  /\ text[i + 1] = [line |-> text[i].line, part |-> 2]
  /\ i = 1 \/ text[i - 1].part = 2

\* The halves after the last newline.
TornLine(text) ==
  LET ends == {i \in DOMAIN text : text[i].part = 2}
      after == IF ends = {} THEN 0 ELSE CHOOSE i \in ends : \A j \in ends : j <= i
  IN IF after = 0 /\ Shifts THEN <<>> ELSE SubSeq(text, after + 1, Len(text))

ReadEnds ==
  LET text == tailer.partial \o RangeRead
      starts == SelectSeq([i \in DOMAIN text |-> i], LAMBDA i : WholeAt(text, i))
      kept == SelectSeq(starts, LAMBDA i : i > 1 \/ ~Shifts)
  IN /\ reading.on /\ reading' = NotReading
     /\ tailer' = [tailer EXCEPT !.size = reading.to, !.ino = reading.ino,
                                 !.partial = TornLine(text)]
     /\ passed' = passed \o [k \in DOMAIN kept |-> text[kept[k]].line]
     /\ shifted' = IF Shifts /\ text[1].part = 1 THEN shifted \cup {text[1].line} ELSE shifted
     /\ UNCHANGED <<file, writes, polled, missed, damaged>>

\* The range counts as read.
ReadFails ==
  /\ reading.on /\ reading' = NotReading /\ damaged' = TRUE
  /\ tailer' = [tailer EXCEPT !.size = reading.to, !.ino = reading.ino]
  /\ UNCHANGED <<file, writes, polled, passed, shifted, missed>>

\* tailerCleanupTimer: a tailer that was idle is dropped, and the file will
\* be read from its beginning.
TailerIdle ==
  /\ tailer.on /\ ~reading.on
  /\ tailer' = NoTailer /\ passed' = <<>> /\ shifted' = {} /\ damaged' = FALSE
  /\ UNCHANGED <<file, writes, reading, polled, missed>>

TailNext ==
  \/ \E h \in 1 .. 3 : FileAppended(h) \/ FileReplaced(h)
  \/ FileTruncated \/ FileEvent \/ TailPoll \/ ReadEnds \/ ReadFails \/ TailerIdle

TailSpec == TailInit /\ [][TailNext]_tailVars

-----------------------------------------------------------------------------
TailTypeOK ==
  /\ file \in [ino : Nat, first : Nat, size : Nat] /\ writes \in 0 .. MaxWrites
  /\ tailer.on \in BOOLEAN /\ tailer.size \in Nat
  /\ reading.on => reading.from < reading.to
  /\ polled \in -1 .. MaxWrites /\ missed \in BOOLEAN /\ damaged \in BOOLEAN

\* The whole lines of what the tailer has read.
LinesRead == Lines([file EXCEPT !.first = tailer.first], tailer.size)

(* Between reads, and unless the file was damaged under the reader: what the
   tailer passed on is in order and free of repetitions, every whole line it
   has read was passed on except those taken for the rest of a torn line, and
   a change it has not read yet will be seen by the poll, unless the poll saw
   it while a read was under way. *)
TailFaithful ==
  tailer.on /\ ~reading.on /\ ~damaged =>
    /\ \A i, j \in DOMAIN passed : i < j => passed[i] < passed[j]
    /\ LinesRead \subseteq Range(passed) \cup shifted /\ Range(passed) \subseteq LinesRead
    /\ \/ file.size = tailer.size /\ file.ino = tailer.ino /\ file.first = tailer.first
       \/ polled # writes \/ missed

(* "Read new lines since last call": between reads every whole line read so
   far was passed on.  A read that begins at the end of a line drops the
   first line after it. *)
NoLineLost ==
  tailer.on /\ ~reading.on /\ ~damaged => LinesRead \subseteq Range(passed)

-----------------------------------------------------------------------------
(***************************************************************************)
(* Which directories of agents' session files the daemon watches           *)
(* (discovery/watcher.ts, watchProjects): a watcher on the top directory,  *)
(* one on each directory in it, and a sync that makes the second follow    *)
(* the first.  Events of the file system, failing watchers, retry timers,  *)
(* the sync and stop interleave; only the awaits separate steps.           *)
(***************************************************************************)

CONSTANTS
  WatchDirs,      \* the directories agents may make
  MaxDirChanges   \* bound: changes of the file system and watcher failures

ASSUME WatchAssumption == MaxDirChanges \in Nat

VARIABLES
  topDir,     \* the top directory exists
  dirs,       \* the directories that exist in it
  changes,    \* changes so far
  topEvent,   \* an event of the top watcher is on its way
  starting,   \* startWatching is at its access()
  topWatcher, topRetry,   \* topWatcher is set; topRetryTimer
  syncTimer,
  syncing,    \* "no", "reading" (readdir), "waiting" (for its setups): syncInFlight
  subs,       \* per directory: "none", "live", "stale" (its directory was replaced)
  subRetry,   \* directories with a retry timer
  setups,     \* setupSubWatcher calls at their stat(): <<directory, caller>>
  watchStopped,
  syncMissed,     \* history: a sync was asked for while one was under way
  late,       \* history: the top watcher began with directories already there
  adrift,     \* history: watchers nobody will close
  debounceTimer,
  registered, \* the directories the last onChange found
  unheard     \* history: a change no watcher reported since then

watchVars == <<topDir, dirs, changes, topEvent, starting, topWatcher, topRetry, syncTimer,
               syncing, subs, subRetry, setups, watchStopped, syncMissed, late, adrift, debounceTimer, registered,
               unheard>>
changeVars == <<debounceTimer, registered, unheard>>

WatchInit ==
  /\ topDir \in BOOLEAN /\ dirs \in SUBSET WatchDirs /\ (topDir \/ dirs = {})
  /\ changes = 0 /\ topEvent = FALSE /\ starting = TRUE /\ topWatcher = FALSE
  /\ topRetry = FALSE /\ syncTimer = FALSE /\ syncing = "no"
  /\ subs = [d \in WatchDirs |-> "none"] /\ subRetry = {} /\ setups = {}
  /\ watchStopped = FALSE /\ syncMissed = FALSE /\ late = FALSE /\ adrift = {}
  /\ debounceTimer = FALSE /\ registered = dirs /\ unheard = FALSE

-----------------------------------------------------------------------------
(* The file system.                                                        *)

Changed == changes < MaxDirChanges /\ changes' = changes + 1
DirsChange ==
  /\ Changed /\ topEvent' = (topEvent \/ topWatcher) /\ late' = (late \/ ~topWatcher)
  /\ unheard' = (unheard \/ ~topWatcher)
  /\ UNCHANGED <<topDir, starting, topWatcher, topRetry, syncTimer, syncing, subRetry,
                 setups, watchStopped, syncMissed, adrift, debounceTimer, registered>>
TopMade ==
  /\ ~topDir /\ Changed /\ topDir' = TRUE
  /\ UNCHANGED <<dirs, topEvent, starting, topWatcher, topRetry, syncTimer, syncing, subs,
                 subRetry, setups, watchStopped, syncMissed, late, adrift, changeVars>>
DirMade(d) == topDir /\ d \notin dirs /\ dirs' = dirs \cup {d} /\ UNCHANGED subs /\ DirsChange
\* The watcher of a removed directory stays, and hears nothing more.
DirRemoved(d) ==
  /\ d \in dirs /\ dirs' = dirs \ {d} /\ DirsChange
  /\ subs' = IF subs[d] = "live" THEN [subs EXCEPT ![d] = "stale"] ELSE subs

-----------------------------------------------------------------------------
(* The top watcher.                                                        *)

ScheduleSync == syncTimer' = TRUE
ScheduleChange == debounceTimer' = TRUE

\* syncSubWatchers up to its first await.
SyncBegins ==
  IF syncing = "no" THEN syncing' = "reading" /\ syncMissed' = FALSE
                    ELSE syncMissed' = TRUE /\ UNCHANGED syncing

\* startWatching: without the directory only the top watcher is tried again.
StartWatching ==
  /\ starting /\ starting' = FALSE
  /\ IF watchStopped \/ ~topDir
     THEN /\ topRetry' = (topRetry \/ ~watchStopped)
          /\ UNCHANGED <<topWatcher, syncing, syncMissed>>
     ELSE topWatcher' = TRUE /\ SyncBegins /\ UNCHANGED topRetry
  /\ UNCHANGED <<topDir, dirs, changes, topEvent, syncTimer, subs, subRetry, setups, watchStopped,
                 late, adrift, changeVars>>

\* startTopWatcher from the retry timer: nothing is synced.
TopRetryFires ==
  /\ topRetry /\ topRetry' = ~topDir /\ topWatcher' = topDir
  /\ UNCHANGED <<topDir, dirs, changes, topEvent, starting, syncTimer, syncing, subs,
                 subRetry, setups, watchStopped, syncMissed, late, adrift, changeVars>>

TopFails ==
  /\ topWatcher /\ ~watchStopped /\ Changed
  /\ topWatcher' = FALSE /\ topRetry' = TRUE /\ topEvent' = FALSE
  /\ late' = (late \/ topEvent) /\ unheard' = (unheard \/ topEvent)
  /\ UNCHANGED <<topDir, dirs, starting, syncTimer, syncing, subs, subRetry, setups,
                 watchStopped, syncMissed, adrift, debounceTimer, registered>>

\* Events of a directory's own watcher ask for a sync as well.
WatchEvent ==
  /\ topEvent /\ topEvent' = FALSE
  /\ IF watchStopped THEN UNCHANGED <<syncTimer, debounceTimer>> ELSE ScheduleSync /\ ScheduleChange
  /\ UNCHANGED <<topDir, dirs, changes, starting, topWatcher, topRetry, syncing, subs,
                 subRetry, setups, watchStopped, syncMissed, late, adrift, registered, unheard>>
FileChanged(d) ==
  /\ subs[d] = "live" /\ ~watchStopped /\ Changed /\ ScheduleSync /\ ScheduleChange
  /\ UNCHANGED <<topDir, dirs, topEvent, starting, topWatcher, topRetry, syncing, subs,
                 subRetry, setups, watchStopped, syncMissed, late, adrift, registered, unheard>>

\* onChange registers the directories and looks for their sessions.
ChangeFires ==
  /\ debounceTimer /\ debounceTimer' = FALSE /\ registered' = registered \cup dirs
  /\ unheard' = FALSE
  /\ UNCHANGED <<topDir, dirs, changes, topEvent, starting, topWatcher, topRetry, syncTimer,
                 syncing, subs, subRetry, setups, watchStopped, syncMissed, late, adrift>>

-----------------------------------------------------------------------------
(* The sync.                                                               *)

SyncFires ==
  /\ syncTimer /\ syncTimer' = FALSE /\ SyncBegins
  /\ UNCHANGED <<topDir, dirs, changes, topEvent, starting, topWatcher, topRetry, subs,
                 subRetry, setups, watchStopped, late, adrift, changeVars>>

\* setupSubWatcher is entered for the directories without a watcher.
Entered(ds, caller) ==
  setups' = IF watchStopped THEN setups
            ELSE setups \cup {<<d, caller>> : d \in {e \in ds : subs'[e] = "none"}}

\* Variant for mutation testing: a watcher whose directory is gone is kept.
ClosedKeeps(gone) == subs

\* closeSubWatcher for what is no longer there.
Closed(gone) == [d \in WatchDirs |-> IF d \in gone THEN "none" ELSE subs[d]]

SyncReads ==
  /\ syncing = "reading"
  /\ \/ /\ ~topDir /\ syncing' = "no" /\ UNCHANGED <<subs, subRetry, setups, late>>
     \/ /\ topDir /\ syncing' = "waiting" /\ late' = (late /\ ~topWatcher)
        /\ LET gone == {d \in WatchDirs \ dirs : subs[d] # "none"}
           IN  subs' = Closed(gone) /\ subRetry' = subRetry \ gone
        /\ Entered(dirs, "sync")
  /\ UNCHANGED <<topDir, dirs, changes, topEvent, starting, topWatcher, topRetry, syncTimer,
                 watchStopped, syncMissed, adrift, changeVars>>
SyncEnds ==
  /\ syncing = "waiting" /\ ~\E d \in WatchDirs : <<d, "sync">> \in setups
  /\ syncing' = "no"
  /\ UNCHANGED <<topDir, dirs, changes, topEvent, starting, topWatcher, topRetry, syncTimer,
                 subs, subRetry, setups, watchStopped, syncMissed, late, adrift, changeVars>>

-----------------------------------------------------------------------------
(* The watcher of a directory.                                             *)

\* setupSubWatcher after its stat(): neither stop nor another watcher made
\* meanwhile is looked for.
SetupEnds(d, caller) ==
  /\ <<d, caller>> \in setups /\ setups' = setups \ {<<d, caller>>}
  /\ IF d \in dirs
     THEN /\ subs' = [subs EXCEPT ![d] = "live"] /\ subRetry' = subRetry \ {d}
          /\ adrift' = IF watchStopped \/ subs[d] # "none" THEN adrift \cup {d} ELSE adrift
     ELSE /\ subRetry' = IF watchStopped \/ subs[d] # "none" THEN subRetry ELSE subRetry \cup {d}
          /\ UNCHANGED <<subs, adrift>>
  /\ UNCHANGED <<topDir, dirs, changes, topEvent, starting, topWatcher, topRetry, syncTimer,
                 syncing, watchStopped, syncMissed, late, changeVars>>

SubFails(d) ==
  /\ subs[d] = "live" /\ ~watchStopped /\ Changed
  /\ subs' = [subs EXCEPT ![d] = "none"] /\ subRetry' = subRetry \cup {d}
  /\ UNCHANGED <<topDir, dirs, topEvent, starting, topWatcher, topRetry, syncTimer, syncing,
                 setups, watchStopped, syncMissed, late, adrift, changeVars>>

SubRetryFires(d) ==
  /\ d \in subRetry /\ subRetry' = subRetry \ {d} /\ UNCHANGED subs /\ Entered({d}, "retry")
  /\ UNCHANGED <<topDir, dirs, changes, topEvent, starting, topWatcher, topRetry, syncTimer,
                 syncing, watchStopped, syncMissed, late, adrift, changeVars>>

StopWatching ==
  /\ ~watchStopped /\ watchStopped' = TRUE
  /\ syncTimer' = FALSE /\ topRetry' = FALSE /\ subRetry' = {} /\ debounceTimer' = FALSE
  /\ subs' = [d \in WatchDirs |-> "none"] /\ topWatcher' = FALSE /\ topEvent' = FALSE
  /\ UNCHANGED <<topDir, dirs, changes, starting, syncing, setups, syncMissed, late, adrift,
                 registered, unheard>>

WatchNext ==
  \/ TopMade \/ StartWatching \/ TopRetryFires \/ TopFails \/ WatchEvent
  \/ SyncFires \/ SyncReads \/ SyncEnds \/ ChangeFires \/ StopWatching
  \/ \E d \in WatchDirs :
       \/ DirMade(d) \/ DirRemoved(d) \/ FileChanged(d) \/ SubFails(d) \/ SubRetryFires(d)
       \/ \E c \in {"sync", "retry"} : SetupEnds(d, c)

WatchSpec == WatchInit /\ [][WatchNext]_watchVars

-----------------------------------------------------------------------------
WatchTypeOK ==
  /\ dirs \subseteq WatchDirs /\ subRetry \subseteq WatchDirs /\ changes \in 0 .. MaxDirChanges
  /\ \A d \in WatchDirs : subs[d] \in {"none", "live", "stale"}
  /\ syncing \in {"no", "reading", "waiting"} /\ setups \subseteq WatchDirs \X {"sync", "retry"}

\* Nothing is on its way that could change what is watched.
Quiet ==
  /\ ~starting /\ ~topEvent /\ ~topRetry /\ ~syncTimer /\ syncing = "no"
  /\ setups = {} /\ subRetry \cap dirs = {}

(* When everything has come to rest, every directory is watched and no other
   is, unless a sync was asked for while one was under way, or the top
   watcher came too late to hear of a directory.  A watcher whose directory
   was removed and made again before the next sync stays, and is deaf.  What
   the watchers report is registered.  After stop nothing is watched
   but what a setup under way made. *)
WatchedWhenQuiet ==
  Quiet =>
    /\ ~watchStopped /\ topWatcher /\ ~syncMissed /\ ~late =>
         \A d \in WatchDirs : (d \in dirs) <=> (subs[d] # "none")
    /\ watchStopped => \A d \in WatchDirs : subs[d] # "none" => d \in adrift
    /\ ~watchStopped => topWatcher
    /\ ~watchStopped /\ ~debounceTimer /\ ~unheard => dirs \subseteq registered
=============================================================================
