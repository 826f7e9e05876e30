------------------------------- MODULE Replay -------------------------------
(***************************************************************************)
(* How one session's updates are numbered, kept and replayed to a client   *)
(* that reconnects: the RingBuffer of packages/daemon/src/server, its      *)
(* journal and metadata file, the WebSocket server that owns the buffer    *)
(* and one subscriber.                                                     *)
(*                                                                         *)
(* Numbers are allocated and updates broadcast synchronously; the files    *)
(* are written later, by a promise chain that belongs to the buffer and    *)
(* outlives it when the server drops the buffer from its map.  A buffer    *)
(* made later for the same session starts from whatever the files hold.    *)
(***************************************************************************)
EXTENDS Selections, Integers, Sequences, SequencesExt, FiniteSets

CONSTANTS
  MaxSize,     \* slots of the in-memory ring (maxSize)
  MaxDurable,  \* entries the journal keeps (maxDurableEntries)
  MaxPush,     \* bound: updates the session produces
  MaxUpsets,   \* bound: crashes, shutdowns and evictions
  MaxAge       \* bound: updates that grow older than durableTtlMs

ASSUME ReplayAssumption ==
  /\ MaxSize \in Nat \ {0} /\ MaxDurable \in Nat \ {0}
  /\ MaxPush \in Nat /\ MaxUpsets \in Nat
  /\ MaxAge \in Nat

VARIABLES
  buf,      \* the buffer in the server's map: on, seq, ring, durable, disabled
  queue,    \* its pending writes (persistenceQueue), oldest first
  zombie,   \* pending writes of a buffer no longer in the map
  disk,     \* meta: latestSeq, 0 if unreadable; journal: its lines;
            \* open: the last line lacks its newline
  client,   \* sub: subscribed; net: updates under way; last: number of the
            \* last update received
  log,      \* history: every update pushed, the update's id is its place
  got,      \* history: ids the client received
  since,    \* history: number the client's replay started after
  told,     \* history: a subscribe was answered with droppedWindow
  lossy,    \* history: a write was lost, or late for the next buffer
  expired,  \* updates with an id up to this are older than the TTL
  stops,    \* crashes and shutdowns so far
  evicts    \* evictions so far

server == <<buf, queue, zombie, disk>>
vars == <<server, client, log, got, since, told, lossy, expired, stops, evicts>>

Entry(n, id, dur) == [n |-> n, id |-> id, dur |-> dur]
Entries == [n : 1..MaxPush, id : 1..MaxPush, dur : BOOLEAN]

\* A line that does not parse: torn by a crash, or two entries run together.
Garbage == [n |-> 0, id |-> 0, dur |-> FALSE]
Tasks == [kind : {"meta"}, n : 0..MaxPush] \cup [kind : {"append"}, e : Entries]
           \cup [kind : {"rewrite"}, es : Seq(Entries)]

NoBuffer == [on |-> FALSE, seq |-> 0, ring |-> <<>>, durable |-> <<>>,
             disabled |-> FALSE]

Init ==
  /\ buf = NoBuffer /\ queue = <<>> /\ zombie = <<>>
  /\ disk = [meta |-> 0, journal |-> <<>>, open |-> FALSE]
  /\ client = [sub |-> FALSE, net |-> <<>>, last |-> 0]
  /\ log = <<>> /\ got = {} /\ since = 0
  /\ told = FALSE /\ lossy = FALSE /\ expired = 0 /\ stops = 0 /\ evicts = 0

-----------------------------------------------------------------------------
(* The buffer.                                                             *)

LastOr0(es) == IF es = <<>> THEN 0 ELSE Last(es).n

\* Variant for mutation testing: the cap is forgotten.
RetainedByTtl(es) == Selected(es, {i \in DOMAIN es : es[i].id > expired})

\* compactDurableEntries: what the TTL and the cap leave of the journal.
Retained(es) ==
  LastOf(Selected(es, {i \in DOMAIN es : es[i].id > expired}), MaxDurable)

RewriteIf(cond, es) == IF cond THEN <<[kind |-> "rewrite", es |-> es]>> ELSE <<>>

\* loadPersistedJournalEntries: a line is kept if it parses and its number
\* is above every number before it.
Parsed(lines) ==
  Selected(lines, {i \in DOMAIN lines :
                     lines[i].n > 0 /\ \A j \in 1..(i - 1) : lines[j].n < lines[i].n})

\* fs.writeFile truncates the metadata file first: a reader beside a write
\* under way may find it empty.
MetaReads ==
  {disk.meta} \cup
    (IF zombie # <<>> /\ Head(zombie).kind = "meta" THEN {0} ELSE {})

\* A new RingBuffer from the files (ensureInitialized) and the writes it
\* enqueues; with dir, setDirectoryId records a directory the metadata lacks.
LoadedAs(dir, number) ==
  LET es == Parsed(disk.journal)
      kept == Retained(es)
  IN  [buf |-> [on |-> TRUE, seq |-> number, ring |-> <<>>, durable |-> kept,
                disabled |-> FALSE],
       queue |-> RewriteIf(es # disk.journal, es)
                 \o RewriteIf(kept # es, kept)
                 \o (IF dir THEN <<[kind |-> "meta", n |-> number]>> ELSE <<>>)]

Loaded(meta, dir) ==
  LET j == LastOr0(Parsed(disk.journal))
  IN  LoadedAs(dir, IF meta > j THEN meta ELSE j)

\* The storage directory cannot be made: the buffer works from memory alone.
MemoryOnly ==
  [buf |-> [NoBuffer EXCEPT !.on = TRUE, !.disabled = TRUE], queue |-> <<>>]

\* getOrCreateBuffer; dir: the daemon knows a directory for the session that
\* the metadata does not name.
GetOrCreate ==
  IF buf.on THEN {[buf |-> buf, queue |-> queue]}
  ELSE {MemoryOnly} \cup {Loaded(meta, dir) : meta \in MetaReads, dir \in BOOLEAN}

\* A late write of a dropped buffer makes the new buffer's start unreliable.
Late == ~buf.on /\ zombie # <<>>

\* push: the ring, the metadata write, then for a durable update the journal
\* append and the compaction with its rewrite.
Pushed(b, e) ==
  LET all  == IF e.dur THEN Append(b.buf.durable, e) ELSE b.buf.durable
      kept == IF e.dur THEN Retained(all) ELSE all
      ring == Append(b.buf.ring, e)
  IN  [buf |-> [b.buf EXCEPT !.seq = e.n, !.durable = kept,
                  !.ring = IF Len(ring) > MaxSize THEN Tail(ring) ELSE ring],
       queue |-> IF b.buf.disabled THEN b.queue
                 ELSE Append(b.queue, [kind |-> "meta", n |-> e.n])
                      \o (IF e.dur THEN <<[kind |-> "append", e |-> e]>> ELSE <<>>)
                      \o RewriteIf(kept # all, kept)]

\* getMergedEntries: journal and ring, each number once, in order.
Merged(b) ==
  LET old == ToSet(b.durable)
      all == old \cup {e \in ToSet(b.ring) : \A d \in old : d.n # e.n}
      order == CHOOSE f \in Listings({e.n : e \in all}) : TRUE
  IN  [i \in DOMAIN order |-> CHOOSE e \in all : e.n = order[i]]

\* Variant for mutation testing: the boundary of the dropped window is off by
\* one.
WindowOffByOne(b, last) ==
  LET es       == Merged(b)
      earliest == IF es = <<>> THEN 0 ELSE es[1].n
      dropped  == last > 0 /\ earliest > 0 /\ last < earliest - 2
  IN  [dropped |-> dropped, earliest |-> earliest,
       entries |-> Selected(es, {i \in DOMAIN es : es[i].n > last})]

\* getReplayWindow and getAfter.
Window(b, last) ==
  LET es       == Merged(b)
      earliest == IF es = <<>> THEN 0 ELSE es[1].n
  IN  [dropped |-> last > 0 /\ earliest > 0 /\ last < earliest - 1,
       earliest |-> earliest,
       entries |-> Selected(es, {i \in DOMAIN es : es[i].n > last})]

-----------------------------------------------------------------------------
(* The server and its client.                                              *)

\* broadcastUpdate: number the update, keep it, send it to the subscriber.
\* A slow client loses chunks, which are never durable.
Push(dur, slow) ==
  /\ Len(log) < MaxPush
  /\ slow => ~dur
  /\ \E b \in GetOrCreate :
       LET e == Entry(b.buf.seq + 1, Len(log) + 1, dur)
           p == Pushed(b, e)
       IN  /\ buf' = p.buf /\ queue' = p.queue
           /\ log' = Append(log, e)
           /\ client' = IF client.sub /\ ~slow
                        THEN [client EXCEPT !.net = Append(@, e)] ELSE client
           /\ lossy' = (lossy \/ Late \/ b.buf.disabled)
  /\ UNCHANGED <<zombie, disk, got, since, told, expired, stops, evicts>>

\* The subscribe command.  The client waits for what is under way before it
\* asks on the same connection.
Subscribe ==
  /\ ~client.sub /\ client.net = <<>>
  /\ \E b \in GetOrCreate :
       LET w == Window(b.buf, client.last)
       IN  /\ buf' = b.buf /\ queue' = b.queue
           /\ client' = [client EXCEPT !.sub = TRUE, !.net = w.entries]
           /\ told' = (told \/ w.dropped)
           /\ since' = IF client.last = 0
                       THEN (IF w.earliest = 0 THEN b.buf.seq ELSE w.earliest - 1)
                       ELSE since
           /\ lossy' = (lossy \/ Late \/ b.buf.disabled)
  /\ UNCHANGED <<zombie, disk, log, got, expired, stops, evicts>>

\* External: the client takes the next update and remembers its number.
Receive ==
  /\ client.net # <<>>
  /\ LET e == Head(client.net)
     IN  /\ client' = [client EXCEPT !.net = Tail(@), !.last = e.n]
         /\ got' = got \cup {e.id}
  /\ UNCHANGED <<server, log, since, told, lossy, expired, stops, evicts>>

Unsubscribe ==
  /\ client.sub
  /\ client' = [client EXCEPT !.sub = FALSE]
  /\ UNCHANGED <<server, log, got, since, told, lossy, expired, stops, evicts>>

\* The socket closes: what was under way is lost.
Disconnect ==
  /\ client.sub
  /\ client' = [client EXCEPT !.sub = FALSE, !.net = <<>>]
  /\ UNCHANGED <<server, log, got, since, told, lossy, expired, stops, evicts>>

\* The journal's lines after an append: an entry that follows a line without
\* newline becomes part of that line.
LinesWith(e) ==
  IF disk.open THEN Append(Front(disk.journal), Garbage)
  ELSE Append(disk.journal, e)

\* What a completed write leaves in the files.
Written(t) ==
  CASE t.kind = "meta"    -> [disk EXCEPT !.meta = t.n]
    [] t.kind = "append"  ->
         [disk EXCEPT !.journal = LinesWith(t.e), !.open = FALSE]
    [] t.kind = "rewrite" -> [disk EXCEPT !.journal = t.es, !.open = FALSE]

\* The next write of the chain completes.
Persist ==
  /\ queue # <<>>
  /\ queue' = Tail(queue) /\ disk' = Written(Head(queue))
  /\ UNCHANGED <<buf, zombie, client, log, got, since, told, lossy, expired, stops, evicts>>

\* A write fails: persistence is off for good, the rest of the chain is
\* skipped, replay goes on from memory.
PersistFails ==
  /\ queue # <<>>
  /\ queue' = <<>> /\ buf' = [buf EXCEPT !.disabled = TRUE] /\ lossy' = TRUE
  /\ UNCHANGED <<zombie, disk, client, log, got, since, told, expired, stops, evicts>>

PersistZombie ==
  /\ zombie # <<>>
  /\ zombie' = Tail(zombie) /\ disk' = Written(Head(zombie))
  /\ UNCHANGED <<buf, queue, client, log, got, since, told, lossy, expired, stops, evicts>>

\* The server drops the buffer; its chain of writes goes on.  One dropped
\* buffer with writes left at a time.
Evict ==
  /\ buf.on /\ zombie = <<>> /\ evicts + stops < MaxUpsets
  /\ buf' = NoBuffer /\ queue' = <<>> /\ zombie' = queue
  /\ lossy' = (lossy \/ buf.disabled) /\ evicts' = evicts + 1
  /\ UNCHANGED <<disk, client, log, got, since, told, expired, stops>>

\* bufferCleanupInterval: the session ended a minute ago, nobody listens.
EvictEnded == ~client.sub /\ Evict

\* enforceRingBufferCapacity: the oldest buffer goes, listened to or not.
EvictOldest == Evict

\* The files after a crash in the middle of the first pending write.
Torn ==
  {disk} \cup
    (IF queue = <<>> THEN {}
     ELSE LET t == Head(queue)
          IN  CASE t.kind = "meta" -> {[disk EXCEPT !.meta = 0]}
                [] t.kind = "append" ->
                     {[disk EXCEPT !.journal = LinesWith(line), !.open = TRUE] :
                        line \in {Garbage, t.e}}
                [] t.kind = "rewrite" -> {})

\* The process ends; a later one finds the files.
Stop(left) ==
  /\ evicts + stops < MaxUpsets
  /\ buf' = NoBuffer /\ queue' = <<>> /\ zombie' = <<>> /\ disk' = left
  /\ client' = [client EXCEPT !.sub = FALSE, !.net = <<>>]
  /\ lossy' = (lossy \/ queue # <<>> \/ zombie # <<>> \/ buf.disabled)
  /\ stops' = stops + 1
  /\ UNCHANGED <<log, got, since, told, expired, evicts>>

Crash == \E left \in Torn : Stop(left)

\* onClose: the server stops once the chain of every buffer it knows is done.
Close == queue = <<>> /\ Stop(disk)

\* The oldest update not yet older than durableTtlMs becomes so.
Age ==
  /\ expired < Len(log) /\ expired < MaxAge
  /\ expired' = expired + 1
  /\ UNCHANGED <<server, client, log, got, since, told, lossy, stops, evicts>>

Next ==
  \/ \E dur, slow \in BOOLEAN : Push(dur, slow)
  \/ Subscribe \/ Receive \/ Unsubscribe \/ Disconnect
  \/ Persist \/ PersistFails \/ PersistZombie
  \/ EvictEnded \/ EvictOldest \/ Crash \/ Close \/ Age

Spec == Init /\ [][Next]_vars

-----------------------------------------------------------------------------
(* Properties.                                                             *)

\* The state stays in its domain: the ring never outgrows its slots, the
\* journal in memory never its cap (push, compactDurableEntries).
TypeOK ==
  /\ buf \in [on : BOOLEAN, seq : 0..MaxPush, ring : Seq(Entries),
              durable : Seq(Entries), disabled : BOOLEAN]
  /\ Len(buf.ring) <= MaxSize /\ Len(buf.durable) <= MaxDurable
  /\ queue \in Seq(Tasks) /\ zombie \in Seq(Tasks)
  /\ disk.meta \in 0..MaxPush /\ disk.journal \in Seq(Entries \cup {Garbage})
  /\ disk.open \in BOOLEAN
  /\ client \in [sub : BOOLEAN, net : Seq(Entries), last : 0..MaxPush]
  /\ log \in Seq(Entries) /\ got \subseteq 1..MaxPush /\ since \in 0..MaxPush
  /\ told \in BOOLEAN /\ lossy \in BOOLEAN
  /\ expired \in 0..MaxAge /\ stops \in 0..MaxUpsets
  /\ evicts \in 0..MaxUpsets

\* While no write was lost or overtaken, a number names one update for good,
\* over evictions and restarts (ensureInitialized takes the larger of the
\* metadata and the journal, so chunks that were never journaled count too).
NumbersUnique ==
  lossy \/ \A i, j \in DOMAIN log : i < j => log[i].n < log[j].n

\* Durable updates, not older than the TTL, that the client has passed by.
Missed ==
  {i \in DOMAIN log : /\ log[i].dur /\ i > expired /\ i \notin got
                      /\ since < log[i].n /\ log[i].n <= client.last}

\* While no write was lost, a client that was never answered droppedWindow
\* has received every durable update, not older than the TTL, between the
\* start of its replay and the last number it saw, however often it
\* reconnected and the buffer was evicted, cut or reloaded (getReplayWindow).
ReplayComplete == (~lossy /\ ~told) => Missed = {}

\* Once the chain of writes is done the files are what the buffer holds: the
\* queue keeps the order of appends and rewrites (enqueuePersistence).
FilesFollowBuffer ==
  (~lossy /\ buf.on /\ queue = <<>> /\ zombie = <<>>) =>
    /\ disk.journal = buf.durable
    /\ disk.meta = buf.seq \/ (disk.meta = 0 /\ buf.seq = LastOr0(buf.durable))

\* What the buffer's header says: "Sequence allocation is persisted so replay
\* can continue across daemon restarts".  A client that is up to date with
\* its subscription has every durable update the daemon still holds.
ReplayContinuesAcrossRestarts ==
  (client.sub /\ client.net = <<>> /\ ~told) =>
    \A e \in ToSet(Merged(buf)) : e.id \notin Missed

(* The journal tells the updates as they were: numbers are not given twice,
   a client that returns misses nothing it is not told of, and the files
   follow the buffer. *)
JournalFaithful == NumbersUnique /\ ReplayComplete /\ FilesFollowBuffer
=============================================================================
