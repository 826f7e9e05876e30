--------------------------- MODULE ContextSharing ---------------------------
(***************************************************************************)
(* The grants and revocations of a context repository that the platform    *)
(* queues for the owner's edge (processPendingContextGrants and            *)
(* processPendingContextRevocations of context/local-edge-sync.ts, run by  *)
(* local-edge-auto-sync.ts and by vpd context), and the members' edges,    *)
(* which pull the grant events and report the keys they took.  Several     *)
(* syncs may run in the owner's home at a time.  The recipients are the    *)
(* crypto epochs of users and teams.                                       *)
(***************************************************************************)
EXTENDS Integers, Sequences, FiniteSets, SequencesExt

CONSTANTS
  GrantMembers,  \* recipients
  First,         \* the one that was granted the repository before
  Pulling,       \* those whose edge pulls
  BadPins,       \* those whose public epoch does not continue what is pinned
  Syncs,         \* syncs that may be under way together; numbers
  MaxSyncs, MaxQueued, MaxRotations, MaxPulls  \* bounds on syncs, requests,
                 \* revocations and the pulls of an edge

ASSUME GrantBounds ==
  /\ BadPins \cup Pulling \cup {First} \subseteq GrantMembers /\ Syncs \subseteq Nat /\ 
     {MaxSyncs, MaxQueued, MaxRotations, MaxPulls} \subseteq Nat

VARIABLES
  log,       \* the events in the owner's home, in file order
  repoEpoch, \* metadata.currentKeyEpoch there
  pushed,    \* the platform has the first so many of them
  queue,     \* per member: where the platform has its grant, and the event of it
  syncs,     \* per sync: its step and what it works on
  begun, queued,
  members,   \* per member's edge: identity, cursor, what it materialised, its pull
  receipts,  \* events whose materialisation the platform was told of
  cutOff,    \* history: members still granted when a revocation made a new epoch
  straddled, \* history: members granted the key of an epoch that was over by then
  revived,   \* history: members granted from a list in which they were pending
             \* when they were no longer
  late       \* history: events pulled by an edge that had no identity for them yet

grantVars == <<log, repoEpoch, pushed, queue, syncs, begun, queued, members, receipts,
               cutOff, straddled, revived, late>>

LogEvent(type, to, epoch) == [type |-> type, to |-> to, epoch |-> epoch]
NoSync == [at |-> "idle", todo |-> {}, item |-> "none", epoch |-> 0, event |-> 0]
NoPage == [on |-> FALSE, upto |-> 0, told |-> {}]

\* The owner's edge has created the repository (createRepoHpke), granted it to
\* the first member and pushed it.  An edge has its identity or enrols later.
GrantsInit ==
  /\ log = <<LogEvent("granted", "owner", 1), LogEvent("granted", First, 1)>>
  /\ repoEpoch = 1 /\ pushed = 2
  /\ queue = [m \in GrantMembers |-> IF m = First THEN [st |-> "emitted", event |-> 2]
                                     ELSE [st |-> "none", event |-> 0]]
  /\ syncs = [j \in Syncs |-> NoSync] /\ begun = 0 /\ queued = 0
  /\ members \in [Pulling -> {[active |-> a, cursor |-> 0, held |-> 0, pulls |-> 0,
                               page |-> NoPage] : a \in BOOLEAN}]
  /\ receipts = {} /\ cutOff = {} /\ straddled = {} /\ revived = {} /\ late = {}

(***************************************************************************)
(* The platform: what is asked of it by its users                          *)
(***************************************************************************)
QueueGrant(m) ==
  /\ queue[m].st = "none" /\ queued < MaxQueued /\ queued' = queued + 1
  /\ queue' = [queue EXCEPT ![m] = [st |-> "pending", event |-> 0]]
  /\ UNCHANGED <<log, repoEpoch, pushed, syncs, begun, members, receipts, cutOff,
                 straddled, revived, late>>

QueueRevocation(m) ==
  /\ queue[m].st = "emitted" /\ queued < MaxQueued /\ queued' = queued + 1
  /\ queue' = [queue EXCEPT ![m].st = "revoking"]
  /\ UNCHANGED <<log, repoEpoch, pushed, syncs, begun, members, receipts, cutOff,
                 straddled, revived, late>>

(***************************************************************************)
(* The owner's edge                                                        *)
(***************************************************************************)
SyncGoes(j, at) == syncs' = [syncs EXCEPT ![j].at = at]

\* refreshContextFromSavedTarget takes the revocations and then the grants;
\* vpd context sync does the same, vpd context grants-process the grants alone.
SyncBegins(j, at) ==
  /\ syncs[j].at = "idle" /\ \A k \in Syncs : k < j => syncs[k].at # "idle"  \* all are alike
  /\ begun < MaxSyncs /\ begun' = begun + 1 /\ SyncGoes(j, at)
  /\ UNCHANGED <<log, repoEpoch, pushed, queue, queued, members, receipts, cutOff,
                 straddled, revived, late>>

\* The list of the platform, which the sync then works off.
ListPending(j) ==
  /\ syncs[j].at \in {"list revocations", "list grants"}
  /\ syncs' = [syncs EXCEPT ![j] = [NoSync EXCEPT
       !.at = IF syncs[j].at = "list grants" THEN "grant" ELSE "revoke",
       !.todo = {m \in GrantMembers :
                   queue[m].st = IF syncs[j].at = "list grants" THEN "pending" ELSE "revoking"}]]
  /\ UNCHANGED <<log, repoEpoch, pushed, queue, begun, queued, members, receipts, cutOff,
                 straddled, revived, late>>

ListDone(j) ==
  /\ syncs[j].todo = {}
  /\ \/ syncs[j].at = "revoke" /\ SyncGoes(j, "list grants")
     \/ syncs[j].at = "grant" /\ syncs' = [syncs EXCEPT ![j] = NoSync]
  /\ UNCHANGED <<log, repoEpoch, pushed, queue, begun, queued, members, receipts, cutOff,
                 straddled, revived, late>>

\* A request fails, the daemon ends: the rest of the lists waits for another sync.
SyncFails(j) ==
  /\ syncs[j].at \notin {"idle", "grant", "revoke"} /\ syncs' = [syncs EXCEPT ![j] = NoSync]
  /\ UNCHANGED <<log, repoEpoch, pushed, queue, begun, queued, members, receipts, cutOff,
                 straddled, revived, late>>

\* activeRecipients, without the owner.
Granted(m) ==
  \E i \in DOMAIN log :
    /\ log[i].to = m /\ log[i].type = "granted"
    /\ \A k \in i + 1 .. Len(log) : ~(log[k].to = m /\ log[k].type = "revoked")

\* revokeRepoHpke up to its first await: key, metadata, revocation.
RevokeOne(j, m) ==
  LET others == {o \in GrantMembers \ {m} : Granted(o)} IN
  /\ syncs[j].at = "revoke" /\ m \in syncs[j].todo /\ repoEpoch <= MaxRotations
  /\ repoEpoch' = repoEpoch + 1 /\ log' = Append(log, LogEvent("revoked", m, repoEpoch))
  /\ syncs' = [syncs EXCEPT ![j].at = IF others = {} THEN "rotate" ELSE "rotate in vain",
                            ![j].item = m, ![j].epoch = repoEpoch + 1]
  /\ cutOff' = cutOff \cup others
  /\ UNCHANGED <<pushed, queue, begun, queued, members, receipts, straddled, revived, late>>

\* The owner is granted the new key.  The next recipient is an epoch, which is
\* no identity of this home: getKnownIdentity throws, and the sync is over.
RotateOwner(j) ==
  /\ syncs[j].at \in {"rotate", "rotate in vain"}
  /\ log' = Append(log, LogEvent("granted", "owner", syncs[j].epoch))
  /\ syncs' = [syncs EXCEPT ![j] = IF syncs[j].at = "rotate" THEN [@ EXCEPT !.at = "push revocation"]
                                   ELSE NoSync]
  /\ UNCHANGED <<repoEpoch, pushed, queue, begun, queued, members, receipts, cutOff,
                 straddled, revived, late>>

\* validateAndPinPublicEpoch, which throws for the whole list, then
\* grantRepoHpkeRecipient up to its await: the epoch and its key are read.
GrantOne(j, m) ==
  /\ syncs[j].at = "grant" /\ m \in syncs[j].todo
  /\ syncs' = [syncs EXCEPT ![j] = IF m \in BadPins THEN NoSync
                 ELSE [@ EXCEPT !.at = "wrap", !.item = m, !.epoch = repoEpoch]]
  /\ UNCHANGED <<log, repoEpoch, pushed, queue, begun, queued, members, receipts, cutOff,
                 straddled, revived, late>>

\* The key is wrapped and the event appended.
AppendGrant(j) ==
  LET m == syncs[j].item IN
  /\ syncs[j].at = "wrap" /\ log' = Append(log, LogEvent("granted", m, syncs[j].epoch))
  /\ syncs' = [syncs EXCEPT ![j].at = "push grant", ![j].event = Len(log) + 1]
  /\ straddled' = IF syncs[j].epoch # repoEpoch THEN straddled \cup {m} ELSE straddled
  /\ revived' = IF queue[m].st # "pending" THEN revived \cup {m} ELSE revived
  /\ UNCHANGED <<repoEpoch, pushed, queue, begun, queued, members, receipts, cutOff, late>>

\* pushContextEvents sends every event of the home.
PushLog(j) ==
  /\ syncs[j].at \in {"push revocation", "push grant"} /\ pushed' = Len(log)
  /\ SyncGoes(j, IF syncs[j].at = "push grant" THEN "mark grant" ELSE "mark revocation")
  /\ UNCHANGED <<log, repoEpoch, queue, begun, queued, members, receipts, cutOff,
                 straddled, revived, late>>

NextItem(j, at) == syncs' = [syncs EXCEPT ![j] =
  [NoSync EXCEPT !.at = at, !.todo = syncs[j].todo \ {syncs[j].item}]]

\* mark-emitted; the platform refuses it for a grant that is being revoked.
MarkEmitted(j) ==
  LET m == syncs[j].item IN
  /\ syncs[j].at = "mark grant" /\ queue[m].st \in {"pending", "emitted"}
  /\ queue' = [queue EXCEPT ![m] = [st |-> "emitted", event |-> syncs[j].event]]
  /\ NextItem(j, "grant")
  /\ UNCHANGED <<log, repoEpoch, pushed, begun, queued, members, receipts, cutOff,
                 straddled, revived, late>>

MarkRevoked(j) ==
  LET m == syncs[j].item IN
  /\ syncs[j].at = "mark revocation" /\ queue[m].st \in {"revoking", "revoked"}
  /\ queue' = [queue EXCEPT ![m].st = "revoked"] /\ NextItem(j, "revoke")
  /\ UNCHANGED <<log, repoEpoch, pushed, begun, queued, members, receipts, cutOff,
                 straddled, revived, late>>

(***************************************************************************)
(* A member's edge                                                         *)
(***************************************************************************)
\* The epoch is enrolled on the edge.
Enrols(m) ==
  /\ ~members[m].active /\ members[m].pulls > 0 /\ members' = [members EXCEPT ![m].active = TRUE]
  /\ UNCHANGED <<log, repoEpoch, pushed, queue, syncs, begun, queued, receipts, cutOff,
                 straddled, revived, late>>

GrantsTo(m, lo, hi) == {i \in lo .. hi : log[i].to = m /\ log[i].type = "granted"}

\* Variant for mutation testing: the cursor moves before the receipts are sent.
PullPageTouching(m) ==
  /\ ~members[m].page.on /\ members[m].pulls < MaxPulls /\ members[m].cursor < pushed
  /\ members' = [members EXCEPT ![m] = [@ EXCEPT !.cursor = pushed, !.pulls = @ + 1,
       !.held = IF members[m].active THEN pushed ELSE @,
       !.page = [on |-> TRUE, upto |-> pushed,
                 told |-> IF members[m].active THEN GrantsTo(m, members[m].cursor + 1, pushed)
                          ELSE {}]]]
  /\ late' = IF members[m].active THEN late
             ELSE late \cup GrantsTo(m, members[m].cursor + 1, pushed)
  /\ UNCHANGED <<log, repoEpoch, pushed, queue, syncs, begun, queued, receipts, cutOff,
                 straddled, revived>>

\* pullContextEvents: the page is imported, every grant in the home to an
\* identity of the edge is materialised, and receipts are made for those of
\* the page.
PullPage(m) ==
  LET page == GrantsTo(m, members[m].cursor + 1, pushed) IN
  /\ ~members[m].page.on /\ members[m].pulls < MaxPulls /\ members[m].cursor < pushed
  /\ members' = [members EXCEPT
       ![m].held = IF members[m].active THEN pushed ELSE @, ![m].pulls = @ + 1,
       ![m].page = [on |-> TRUE, upto |-> pushed,
                    told |-> IF members[m].active THEN page ELSE {}]]
  /\ late' = IF members[m].active THEN late ELSE late \cup page
  /\ UNCHANGED <<log, repoEpoch, pushed, queue, syncs, begun, queued, receipts, cutOff,
                 straddled, revived>>

\* recordContextGrantMaterialization, without a request when there are none,
\* and touchContextMetadata with the new cursor, unless the process ends first.
RecordReceipts(m) ==
  /\ members[m].page.on /\ receipts' = receipts \cup members[m].page.told
  /\ \E cursor \in {members[m].page.upto, members[m].cursor} :
       members' = [members EXCEPT ![m].cursor = cursor, ![m].page = NoPage]
  /\ UNCHANGED <<log, repoEpoch, pushed, queue, syncs, begun, queued, cutOff, straddled,
                 revived, late>>

PullGivesUp(m) ==
  /\ members[m].page.on /\ members' = [members EXCEPT ![m].page = NoPage]
  /\ UNCHANGED <<log, repoEpoch, pushed, queue, syncs, begun, queued, receipts, cutOff,
                 straddled, revived, late>>

GrantsNext ==
  \/ \E m \in GrantMembers :
       \/ QueueGrant(m) \/ QueueRevocation(m)
  \/ \E m \in Pulling :
       \/ Enrols(m) \/ PullPage(m) \/ RecordReceipts(m) \/ PullGivesUp(m)
  \/ \E j \in Syncs :
       \/ \E at \in {"list revocations", "list grants"} : SyncBegins(j, at)
       \/ ListPending(j) \/ ListDone(j) \/ SyncFails(j)
       \/ \E m \in GrantMembers : RevokeOne(j, m) \/ GrantOne(j, m)
       \/ RotateOwner(j) \/ AppendGrant(j) \/ PushLog(j) \/ MarkEmitted(j) \/ MarkRevoked(j)

GrantsSpec == GrantsInit /\ [][GrantsNext]_grantVars

GrantsTypeOK ==
  /\ \A i \in DOMAIN log :
       /\ log[i].type \in {"granted", "revoked"} /\ log[i].to \in GrantMembers \cup {"owner"}
       /\ log[i].epoch \in 1 .. repoEpoch
  /\ repoEpoch \in 1 .. MaxRotations + 1 /\ pushed \in 1 .. Len(log)
  /\ \A m \in GrantMembers :
       /\ queue[m].st \in {"none", "pending", "emitted", "revoking", "revoked"}
       /\ queue[m].event \in 0 .. Len(log)
  /\ \A m \in Pulling : {members[m].cursor, members[m].held} \subseteq 0 .. pushed
  /\ \A j \in Syncs : syncs[j].todo \subseteq GrantMembers
  /\ receipts \cup late \subseteq 1 .. pushed /\ begun \in 0 .. MaxSyncs /\ queued \in 0 .. MaxQueued
  /\ cutOff \cup straddled \cup revived \subseteq GrantMembers

(* What the platform was told is done can be read there: a grant marked as
   emitted is an event to that member, a revocation one after it. *)
MarkedIsThere ==
  \A m \in GrantMembers :
    /\ queue[m].st \in {"emitted", "revoking", "revoked"} =>
         queue[m].event \in GrantsTo(m, 1, pushed)
    /\ queue[m].st = "revoked" =>
         \E i \in queue[m].event + 1 .. pushed : log[i].to = m /\ log[i].type = "revoked"

(* A member whose revocation is done has been given no key since, but for one
   that another sync took from a list read before. *)
RevokedStaysOut ==
  \A m \in GrantMembers \ revived : queue[m].st = "revoked" => ~Granted(m)

(* A member that counts as granted was given the key the owner writes under,
   unless a revocation of another came in between, which leaves it out. *)
CurrentKeyReaches ==
  \A m \in GrantMembers \ (cutOff \cup straddled) :
    queue[m].st = "emitted" => \E i \in GrantsTo(m, 1, pushed) : log[i].epoch = repoEpoch

(* A receipt is true: the edge has the key.  And none is lost: what the cursor
   has passed has been reported, if the edge had the identity by then. *)
ReceiptsTrue ==
  \A m \in Pulling :
    /\ \A i \in receipts : log[i].to = m => i <= members[m].held
    /\ GrantsTo(m, 1, members[m].cursor) \subseteq receipts \cup late

(* What the queue of grants, the owner's edge and the members' edges keep
   together (local-edge-sync.ts, membership.js). *)
ContextGrantsHold ==
  MarkedIsThere /\ RevokedStaysOut /\ CurrentKeyReaches /\ ReceiptsTrue

-----------------------------------------------------------------------------
(***************************************************************************)
(* The review of context candidates (context-engine/src/repo/candidates.js *)
(* and materializer.js, daemon context/local-edge-candidates.ts and        *)
(* local-edge-decision-applications.ts).  A candidate has no record of its *)
(* own: its status is what the events about it come to in the order of an  *)
(* edge's own files, and so is the entry an approval makes.  Edges decide  *)
(* on their own and by the platform's decisions, and exchange their events *)
(* through the platform; several processes synchronise one edge.  Keys and *)
(* cut pulls are ContextVault's: here every edge reads every event, and a  *)
(* pull returns everything after the cursor.                               *)
(***************************************************************************)

CONSTANTS ReviewEdges,  \* edges, numbers
  Proposals, Proposer,  \* candidates, and the edge they are found on
  Syncers,              \* processes that synchronise: <<edge, process>>
  MaxDirect,            \* bound: operations of reviewers on the edges
  MaxRulings,           \* bound: decisions made on the platform
  MaxRounds, MaxLeft    \* bounds: pulls, and pulls cut short

ASSUME ReviewBounds == Syncers \subseteq ReviewEdges \X Nat /\ Proposer \in ReviewEdges

VARIABLES
  trail,      \* per edge: the events, in file order
  posted,     \* the platform: events and decisions in the order received
  seenTo,     \* per edge: lastServerPullReceivedAt, a position in posted
  outcomes,   \* per edge: the file of decision applications
  round,      \* per syncer: the pull under way
  directs, rounds, left,  \* counters
  contested,  \* history: candidates decided on two edges unseen by each other
  crossed,    \* history: candidates decided again and otherwise
  doubled,    \* history: candidates approved more than once
  halved,     \* history: candidates whose approval lost its second event
  overwrote   \* history: edges whose applications two processes wrote at once

reviewVars == <<trail, posted, seenTo, outcomes, round, directs, rounds, left,
                contested, crossed, doubled, halved, overwrote>>

Terminal == {"approved", "rejected", "tombstoned"}
Outcomes == {"none", "applied", "not_found", "already"}
NoRound == [at |-> "idle", upto |-> 0, todo |-> << >>, cursor |-> 0,
            outcome |-> "none", read |-> << >>, unfound |-> FALSE]

Happened(d, n, type, of) == [by |-> d, n |-> n, type |-> type, of |-> of, next |-> FALSE]
Ruling(type, of) == Happened(0, 0, type, of)

\* Nothing was proposed, or the candidates known have been exchanged.
ReviewInit ==
  /\ \E known \in {{}, Proposals} :
       LET events == [i \in 1 .. Cardinality(known) |->
                        Happened(Proposer, i, "proposed", SetToSeq(known)[i])]
       IN /\ trail = [d \in ReviewEdges |-> events] /\ posted = events
          /\ seenTo = [d \in ReviewEdges |-> Len(events)]
  /\ outcomes = [d \in ReviewEdges |-> << >>]
  /\ round = [s \in Syncers |-> NoRound] /\ directs = 0
  /\ rounds = 0 /\ left = 0
  /\ contested = {} /\ crossed = {} /\ doubled = {} /\ halved = {} /\ overwrote = {}

-----------------------------------------------------------------------------
(* materializeRepo: the rows the events come to. *)

Unknown == [status |-> "unknown", to |-> 0]

\* Variant for mutation testing: an assignment reopens what was decided.
CandidateStepReopens(row, e) ==
  CASE e.type = "proposed" -> [status |-> "created", to |-> 0]
    [] e.type = "assigned" /\ row.status # "unknown" -> [status |-> "assigned", to |-> e.by]
    [] e.type = "approved" /\ row.status \notin {"unknown", "rejected", "tombstoned"} ->
         [row EXCEPT !.status = "approved"]
    [] e.type \in {"rejected", "tombstoned"} /\ row.status \notin {"unknown", "approved"} ->
         [row EXCEPT !.status = e.type]
    [] OTHER -> row

\* The UPDATE statements with their WHERE clauses.
CandidateStep(row, e) ==
  CASE e.type = "proposed" -> [status |-> "created", to |-> 0]
    [] e.type = "assigned" /\ row.status \in {"created", "assigned"} ->
         [status |-> "assigned", to |-> e.by]
    [] e.type = "approved" /\ row.status \notin {"unknown", "rejected", "tombstoned"} ->
         [row EXCEPT !.status = "approved"]
    [] e.type \in {"rejected", "tombstoned"} /\ row.status \notin {"unknown", "approved"} ->
         [row EXCEPT !.status = e.type]
    [] OTHER -> row

CandidateRow(events, c) ==
  FoldLeft(LAMBDA row, e : IF e.of = c THEN CandidateStep(row, e) ELSE row, Unknown, events)
StatusOf(d, c) == CandidateRow(trail[d], c).status

\* insertEntry replaces the row, with no successor; markSuperseded updates
\* the row there is.
EntryStep(row, e) ==
  CASE e.type = "entry" -> "live"
    [] e.type = "superseded" /\ row = "live" -> "superseded"
    [] OTHER -> row

\* The entry of candidate c, ctxe_from_c.
EntryRow(events, c) ==
  FoldLeft(LAMBDA row, e : IF e.of = c /\ ~e.next THEN EntryStep(row, e) ELSE row, "none", events)

\* resolveBundle: what a session is given of the candidate.
Delivered(d, c) == EntryRow(trail[d], c) = "live"
\* The successor of its entry, which is live from the start.
Successor(d, c) == \E i \in DOMAIN trail[d] : trail[d][i].of = c /\ trail[d][i].next

\* listLocalPendingContextCandidates: a buried candidate counts as pending.
Pending(d, c) == StatusOf(d, c) \notin {"unknown", "approved", "rejected"}

\* resolveSessionContextSections: what a prompt on the edge is given.
Given(d) == [approved |-> {c \in Proposals : Delivered(d, c)},
             pending |-> {c \in Proposals : Pending(d, c)}]

-----------------------------------------------------------------------------
(* Events of an edge. *)

AllEvents == UNION {ToSet(trail[d]) : d \in ReviewEdges}

Against(a, b) ==
  \/ a \in Terminal /\ b \in Terminal /\ a # b
  \/ a = "assigned" /\ b = "assigned"

\* appendUnsignedEvent: the next file.
Appended(d, events, type, c, next) ==
  LET n == Cardinality({e \in UNION {ToSet(events[x]) : x \in ReviewEdges} : e.by = d})
  IN [events EXCEPT ![d] = Append(@, [Happened(d, n + 1, type, c) EXCEPT !.next = next])]
EventOn(d, events, type, c) == Appended(d, events, type, c, FALSE)

\* The histories note what a decision did not see or did not heed.
Notes(d, type, cs) ==
  LET among(events) == {c \in cs : \E e \in events : e.of = c /\ Against(type, e.type)}
  IN /\ contested' = contested \cup among(AllEvents \ ToSet(trail[d]))
     /\ crossed' = IF type = "assigned" THEN crossed ELSE crossed \cup among(AllEvents)
     /\ doubled' = IF type # "approved" THEN doubled
                   ELSE doubled \cup {c \in cs : \E e \in AllEvents :
                                        e.of = c /\ e.type = "approved"}

Happens(d, type, cs) ==
  /\ trail' = FoldLeft(LAMBDA events, c : EventOn(d, events, type, c), trail, SetToSeq(cs))
  /\ Notes(d, type, cs)

Direct == directs < MaxDirect /\ directs' = directs + 1
KeepsSync == UNCHANGED <<posted, seenTo, outcomes, round, rounds, left, overwrote>>

\* proposeContextEntry.
Propose(d, c) ==
  /\ d = Proposer /\ ~\E e \in AllEvents : e.of = c
  /\ Happens(d, "proposed", {c}) /\ KeepsSync /\ UNCHANGED <<directs, halved>>

\* assignCandidate, rejectCandidate, tombstoneCandidate and their batches:
\* none looks at the status.
Review(d, type, cs) ==
  /\ Direct /\ \A c \in cs : StatusOf(d, c) # "unknown"
  /\ Happens(d, type, cs) /\ KeepsSync /\ UNCHANGED halved

\* decayCandidates: what is still open is buried.
Decay(d) ==
  LET stale == {c \in Proposals : StatusOf(d, c) \in {"created", "assigned"}}
  IN /\ Direct /\ stale # {}
     /\ Happens(d, "tombstoned", stale) /\ KeepsSync /\ UNCHANGED halved

\* approveCandidate: the event, then the entry; the process may end between.
Approve(d, c) ==
  /\ Direct /\ StatusOf(d, c) # "unknown"
  /\ LET events == EventOn(d, trail, "approved", c)
     IN \/ trail' = EventOn(d, events, "entry", c) /\ halved' = halved
        \/ trail' = events /\ halved' = halved \cup {c}
  /\ Notes(d, "approved", {c}) /\ KeepsSync

\* supersedeEntry: the successor follows what it supersedes.
Supersede(d, c) ==
  /\ Direct /\ Delivered(d, c)
  /\ trail' = Appended(d, EventOn(d, trail, "superseded", c), "entry", c, TRUE)
  /\ KeepsSync /\ UNCHANGED <<contested, crossed, doubled, halved>>

-----------------------------------------------------------------------------
(* The platform, and synchronising. *)

IsRuling(e) == e.by = 0

\* pushContextEvents of a process that does not pull just then; the platform
\* keeps what it lacks.
PushTrail(s) ==
  LET new == SelectSeq(trail[s[1]], LAMBDA e : ~\E i \in DOMAIN posted : posted[i] = e)
  IN /\ round[s].at = "idle" /\ new # << >> /\ posted' = posted \o new
     /\ UNCHANGED <<trail, seenTo, outcomes, round, directs, rounds, left,
                    contested, crossed, doubled, halved, overwrote>>

\* A reviewer decides in the platform's inbox, once for each candidate.
Rule(type, c) ==
  /\ \E i \in DOMAIN posted : posted[i].type = "proposed" /\ posted[i].of = c
  /\ ~\E i \in DOMAIN posted : IsRuling(posted[i]) /\ posted[i].of = c
  /\ Cardinality({i \in DOMAIN posted : IsRuling(posted[i])}) < MaxRulings
  /\ posted' = Append(posted, Ruling(type, c))
  /\ UNCHANGED <<trail, seenTo, outcomes, round, directs, rounds, left,
                 contested, crossed, doubled, halved, overwrote>>

\* pullContextEvents: importSyncEvents adds what is new in the order given.
PullRound(s) ==
  LET d == s[1]
      page == SubSeq(posted, seenTo[d] + 1, Len(posted))
      new == SelectSeq(page, LAMBDA e : ~IsRuling(e) /\ e \notin ToSet(trail[d]))
  IN /\ round[s].at = "idle" /\ page # << >> /\ rounds < MaxRounds /\ rounds' = rounds + 1
     /\ trail' = [trail EXCEPT ![d] = @ \o new]
     /\ round' = [round EXCEPT ![s] =
          [NoRound EXCEPT !.at = "next", !.upto = Len(posted), !.todo = SelectSeq(page, IsRuling),
                          !.cursor = seenTo[d]]]
     /\ UNCHANGED <<posted, seenTo, outcomes, directs, left, contested, crossed, doubled,
                    halved, overwrote>>

ReviewGoes(s, at) == round' = [round EXCEPT ![s].at = at]

\* applyContextCandidateDecision goes by the status; a buried candidate is
\* not decided.
OpenFor(d, c) == StatusOf(d, c) \notin {"unknown", "approved", "rejected"}

\* The metadata is read again for every decision.
Examine(s) ==
  LET d == s[1]
      c == Head(round[s].todo).of
  IN /\ round[s].at = "next" /\ round[s].todo # << >>
     /\ round' = [round EXCEPT
          ![s].at = IF OpenFor(d, c) THEN "append" ELSE "read",
          ![s].cursor = seenTo[d],
          ![s].outcome = IF OpenFor(d, c) THEN "applied"
                         ELSE IF StatusOf(d, c) = "unknown" THEN "not_found" ELSE "already",
          ![s].unfound = @ \/ StatusOf(d, c) = "unknown"]
     /\ UNCHANGED <<trail, posted, seenTo, outcomes, directs, rounds, left,
                    contested, crossed, doubled, halved, overwrote>>

\* approveCandidate's first event, or rejectCandidate.
Decides(s) ==
  LET ruling == Head(round[s].todo)
  IN /\ round[s].at = "append" /\ Happens(s[1], ruling.type, {ruling.of})
     /\ ReviewGoes(s, IF ruling.type = "approved" THEN "entry" ELSE "touch")
     /\ UNCHANGED <<posted, seenTo, outcomes, directs, rounds, left, halved, overwrote>>

\* Its second.
MakesEntry(s) ==
  /\ round[s].at = "entry" /\ trail' = EventOn(s[1], trail, "entry", Head(round[s].todo).of)
  /\ ReviewGoes(s, "touch")
  /\ UNCHANGED <<posted, seenTo, outcomes, directs, rounds, left,
                 contested, crossed, doubled, halved, overwrote>>

\* touchContextMetadata writes the record back as it was read.
Touches(s) ==
  /\ round[s].at = "touch" /\ seenTo' = [seenTo EXCEPT ![s[1]] = round[s].cursor]
  /\ ReviewGoes(s, "read")
  /\ UNCHANGED <<trail, posted, outcomes, directs, rounds, left,
                 contested, crossed, doubled, halved, overwrote>>

\* recordCandidateDecisionApplication: the file is read,
ReadsOutcomes(s) ==
  /\ round[s].at = "read"
  /\ round' = [round EXCEPT ![s].at = "write", ![s].read = outcomes[s[1]]]
  /\ UNCHANGED <<trail, posted, seenTo, outcomes, directs, rounds, left,
                 contested, crossed, doubled, halved, overwrote>>

\* Of one decision and actor the last application stays.
Recorded(read, c, outcome) ==
  Append(SelectSeq(read, LAMBDA a : a.of # c), [of |-> c, outcome |-> outcome])

\* and written back whole.
WritesOutcome(s) ==
  LET d == s[1]
  IN /\ round[s].at = "write"
     /\ outcomes' = [outcomes EXCEPT ![d] =
                       Recorded(round[s].read, Head(round[s].todo).of, round[s].outcome)]
     /\ overwrote' = IF round[s].read # outcomes[d] THEN overwrote \cup {d} ELSE overwrote
     /\ round' = [round EXCEPT ![s].at = "next", ![s].todo = Tail(@), ![s].read = << >>,
                               ![s].outcome = "none"]
     /\ UNCHANGED <<trail, posted, seenTo, directs, rounds, left, contested, crossed, doubled, halved>>

\* The end of a pull: the cursor goes to the newest event and decision, the
\* decisions left out when a candidate was missing.
EndsRound(s) ==
  LET newest == CHOOSE n \in 0 .. round[s].upto :
                  /\ n = 0 \/ ~round[s].unfound \/ ~IsRuling(posted[n])
                  /\ \A k \in n + 1 .. round[s].upto : round[s].unfound /\ IsRuling(posted[k])
  IN /\ round[s].at = "next" /\ round[s].todo = << >>
     /\ seenTo' = [seenTo EXCEPT ![s[1]] = IF newest > 0 THEN newest ELSE @]
     /\ round' = [round EXCEPT ![s] = NoRound]
     /\ UNCHANGED <<trail, posted, outcomes, directs, rounds, left,
                    contested, crossed, doubled, halved, overwrote>>

\* The process ends, or a request or a file fails.
LeavesRound(s) ==
  /\ round[s].at # "idle" /\ round' = [round EXCEPT ![s] = NoRound]
  /\ left < MaxLeft /\ left' = left + 1
  /\ halved' = IF round[s].at = "entry" THEN halved \cup {Head(round[s].todo).of} ELSE halved
  /\ UNCHANGED <<trail, posted, seenTo, outcomes, directs, rounds,
                 contested, crossed, doubled, overwrote>>

ReviewNext ==
  \/ \E d \in ReviewEdges :
       \/ Decay(d)
       \/ \E c \in Proposals : Propose(d, c) \/ Approve(d, c) \/ Supersede(d, c)
       \/ \E type \in {"assigned", "rejected", "tombstoned"}, cs \in SUBSET Proposals \ {{}} :
            Review(d, type, cs)
  \/ \E type \in {"approved", "rejected"}, c \in Proposals : Rule(type, c)
  \/ \E s \in Syncers :
       \/ PushTrail(s) \/ PullRound(s) \/ Examine(s) \/ Decides(s) \/ MakesEntry(s) \/ Touches(s)
       \/ ReadsOutcomes(s) \/ WritesOutcome(s) \/ EndsRound(s) \/ LeavesRound(s)

ReviewSpec == ReviewInit /\ [][ReviewNext]_reviewVars

-----------------------------------------------------------------------------
ReviewTypeOK ==
  /\ seenTo \in [ReviewEdges -> 0 .. Len(posted)]
  /\ \A s \in Syncers :
       /\ round[s].at \in {"idle", "next", "append", "entry", "touch", "read", "write"}
       /\ round[s].outcome \in Outcomes /\ round[s].upto <= Len(posted)
  /\ directs \in 0 .. MaxDirect /\ rounds \in 0 .. MaxRounds /\ left \in 0 .. MaxLeft
  /\ contested \cup crossed \cup doubled \cup halved \subseteq Proposals
  /\ overwrote \subseteq ReviewEdges

Quiet(c) == \A s \in Syncers : round[s].at # "entry" \/ Head(round[s].todo).of # c

(* Edges that hold the same events tell the same status of a candidate,
   although each goes by the order of its own files, unless it was decided
   on two of them before either knew of the other's decision. *)
EdgesAgree ==
  \A d, e \in ReviewEdges : ToSet(trail[d]) = ToSet(trail[e]) =>
    \A c \in Proposals \ contested :
      LET here == CandidateRow(trail[d], c)
          there == CandidateRow(trail[e], c)
      IN here.status = there.status /\ (here.status = "assigned" => here.to = there.to)

(* On an edge that has every event, an approved candidate has its entry and
   one that was turned down has none, unless it was decided twice and
   differently, or a crash cut the approval in two. *)
EntriesFollow ==
  \A d \in ReviewEdges : ToSet(trail[d]) = AllEvents =>
    \A c \in Proposals \ crossed :
      /\ StatusOf(d, c) = "approved" /\ c \notin halved /\ Quiet(c)
           => EntryRow(trail[d], c) # "none"
      /\ StatusOf(d, c) \in {"rejected", "tombstoned"} => EntryRow(trail[d], c) = "none"

(* A session is given an entry or its successor and never both, unless the
   entry was approved twice: the second approval brings back what was
   superseded.  And nothing is given both as approved and as a proposal. *)
SupersededStaysOut ==
  \A d \in ReviewEdges :
    /\ \A c \in Proposals \ doubled : ~(c \in Given(d).approved /\ Successor(d, c))
    /\ Given(d).approved \cap Given(d).pending \subseteq crossed

(* An edge reports on every decision its cursor has passed, whatever was cut
   short and pulled again, unless two processes wrote the reports at once. *)
DecisionsReported ==
  \A d \in ReviewEdges \ overwrote : \A i \in 1 .. seenTo[d] :
    IsRuling(posted[i]) => \E k \in DOMAIN outcomes[d] : outcomes[d][k].of = posted[i].of

(* What is proposed, reviewed and approved comes to the same on every edge. *)
ReviewsHold == EdgesAgree /\ EntriesFollow /\ SupersededStaysOut /\ DecisionsReported
=============================================================================
