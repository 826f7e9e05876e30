------------------------- MODULE ClientConnections --------------------------
(***************************************************************************)
(* The clients connected to the daemon's WebSocket server                  *)
(* (server/ws-server.ts), the commands they send                           *)
(* (ws-command-handlers.ts, ws-session-command-handlers.ts,                *)
(* ws-workflow-command-handlers.ts) and the updates of sessions they are   *)
(* sent (ws-daemon-event-bridge.ts).  A handler awaits the daemon while    *)
(* other messages, updates and the command's own time limit pass.  A       *)
(* viewer is the remote end: it keeps what it has when it connects again.  *)
(* What becomes of ring buffers and their files is the subject of Replay.  *)
(***************************************************************************)
EXTENDS Selections, Integers, Sequences, SequencesExt, FiniteSetsExt

CONSTANTS
  Viewers, Streams,    \* remote ends and session ids
  MaxViewers,          \* maxClients
  RingSize,            \* entries a ring buffer keeps
  MaxSubscriptions,    \* MAX_CLIENT_SUBSCRIPTIONS
  MaxUpdates,          \* bound: updates of each session
  MaxOpen              \* bound: commands handled at the same time

ASSUME SubscriptionsAssumption == MaxSubscriptions \in Nat \ {0}

VARIABLES
  link,       \* per viewer: "off", "on", "dead" (terminated, not yet closed)
  openSubs,       \* per viewer: its subscriptions, oldest first
  load,       \* per viewer: pendingBytes, 0 low, 1 high, 2 over the limit
  latestSeq,     \* per session: its last update
  streaming,  \* per session: sessionStreaming
  living,     \* sessions that run
  asked,      \* the commands whose handlers have not ended
  acked,   \* the answers to the command that ended in this step
  seen,       \* per viewer and session: the last update received
  whole       \* per viewer and session: the update up to which nothing is
              \* missing since it began to follow, -1: it does not.  Not missing
              \* are chunks left out for a viewer that was behind, and what was
              \* older than the buffer when it began

connectionVars ==
  <<link, openSubs, load, latestSeq, streaming, living, asked, acked, seen, whole>>
streamVars == <<latestSeq, streaming, living>>
followVars == <<openSubs, seen, whole>>

NoStream == "none"
Nowhere == [s \in Streams |-> -1]

ConnectionsInit ==
  /\ link = [v \in Viewers |-> "off"]
  /\ openSubs = [v \in Viewers |-> << >>] /\ load = [v \in Viewers |-> 0]
  /\ latestSeq = [s \in Streams |-> 0] /\ streaming = [s \in Streams |-> FALSE]
  /\ living = {} /\ asked = << >> /\ acked = {}
  /\ seen = [v \in Viewers |-> [s \in Streams |-> 0]]
  /\ whole = [v \in Viewers |-> Nowhere]

(***************************************************************************)
(* Connections.                                                            *)
(***************************************************************************)

Connect(v) ==
  /\ link[v] = "off" /\ Cardinality({w \in Viewers : link[w] # "off"}) < MaxViewers
  /\ link' = [link EXCEPT ![v] = "on"]
  /\ UNCHANGED <<load, streamVars, followVars, asked>> /\ acked' = {}

\* The close event: by the viewer, for want of a pong, or after terminate().
\* Handlers that are under way are cut off from the viewer.
ViewerCloses(v) ==
  /\ link[v] # "off" /\ link' = [link EXCEPT ![v] = "off"]
  /\ asked' = [i \in DOMAIN asked |-> IF asked[i].viewer = v
                                      THEN [asked[i] EXCEPT !.cut = TRUE] ELSE asked[i]]
  /\ openSubs' = [openSubs EXCEPT ![v] = << >>] /\ load' = [load EXCEPT ![v] = 0]
  /\ whole' = [whole EXCEPT ![v] = Nowhere]
  /\ acked' = {} /\ UNCHANGED <<streamVars, seen>>

\* The kernel takes less than is sent, or has taken it all.
LoadChanges(v) ==
  /\ link[v] = "on"
  /\ \E n \in {load[v] + 1, 0} : n <= 2 /\ load' = [load EXCEPT ![v] = n]
  /\ acked' = {} /\ UNCHANGED <<link, streamVars, followVars, asked>>

\* client.send: a client with too much pending is terminated instead.
ViewerReached(v) == link[v] = "on" /\ load[v] < 2
SentTo(vs) == link' = [v \in Viewers |-> IF v \in vs /\ link[v] = "on" /\ load[v] = 2
                                         THEN "dead" ELSE link[v]]

(***************************************************************************)
(* Updates of sessions.                                                    *)
(***************************************************************************)

Listeners(s) == {v \in Viewers : link[v] # "off" /\ Contains(openSubs[v], s)}

\* A mutant of Skips: everything is left out for a client that is behind.
SkipsAnything(v, chunk) == load[v] >= 1

\* broadcastUpdate: chunks are not sent to clients that are behind.
Skips(v, chunk) == chunk /\ load[v] >= 1

\* How far the viewer comes from `from` without a gap, given `sent`.
Upto(from, sent) ==
  Max({from} \cup {n \in sent : \A m \in (from + 1)..n : m \in sent})

\* Updates of s, told by whether they are chunks; `alert` is also sent to
\* every client.
Emit(s, items, alert) ==
  LET last == latestSeq[s] + Len(items)
      Sent(v) == {latestSeq[s] + k : k \in {j \in DOMAIN items : ~Skips(v, items[j])}}
      Behind(v) == {latestSeq[s] + k : k \in {j \in DOMAIN items : items[j] /\ load[v] >= 1}}
      heard == {v \in Listeners(s) : ViewerReached(v) /\ Sent(v) # {}} IN
  /\ last <= MaxUpdates[s] /\ latestSeq' = [latestSeq EXCEPT ![s] = last]
  /\ SentTo({v \in Viewers : \/ v \in Listeners(s) /\ Sent(v) # {}
                             \/ alert /\ link[v] # "off"})
  /\ seen' = [v \in Viewers |-> IF v \in heard THEN [seen[v] EXCEPT ![s] = Max(Sent(v))]
                                ELSE seen[v]]
  /\ whole' = [v \in Viewers |-> IF v \in Listeners(s)
       THEN [whole[v] EXCEPT ![s] =
               Upto(@, Behind(v) \cup (IF v \in heard THEN Sent(v) ELSE {}))]
       ELSE whole[v]]
  /\ acked' = {} /\ UNCHANGED <<openSubs, load, asked>>

\* session:message, and the change between streaming and not.
Message(s, chunk) ==
  /\ s \in living
  /\ Emit(s, IF streaming[s] = chunk THEN <<chunk>> ELSE <<chunk, FALSE>>, FALSE)
  /\ streaming' = [streaming EXCEPT ![s] = chunk] /\ UNCHANGED living

\* Permissions and attention: an update, and an alert to all.
Attention(s) ==
  s \in living /\ Emit(s, <<FALSE>>, TRUE) /\ UNCHANGED <<streaming, living>>

\* session:ended: its state, attention, the alert, and session-ended.
ViewerCommandEnds(s) ==
  /\ s \in living /\ Emit(s, <<FALSE, FALSE>>, TRUE)
  /\ living' = living \ {s} /\ streaming' = [streaming EXCEPT ![s] = FALSE]

\* What is sent to every client: hello when directories change, discovered
\* sessions, hooks and workflow runs.
Broadcast ==
  /\ SentTo(Viewers) /\ acked' = {}
  /\ UNCHANGED <<load, streamVars, followVars, asked>>

(***************************************************************************)
(* Commands.                                                               *)
(***************************************************************************)

\* Variant for mutation testing: no subscription makes room.
AddedUncapped(seq, s) == IF Contains(seq, s) THEN seq ELSE Append(seq, s)

\* addBoundedSetEntry: the oldest subscription makes room, silently.
Added(seq, s) ==
  IF Contains(seq, s) THEN seq
  ELSE Append(IF Len(seq) >= MaxSubscriptions THEN Tail(seq) ELSE seq, s)

\* Set.delete
Unfollowed(seq, s) == Selected(seq, {i \in DOMAIN seq : seq[i] # s})

\* What the ring buffer of s holds.
Held(s) == {n \in 1..latestSeq[s] : n > latestSeq[s] - RingSize}

\* getReplayWindow, getAll
Replayed(s, from) == {n \in Held(s) : n > from}

\* Subscribed to s and sent what the buffer holds after `from`.  What is
\* older is told by droppedWindow, or, of a launch, not told.
Follows(v, s, from) ==
  /\ openSubs' = [openSubs EXCEPT ![v] = Added(@, s)]
  /\ seen' = IF ViewerReached(v) THEN [seen EXCEPT ![v][s] = Max({@} \cup Replayed(s, from))]
             ELSE seen
  /\ whole' = [whole EXCEPT ![v] = [x \in Streams |->
       IF x = s THEN Upto(from, ((1..latestSeq[s]) \ Held(s)) \cup Replayed(s, from))
       ELSE IF Contains(openSubs'[v], x) THEN @[x] ELSE -1]]

\* A command of v, and what the viewer hears of it (sendAck).
Asked(v, kind, s) ==
  [viewer |-> v, kind |-> kind, session |-> s, cut |-> FALSE, acks |-> << >>,
   late |-> FALSE, did |-> FALSE, lost |-> FALSE]
Acked(c, status) ==
  IF ViewerReached(c.viewer) /\ ~c.cut THEN [c EXCEPT !.acks = Append(@, status)]
  ELSE [c EXCEPT !.lost = TRUE]

\* What the viewer knows of a command that has ended, unless an answer was lost.
Told(c) == IF c.lost THEN {}
           ELSE {[kind |-> c.kind, acks |-> c.acks, late |-> c.late, did |-> c.did]}

\* A message comes, and its handler ends at once or awaits the daemon.
AtOnce(c) ==
  /\ link[c.viewer] = "on" /\ SentTo({c.viewer})
  /\ acked' = Told(c) /\ UNCHANGED <<load, streamVars, asked>>
Awaits(c) ==
  /\ link[c.viewer] = "on" /\ Len(asked) < MaxOpen
  /\ asked' = Append(asked, c) /\ acked' = {}
  /\ UNCHANGED <<load, streamVars, followVars>>
\* A handler ends; what it sends goes nowhere when it has been cut off.
Over(i, c) ==
  /\ acked' = Told(c) /\ asked' = RemoveAt(asked, i)
  /\ SentTo({v \in {c.viewer} : ~c.cut}) /\ UNCHANGED load

\* Too long, malformed or too frequent.
Refuse(v) == AtOnce(Acked(Asked(v, "refused", NoStream), "error")) /\ UNCHANGED followVars

\* subscribe, with the last update the viewer has.
ViewerSubscribes(v, s) ==
  AtOnce(Acked(Asked(v, "subscribe", s), "ok")) /\ Follows(v, s, seen[v][s])

Unsubscribe(v, s) ==
  /\ AtOnce(Acked(Asked(v, "unsubscribe", s), "ok")) /\ UNCHANGED seen
  /\ openSubs' = [openSubs EXCEPT ![v] = Unfollowed(@, s)]
  /\ whole' = [whole EXCEPT ![v][s] = -1]

\* launch: a new id.
Launch(v, s) ==
  /\ latestSeq[s] = 0 /\ s \notin living
  /\ Awaits(Asked(v, "launch", s)) /\ UNCHANGED link

\* resume: an id whose session may have been followed before.
Resume(v, s) == Awaits(Asked(v, "resume", s)) /\ UNCHANGED link

\* kill, prompt, respond-permission and the commands on steps await one call
\* of the daemon, and let what it throws pass to handleMessage.
SessionCall(v) == Awaits(Asked(v, "call", NoStream)) /\ UNCHANGED link

\* The commands on context, plans and epochs catch what they throw.
ContextCall(v) == Awaits(Asked(v, "caught", NoStream)) /\ UNCHANGED link

\* Of the workflow commands, only those on approvals and cancellations do.
WorkflowCall(v, decides) ==
  Awaits(Asked(v, IF decides THEN "caught" ELSE "call", NoStream)) /\ UNCHANGED link

\* read-session-messages as an event stream: acknowledged before it is read.
ReadStreamed(v) ==
  Awaits(Acked(Asked(v, "streamed", NoStream), "ok")) /\ SentTo({v})

\* withTimeout: an error is acknowledged, the handler is not stopped.
TimesOut(i) ==
  LET c == asked[i] IN
  /\ ~c.late /\ asked' = [asked EXCEPT ![i] = [Acked(c, "error") EXCEPT !.late = TRUE]]
  /\ SentTo({v \in {c.viewer} : ~c.cut})
  /\ acked' = {} /\ UNCHANGED <<load, streamVars, followVars>>

\* The daemon throws.  handleMessage says so, once; a handler that catches
\* says so itself, and again after the time limit has.
CommandFails(i) ==
  LET c == asked[i]
      quiet == c.kind = "streamed" \/ (c.late /\ c.kind \in {"launch", "call"}) IN
  Over(i, IF quiet THEN c ELSE Acked(c, "error")) /\ UNCHANGED <<streamVars, followVars>>

\* launch, resume: subscribed, session-started, the whole buffer, and the
\* acknowledgement.  A handler that was cut off subscribes a client that is
\* gone.
Starts(i) ==
  LET c == asked[i] IN
  /\ c.kind \in {"launch", "resume"} /\ living' = living \cup {c.session}
  /\ Over(i, [Acked(c, "ok") EXCEPT !.did = TRUE])
  /\ IF c.cut THEN UNCHANGED followVars ELSE Follows(c.viewer, c.session, 0)
  /\ UNCHANGED <<latestSeq, streaming>>

\* The daemon returns; of a streamed read the page is sent.
Returns(i) ==
  LET c == asked[i] IN
  /\ c.kind \in {"call", "caught", "streamed"} /\ UNCHANGED <<streamVars, followVars>>
  /\ Over(i, IF c.kind = "streamed" THEN c ELSE [Acked(c, "ok") EXCEPT !.did = TRUE])

ConnectionsNext ==
  \/ \E v \in Viewers :
       \/ Connect(v) \/ ViewerCloses(v) \/ LoadChanges(v)
       \/ Refuse(v) \/ ReadStreamed(v) \/ SessionCall(v) \/ ContextCall(v)
       \/ \E decides \in BOOLEAN : WorkflowCall(v, decides)
       \/ \E s \in Streams :
            ViewerSubscribes(v, s) \/ Unsubscribe(v, s) \/ Launch(v, s) \/ Resume(v, s)
  \/ \E s \in Streams : Attention(s) \/ ViewerCommandEnds(s) \/ \E chunk \in BOOLEAN : Message(s, chunk)
  \/ Broadcast
  \/ \E i \in 1..Len(asked) : TimesOut(i) \/ CommandFails(i) \/ Starts(i) \/ Returns(i)

ConnectionsSpec == ConnectionsInit /\ [][ConnectionsNext]_connectionVars

(* The variables have their types, and there are never more clients or
   subscriptions than their caps. *)
ConnectionsTypeOK ==
  /\ link \in [Viewers -> {"off", "on", "dead"}] /\ Len(asked) <= MaxOpen
  /\ Cardinality({v \in Viewers : link[v] # "off"}) <= MaxViewers
  /\ \A v \in Viewers : Len(openSubs[v]) <= MaxSubscriptions /\ IsInjective(openSubs[v])
  /\ load \in [Viewers -> 0..2] /\ \A s \in Streams : latestSeq[s] \in 0..MaxUpdates[s]
  /\ streaming \in [Streams -> BOOLEAN] /\ living \subseteq Streams
  /\ \A v \in Viewers, s \in Streams :
       seen[v][s] \in 0..latestSeq[s] /\ whole[v][s] \in -1..latestSeq[s]

(* A command whose handler has ended has been answered, unless the viewer is
   gone, is not reading, or the answer is larger than may be sent.  "ok" is
   said once; an error means that nothing was started or ended, unless the
   time limit came first; and an error follows "ok" only when the page of a
   streamed read is late. *)
AnswersTrue ==
  \A c \in acked :
    LET Said(status) == {k \in DOMAIN c.acks : c.acks[k] = status} IN
    /\ c.acks # << >> /\ Cardinality(Said("ok")) <= 1
    /\ c.did /\ Said("error") # {} => c.late
    /\ \A j \in Said("ok"), k \in Said("error") : j < k => c.kind = "streamed" /\ c.late

(* A viewer that is connected and subscribed misses no update since it began
   to follow the session, replayed or live, whatever else it did meanwhile;
   only chunks are left out, when it is behind, and what was older than the
   buffer. *)
StreamWhole ==
  \A v \in Viewers, s \in Streams :
    link[v] = "on" /\ Contains(openSubs[v], s) => whole[v][s] = latestSeq[s]

(* What a connected viewer is told is true and whole: the answers to its
   commands, and the updates it follows. *)
ConnectionsHold == AnswersTrue /\ StreamWhole

-----------------------------------------------------------------------------
(***************************************************************************)
(* A client reads a transcript page by page, from its end                  *)
(* (server/session-message-reader.ts), and every page is made to fit the   *)
(* acknowledgement that carries it (ws-session-command-handlers.ts).  The  *)
(* transcript grows meanwhile.  How a page is found in a file is the       *)
(* subject of SessionHistory; here a message is known by its size.         *)
(***************************************************************************)

CONSTANTS
  MaxMessages, MessageSizes,  \* bounds: messages of a transcript, and sizes
  PageLimits,                 \* what a client may ask for
  AckLimit                    \* SESSION_MESSAGES_ACK_PLAINTEXT_LIMIT_BYTES

ASSUME LimitsAssumption == PageLimits \subseteq Nat \ {0}

VARIABLES
  messages,  \* sizes of the messages of the transcript
  offset,    \* nextOffset of the last page
  more,      \* its hasMoreBefore
  shown,     \* messages the client has been given
  counted    \* messages it knows only by a droppedCount

pagesVars == <<messages, offset, more, shown, counted>>

PagesInit ==
  /\ messages \in UNION {[1..n -> MessageSizes] : n \in 1..MaxMessages}
  /\ offset = 0 /\ more = TRUE /\ shown = {} /\ counted = {}

\* pageFromTailMessages: the newest messages but `offset` of them.
Page(limit) ==
  LET older == Len(messages) - offset IN {n \in 1..older : n > older - limit}

\* fitMessagesForAck: the older half goes until the rest fits or is one.
Weight(ns) == MapThenSumSet(LAMBDA n : messages[n], ns)
Newest(ns, k) == {n \in ns : Cardinality({m \in ns : m >= n}) <= k}
Fit(ns) ==
  LET keep[k \in 0..Cardinality(ns)] ==
        IF k <= 1 \/ Weight(Newest(ns, k)) <= AckLimit THEN k
        ELSE keep[k - Max({1, k \div 2})]
  IN Newest(ns, keep[Cardinality(ns)])

\* trimLargeMessage cuts the long texts of a message that is still too large;
\* one it cannot cut enough is dropped by client.send, and the client is not
\* answered.
Sendable(ns) == Weight(ns) <= 2 * AckLimit

NextOffset(page, fit) == offset + Cardinality(page)

\* read-session-messages, at the last nextOffset.
ReadPage(limit) ==
  LET page == Page(limit)
      fit == Fit(page) IN
  /\ more /\ Sendable(fit)
  /\ offset' = NextOffset(page, fit)
  /\ more' = (Len(messages) - offset > Cardinality(page) \/ page # fit)
  /\ shown' = shown \cup fit /\ counted' = counted \cup (page \ fit)
  /\ UNCHANGED messages

\* The agent writes another message.
MessageWritten(size) ==
  /\ Len(messages) < MaxMessages /\ messages' = Append(messages, size)
  /\ UNCHANGED <<offset, more, shown, counted>>

PagesNext ==
  \/ \E limit \in PageLimits : ReadPage(limit)
  \/ \E size \in MessageSizes : MessageWritten(size)

PagesSpec == PagesInit /\ [][PagesNext]_pagesVars

PagesTypeOK ==
  /\ messages \in Seq(MessageSizes) /\ offset \in Nat /\ more \in BOOLEAN
  /\ shown \subseteq DOMAIN messages /\ counted \subseteq DOMAIN messages

(* Following nextOffset from page to page leaves out no message that is not
   counted as dropped: of what lies between where the next page begins and a
   message the client has been told of, it has been told everything.  What the
   transcript gains meanwhile is told with the pages that follow, and when
   hasMoreBefore says there is nothing more, all that came before the newest
   message told of has been. *)
PagesTell ==
  LET told == shown \cup counted IN
  /\ \A n \in told : \A m \in (Len(messages) - offset + 1)..n : m \in told
  /\ ~more => told # {} /\ \A n \in told : \A m \in 1..n : m \in told
=============================================================================
