---------------------------- MODULE RelayRouting ----------------------------
(***************************************************************************)
(* The relay service (services/relay/src): several relays that carry       *)
(* frames between one runtime target's daemon and its clients.  A relay    *)
(* remembers who asked for a key exchange and who owns a session; a client *)
(* whose relay has no daemon is served over the bus by another relay, one  *)
(* that presence has named (RelayPresence).                                *)
(*                                                                         *)
(* The daemon's end (packages/daemon/src/relay) keeps encrypted sessions,  *)
(* a sequence in insertion order with its capacity: of each, the window    *)
(* that drops repeated and stale frames, and the outgoing counter that     *)
(* asks for a new key.                                                     *)
(*                                                                         *)
(* Requests are numbered and a session has the number of the request that  *)
(* made it.  The bus is a queue per relay that keeps the newest frames; a  *)
(* relay may refuse a frame it pulls (an old or repeated signature).       *)
(***************************************************************************)
EXTENDS RelaySlots, Selections, Integers, Sequences, SequencesExt, FiniteSets

CONSTANTS
  Window,       \* RELAY_REPLAY_WINDOW
  RotateAfter,  \* keyRotateAfterMessages
  MaxSessions,  \* relaySessionMaxEntries
  Clients,
  Home,         \* the relay a client connects to
  QueueMax,     \* redisQueueMax
  Track,        \* maxPairingRequestTrack, maxSessionOwnerTrack
  MaxRequests,  \* bound: key exchanges clients begin
  MaxSeq,       \* bound: frames a client numbers in a session
  MaxSends,     \* bound: messages of the local daemon in a session
  MaxFaults     \* bound: closed clients and lost sockets

ASSUME SessionsAssumption ==
  Window \in Nat \ {0} /\ RotateAfter \in Nat \ {0} /\ MaxSessions \in Nat \ {0}

ASSUME RoutingAssumption ==
  /\ IsFiniteSet(Relays) /\ IsFiniteSet(Clients)
  /\ Relays \cap Clients = {}
  /\ None \notin Relays \cup Clients /\ Home \in [Clients -> Relays]
  /\ Track \in Nat \ {0} /\ QueueMax \in Nat \ {0}
  /\ {MaxRequests, MaxSeq, MaxSends, MaxFaults} \subseteq Nat

\* Map.delete: the entries but the one with this id.
Without(entries, id) == Selected(entries, {i \in DOMAIN entries : entries[i].id # id})

\* createRelaySessionState.
NewSession(id, epoch) ==
  [id |-> id, epoch |-> epoch, tx |-> 0, high |-> 0, seen |-> {},
   rotate |-> FALSE]

Lowest(high) == IF high - Window + 1 > 1 THEN high - Window + 1 ELSE 1

\* acceptInboundRelaySeq: does the session take a frame with this number?
Accepts(session, seq) ==
  /\ seq >= 1 /\ seq \notin session.seen
  /\ seq <= session.high + Window
  /\ seq >= Lowest(session.high)

\* Variant for mutation testing: a window one number too small is remembered.
AcceptedForgets(session, seq) ==
  LET high == IF seq > session.high THEN seq ELSE session.high
  IN  [session EXCEPT !.high = high,
         !.seen = {n \in @ \cup {seq} : n > Lowest(high)}]

\* acceptInboundRelaySeq: the session once it has taken the frame.
Accepted(session, seq) ==
  LET high == IF seq > session.high THEN seq ELSE session.high
  IN  [session EXCEPT !.high = high,
         !.seen = {n \in @ \cup {seq} : n >= Lowest(high)}]

\* sendToAllRelaySessions for one session: the counter, and the flag of the
\* notice that goes out once the threshold is reached.
Sent(session) ==
  [session EXCEPT !.tx = @ + 1, !.rotate = @ \/ session.tx + 1 >= RotateAfter]

SessionIds(sessions) == {sessions[i].id : i \in DOMAIN sessions}
SessionOf(sessions, id) ==
  sessions[CHOOSE i \in DOMAIN sessions : sessions[i].id = id]

\* enforceRelaySessionCapacity: the oldest go.
Capped(sessions) ==
  IF Len(sessions) > MaxSessions
  THEN SubSeq(sessions, Len(sessions) - MaxSessions + 1, Len(sessions))
  ELSE sessions

\* handleKeyExchangeInit: is the exchange accepted?  Without a previous
\* session always; to renew one it must exist and have asked for a new key.
MayExchange(sessions, previous, none) ==
  \/ previous = none
  \/ previous \in SessionIds(sessions) /\ SessionOf(sessions, previous).rotate

\* handleKeyExchangeInit: the sessions after it.
Exchanged(sessions, id, previous, none) ==
  LET epoch == IF previous = none THEN 1
               ELSE SessionOf(sessions, previous).epoch + 1
  IN  Capped(Append(Without(sessions, previous), NewSession(id, epoch)))

VARIABLES
  conn,      \* clients that are connected
  viewers,   \* those of them with the session-events scope
  asker,     \* history: the client of each request, in order
  kex,       \* per relay: keyExchangeRequests, oldest first
  owners,    \* per relay: sessionOwners, oldest first
  subs,      \* per relay: sessionEventSubscribers of one channel
  target,    \* per relay: the scope's runtimeTargetId is set
  sessions,  \* the daemon's relaySessions
  uplink,    \* frames the daemon has sent on its socket
  bus,       \* per relay: the queue of frames addressed to it
  answered,  \* per client: the requests it has received an answer for
  stray,     \* history: a client received a frame that is not for it
  taken,     \* history: <<session, number>> passed on to the daemon
  repeated,  \* history: one of them was passed on a second time
  faults     \* faults so far

tables == <<kex, owners, subs, target>>
clientVars == <<conn, viewers, asker>>
daemonVars == <<sessions, uplink>>
takenVars == <<taken, repeated>>
gotVars == <<answered, stray>>
history == <<gotVars, takenVars>>
vars == <<clientVars, tables, slotVars, daemonVars, bus, history, faults>>

Requests == 1..MaxRequests
Entries == [id : Requests, owner : Clients \cup Relays]

(* Frames of clients and of the daemon, and what a relay puts on the bus. *)
ClientFrames ==
  [type : {"init"}, id : Requests, prev : Requests \cup {None}]
    \cup [type : {"envelope"}, id : Requests, seq : 1..MaxSeq]
DaemonFrames == [type : {"response", "envelope"}, id : Requests]
Event == [type |-> "event"]
BusFrames == [to : {"daemon"}, src : Relays, frame : ClientFrames]
               \cup [to : {"clients"}, frame : DaemonFrames \cup {Event}]

Init ==
  /\ conn = {} /\ viewers = {} /\ asker = <<>>
  /\ kex = [r \in Relays |-> <<>>] /\ owners = [r \in Relays |-> <<>>]
  /\ subs = [r \in Relays |-> {}] /\ target = [r \in Relays |-> FALSE]
  /\ SlotInit /\ sessions = <<>> /\ uplink = {} /\ bus = [r \in Relays |-> <<>>]
  /\ answered = [c \in Clients |-> {}] /\ stray = FALSE /\ taken = {}
  /\ repeated = FALSE /\ faults = 0

-----------------------------------------------------------------------------
(* The registry of a relay.                                                *)

\* track...: the oldest entries make room; an entry set again keeps its place.
Tracked(entries, id, owner) ==
  LET room == IF Len(entries) >= Track THEN Tail(entries) ELSE entries
  IN  IF \E i \in DOMAIN room : room[i].id = id
      THEN [i \in DOMAIN room |->
              IF room[i].id = id THEN [id |-> id, owner |-> owner] ELSE room[i]]
      ELSE Append(room, [id |-> id, owner |-> owner])

OwnerOf(entries, id) ==
  IF \E i \in DOMAIN entries : entries[i].id = id
  THEN entries[CHOOSE i \in DOMAIN entries : entries[i].id = id].owner
  ELSE None

WithoutOwner(entries, c) ==
  Selected(entries, {i \in DOMAIN entries : entries[i].owner # c})

\* publish: rPush, then lTrim to the newest.
Published(queues, to, b) ==
  [queues EXCEPT ![to] = LET q == Append(@, b)
                         IN  IF Len(q) > QueueMax THEN Tail(q) ELSE q]

-----------------------------------------------------------------------------
(* Frames that reach the daemon, over the socket a relay holds.            *)

DaemonInit(f) ==
  IF MayExchange(sessions, f.prev, None)
  THEN /\ sessions' = Exchanged(sessions, f.id, f.prev, None)
       /\ uplink' = uplink \cup {[type |-> "response", id |-> f.id]}
       /\ UNCHANGED takenVars
  ELSE UNCHANGED <<sessions, uplink, takenVars>>

DaemonEnvelope(f) ==
  /\ IF f.id \in SessionIds(sessions) /\ Accepts(SessionOf(sessions, f.id), f.seq)
     THEN /\ sessions' = [i \in DOMAIN sessions |->
                            IF sessions[i].id = f.id
                            THEN Accepted(sessions[i], f.seq) ELSE sessions[i]]
          /\ taken' = taken \cup {<<f.id, f.seq>>}
          /\ repeated' = (repeated \/ <<f.id, f.seq>> \in taken)
     ELSE UNCHANGED <<sessions, takenVars>>
  /\ UNCHANGED uplink

\* safeSend to state.daemon, and the bridge's message handler; the frame is
\* lost when the relay's socket is not the daemon's any more.
ToDaemon(r, f) ==
  IF Reaches(r)
  THEN IF f.type = "init" THEN DaemonInit(f) ELSE DaemonEnvelope(f)
  ELSE UNCHANGED <<sessions, uplink, takenVars>>

-----------------------------------------------------------------------------
(* Clients.                                                                *)

\* A client connects, with the runtime scope or that of session events.
ClientConnect(c) ==
  /\ c \notin conn /\ conn' = conn \cup {c}
  /\ viewers' \in {viewers, viewers \cup {c}}
  /\ target' = [target EXCEPT ![Home[c]] = TRUE]
  /\ UNCHANGED <<asker, kex, owners, subs, slotVars, daemonVars, bus,
                 history, faults>>

\* The close handler: removeClient.
ClientClose(c) ==
  /\ c \in conn /\ faults < MaxFaults
  /\ conn' = conn \ {c} /\ viewers' = viewers \ {c} /\ faults' = faults + 1
  /\ subs' = [subs EXCEPT ![Home[c]] = @ \ {c}]
  /\ kex' = [kex EXCEPT ![Home[c]] = WithoutOwner(@, c)]
  /\ owners' = [owners EXCEPT ![Home[c]] = WithoutOwner(@, c)]
  /\ UNCHANGED <<asker, target, slotVars, daemonVars, bus, history>>

\* A frame the relay r takes from a client: to the daemon here, or over the
\* bus to the relay that resolvePresence names, from presence or its
\* cache, or nowhere: the daemon has been there.
FromClient(r, f) ==
  IF DaemonOpen(r) THEN ToDaemon(r, f) /\ UNCHANGED bus
  ELSE /\ \E to \in {None} \cup {s \in Relays : latest[s] # 0} :
            bus' = IF to \in Relays \ {r}
                   THEN Published(bus, to, [to |-> "daemon", src |-> r, frame |-> f])
                   ELSE bus
       /\ UNCHANGED <<sessions, uplink, takenVars>>

\* relay_key_exchange_init, for a new session or to renew one.
KeyExchange(c) ==
  /\ c \in conn \ viewers /\ Len(asker) < MaxRequests
  /\ asker' = Append(asker, c)
  /\ kex' = [kex EXCEPT ![Home[c]] = Tracked(@, Len(asker'), c)]
  /\ \E prev \in answered[c] \cup {None} :
       FromClient(Home[c], [type |-> "init", id |-> Len(asker'), prev |-> prev])
  /\ UNCHANGED <<conn, viewers, owners, subs, target, slotVars, gotVars,
                 faults>>

\* An envelope, a repeated one included.
ClientEnvelope(c) ==
  /\ c \in conn \ viewers
  /\ \E id \in answered[c], seq \in 1..MaxSeq :
       FromClient(Home[c], [type |-> "envelope", id |-> id, seq |-> seq])
  /\ UNCHANGED <<clientVars, tables, slotVars, gotVars, faults>>

-----------------------------------------------------------------------------
(* Frames of the daemon.                                                   *)

\* pruneIdleRelaySessions, before a send or a new session.
SessionIdle(id) ==
  /\ id \in SessionIds(sessions)
  /\ sessions' = Without(sessions, id)
  /\ UNCHANGED <<clientVars, tables, slotVars, uplink, bus, history, faults>>

\* sendToAllRelaySessions.
DaemonSends ==
  /\ daemon # Offline /\ \A i \in DOMAIN sessions : sessions[i].tx < MaxSends
  /\ sessions # <<>>
  /\ sessions' = [i \in DOMAIN sessions |-> Sent(sessions[i])]
  /\ uplink' = uplink \cup
       {[type |-> "envelope", id |-> id] : id \in SessionIds(sessions)}
  /\ UNCHANGED <<clientVars, tables, slotVars, bus, history, faults>>

\* getOrCreate(scopeKey, {workspaceId}), with which every route below begins,
\* leaves the scope without its runtime target.
TouchScope(r) == target' = [target EXCEPT ![r] = FALSE]

\* Is the frame one the client asked for: its own sessions, its own scope?
IsFor(c, f) == IF f = Event THEN c \in viewers ELSE asker[f.id] = c

\* These clients are sent the frame.
Receives(cs, f) ==
  /\ answered' = [c \in Clients |->
       IF c \in cs /\ f.type = "response" THEN answered[c] \cup {f.id} ELSE answered[c]]
  /\ stray' = (stray \/ \E c \in cs : ~IsFor(c, f))

(* What a relay does with a frame whose owner it has found: a connected
   client gets it; a relay is sent it over the bus, if the scope has its
   runtime target.  base is the bus the frame has already been taken from. *)
Deliver(r, owner, f, base) ==
  IF owner \in conn
  THEN Receives({owner}, f) /\ bus' = base
  ELSE /\ bus' = IF owner \in Relays /\ target'[r]
                 THEN Published(base, owner, [to |-> "clients", frame |-> f])
                 ELSE base
       /\ UNCHANGED gotVars

\* Variant for mutation testing: an answer goes to whoever asked last.
RouteResponseToLast(r, f, base) ==
  /\ TouchScope(r)
  /\ IF kex[r] # <<>>
     THEN /\ kex' = [kex EXCEPT ![r] = Front(@)]
          /\ owners' = [owners EXCEPT ![r] = Tracked(@, f.id, Last(kex[r]).owner)]
          /\ Deliver(r, Last(kex[r]).owner, f, base)
     ELSE bus' = base /\ UNCHANGED <<kex, owners, gotVars>>

\* routeKeyExchangeResponse.
RouteResponse(r, f, base) ==
  LET owner == OwnerOf(kex[r], f.id)
  IN  /\ TouchScope(r)
      /\ IF owner # None
         THEN /\ kex' = [kex EXCEPT ![r] = Without(@, f.id)]
              /\ owners' = [owners EXCEPT ![r] = Tracked(@, f.id, owner)]
              /\ Deliver(r, owner, f, base)
         ELSE bus' = base /\ UNCHANGED <<kex, owners, gotVars>>

\* routeSessionOwnedFrame.
RouteSession(r, f, base) ==
  /\ TouchScope(r)
  /\ Deliver(r, OwnerOf(owners[r], f.id), f, base)
  /\ UNCHANGED <<kex, owners>>

\* routeSessionEventRelayFrame: every open subscriber of the channel.
RouteEvent(r, base) ==
  /\ TouchScope(r)
  /\ Receives(subs[r], Event)
  /\ bus' = base
  /\ UNCHANGED <<kex, owners>>

Route(r, f, base) ==
  CASE f.type = "response" -> RouteResponse(r, f, base)
    [] f.type = "envelope" -> RouteSession(r, f, base)
    [] OTHER -> RouteEvent(r, base)

\* The relay's handler of a daemon frame.
FromDaemon(f) ==
  /\ f \in uplink /\ daemon # Offline
  /\ uplink' = uplink \ {f}
  /\ Route(daemon.at, f, bus)
  /\ UNCHANGED <<clientVars, subs, slotVars, sessions, takenVars, faults>>

-----------------------------------------------------------------------------
(* The bus: pullFrames and routeBusFrame.                                  *)

Pulled(r) == [bus EXCEPT ![r] = Tail(@)]

BusToDaemon(r) ==
  /\ bus[r] # <<>> /\ Head(bus[r]).to = "daemon"
  /\ bus' = Pulled(r)
  /\ target' = [target EXCEPT ![r] = TRUE]
  /\ LET b == Head(bus[r])
     IN  /\ kex' = [kex EXCEPT ![r] = IF b.frame.type = "init"
                                      THEN Tracked(@, b.frame.id, b.src) ELSE @]
         /\ IF DaemonOpen(r) THEN ToDaemon(r, b.frame)
            ELSE UNCHANGED <<sessions, uplink, takenVars>>
  /\ UNCHANGED <<clientVars, owners, subs, slotVars, gotVars, faults>>

\* An answer, an envelope or a session event for this relay's clients.
BusToClients(r) ==
  /\ bus[r] # <<>> /\ Head(bus[r]).to = "clients"
  /\ Route(r, Head(bus[r]).frame, Pulled(r))
  /\ UNCHANGED <<clientVars, subs, slotVars, daemonVars, takenVars,
                 faults>>

\* The frame is refused, or the relay stops before it has routed it.
BusLoses(r) ==
  /\ bus[r] # <<>> /\ bus' = Pulled(r)
  /\ UNCHANGED <<clientVars, tables, slotVars, daemonVars, history,
                 faults>>

\* The platform publishes a session event for a relay.
PlatformEvent(r) ==
  /\ \E c \in viewers : Home[c] = r
  /\ bus' = Published(bus, r, [to |-> "clients", frame |-> Event])
  /\ UNCHANGED <<clientVars, tables, slotVars, daemonVars, history,
                 faults>>

-----------------------------------------------------------------------------
(* Session events.                                                         *)

\* subscribe and unsubscribe: handleSessionEventClientFrame.
Subscribe(c) ==
  /\ c \in viewers
  /\ \E on \in BOOLEAN :
       subs' = [subs EXCEPT ![Home[c]] = IF on THEN @ \cup {c} ELSE @ \ {c}]
  /\ TouchScope(Home[c])
  /\ UNCHANGED <<clientVars, kex, owners, slotVars, daemonVars, bus,
                 history, faults>>

\* routeSessionViewerPresenceFrame: the other subscribers hear of it.
ViewerPresence(c) ==
  /\ c \in viewers
  /\ TouchScope(Home[c])
  /\ Receives(subs[Home[c]] \ {c}, Event)
  /\ UNCHANGED <<clientVars, kex, owners, subs, slotVars, daemonVars, bus,
                 takenVars, faults>>

-----------------------------------------------------------------------------
(* The daemon's socket.                                                    *)

\* A daemon's tables of requests and owners are not another's.
Emptied(r) == kex' = [kex EXCEPT ![r] = <<>>] /\ owners' = [owners EXCEPT ![r] = <<>>]

\* registerConnection for a daemon.
DaemonConnect(r, g) ==
  /\ SlotConnect(r, g)
  /\ sessions' = <<>> /\ uplink' = {}
  /\ target' = [target EXCEPT ![r] = TRUE]
  /\ IF Admitted(r, g) THEN Emptied(r) ELSE UNCHANGED <<kex, owners>>
  /\ UNCHANGED <<clientVars, subs, bus, history, faults>>

\* The daemon's socket is lost; its bridge drops the sessions.
DaemonDrops ==
  /\ faults < MaxFaults /\ faults' = faults + 1
  /\ SlotDrop /\ sessions' = <<>> /\ uplink' = {}
  /\ UNCHANGED <<clientVars, tables, bus, history>>

RelayNotices(r) ==
  /\ SlotNotices(r)
  /\ UNCHANGED <<clientVars, tables, daemonVars, bus, history, faults>>

\* The close handler of a daemon's socket: clearDaemon.
DaemonCloseEvent(r, g) ==
  /\ SlotClosed(r, g)
  /\ IF Clears(r, g) THEN Emptied(r) ELSE UNCHANGED <<kex, owners>>
  /\ UNCHANGED <<clientVars, subs, target, daemonVars, bus, history,
                 faults>>

\* pruneStale...: the oldest requests or owners have outlived their time.
Expire(r) ==
  /\ \/ kex[r] # <<>> /\ kex' = [kex EXCEPT ![r] = Tail(@)] /\ UNCHANGED owners
     \/ owners[r] # <<>> /\ owners' = [owners EXCEPT ![r] = Tail(@)] /\ UNCHANGED kex
  /\ UNCHANGED <<clientVars, subs, target, slotVars, daemonVars, bus,
                 history, faults>>

\* pruneEmpty: a scope without connections is forgotten, with its generation.
PruneEmpty(r) ==
  /\ SlotForgotten(r) /\ \A c \in conn : Home[c] # r
  /\ target' = [target EXCEPT ![r] = FALSE] /\ Emptied(r)
  /\ subs' = [subs EXCEPT ![r] = {}]
  /\ UNCHANGED <<clientVars, daemonVars, bus, history, faults>>

Next ==
  \/ \E c \in Clients :
       \/ ClientConnect(c) \/ ClientClose(c) \/ KeyExchange(c)
       \/ ClientEnvelope(c) \/ Subscribe(c) \/ ViewerPresence(c)
  \/ DaemonSends \/ DaemonDrops \/ \E id \in Requests : SessionIdle(id)
  \/ \E f \in uplink : FromDaemon(f)
  \/ \E r \in Relays :
       \/ BusToDaemon(r) \/ BusToClients(r) \/ BusLoses(r) \/ PlatformEvent(r)
       \/ \E g \in Generations : DaemonConnect(r, g) \/ DaemonCloseEvent(r, g)
       \/ RelayNotices(r) \/ Expire(r) \/ PruneEmpty(r)

Spec == Init /\ [][Next]_vars

-----------------------------------------------------------------------------
TypeOK ==
  /\ conn \subseteq Clients /\ asker \in Seq(Clients) /\ Len(asker) <= MaxRequests
  /\ \A r \in Relays :
       /\ kex[r] \in Seq(Entries) /\ Len(kex[r]) <= Track
       /\ owners[r] \in Seq(Entries) /\ Len(owners[r]) <= Track
       /\ bus[r] \in Seq(BusFrames) /\ Len(bus[r]) <= QueueMax
  /\ subs \in [Relays -> SUBSET Clients] /\ target \in [Relays -> BOOLEAN]
  /\ SlotTypeOK /\ {repeated, stray} \subseteq BOOLEAN
  /\ answered \in [Clients -> SUBSET Requests]
  /\ uplink \subseteq DaemonFrames
  /\ Len(sessions) <= MaxSessions
  /\ viewers \subseteq conn

(* A client receives answers and envelopes only of sessions it asked for
   itself, whatever was evicted, expired, closed, moved to another relay or
   carried by the bus in between ("routes daemon runtime envelopes only to
   the session-owning client"). *)
OnlyOwnFrames == ~stray

(* A frame of a session is passed on to the daemon at most once, repeated and
   reordered frames, renewed keys and evicted sessions included. *)
TakenOnce == ~repeated

(* Both: a frame reaches its own client, and is taken at most once. *)
FramesHold == OnlyOwnFrames /\ TakenOnce

(* The answer to a request that came from another relay is put on the bus for
   that relay ("multi-relay using Redis for presence + bus"). *)
RemoteAnswersForwarded ==
  [][\A f \in uplink \ uplink' :
       LET owner == OwnerOf(kex[daemon.at], f.id)
       IN  daemon' = daemon /\ f.type = "response" /\ owner \in Relays =>
             Contains(bus'[owner], [to |-> "clients", frame |-> f])]_vars
=============================================================================
