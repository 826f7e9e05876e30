----------------------------- MODULE RelayProofs -----------------------------
(***************************************************************************)
(* Proofs about the two ends of a daemon's connection to the relay: who    *)
(* has the daemon's slot on a relay, which frames the relays carry between *)
(* the daemon and its clients, and what the daemon's bridge keeps of its   *)
(* sockets.                                                                *)
(***************************************************************************)
EXTENDS MCRelay, FiniteSetTheorems, SequenceTheorems, TLAPS

-----------------------------------------------------------------------------
(* The daemon's slot on a relay *)

(* The daemon has a slot, and what closes an old socket is not about it. *)
DaemonHasSlot ==
  daemon # Offline =>
    /\ daemon.at \in Relays /\ daemon.gen \in Generations
    /\ slot[daemon.at] = daemon.gen
    /\ <<daemon.at, daemon.gen>> \notin closing

(* A token that was used is not there to be used again. *)
TokensUsed ==
  /\ daemon.gen \notin tokens
  /\ \A r \in Relays : slot[r] \notin tokens /\ \A g \in tokens : <<r, g>> \notin closing

SlotInv == SlotTypeOK /\ DaemonHasSlot /\ TokensUsed

(* Where a daemon may be; being connected is not being offline. *)
LEMMA DaemonsMade ==
  /\ Offline \in [at : Relays \cup {None}, gen : 0..MaxTokens] /\ Offline.gen = 0
  /\ \A r \in Relays, g \in Generations :
       /\ [at |-> r, gen |-> g] \in [at : Relays \cup {None}, gen : 0..MaxTokens]
       /\ [at |-> r, gen |-> g] # Offline
  BY SlotsAssumption DEF Offline, Generations

(* Every step of the daemon's sockets and tokens keeps the invariant. *)
LEMMA SlotStep == ASSUME SlotInv, [SlotNext]_slotVars PROVE SlotInv'
<1> USE SlotsAssumption, DaemonsMade DEF SlotInv, SlotTypeOK, DaemonHasSlot, TokensUsed
<1>1. ASSUME NEW r \in Relays, NEW g \in Generations, SlotConnect(r, g) PROVE SlotInv'
  BY <1>1 DEF SlotConnect, Generations
<1>2. ASSUME NEW r \in Relays, NEW g \in Generations, SlotClosed(r, g) PROVE SlotInv'
  BY <1>2 DEF SlotClosed, Clears, Generations
<1>3. ASSUME NEW r \in Relays, SlotNotices(r) PROVE SlotInv'
  BY <1>3 DEF SlotNotices, DaemonOpen, Reaches, Generations
<1>4. ASSUME NEW r \in Relays, SlotForgotten(r) PROVE SlotInv'
  BY <1>4 DEF SlotForgotten
<1>5. CASE SlotDrop
  BY <1>5 DEF SlotDrop, Generations, Offline
<1>6. CASE UNCHANGED slotVars
  BY <1>6 DEF slotVars
<1> QED
  BY <1>1, <1>2, <1>3, <1>4, <1>5, <1>6 DEF SlotNext

(* For any number of relays and tokens, the relay the daemon is connected to
   has its socket in the slot. *)
THEOREM SlotHolds == SlotSpec => []SlotIsDaemons
<1>1. SlotInit => SlotInv
  BY SlotsAssumption, DaemonsMade
  DEF SlotInit, SlotInv, SlotTypeOK, DaemonHasSlot, TokensUsed, Generations, Offline
<1>2. SlotInv => SlotIsDaemons
  BY DEF SlotInv, DaemonHasSlot, SlotIsDaemons
<1>3. SlotInv /\ [SlotNext]_slotVars => SlotInv'
  BY SlotStep
<1> QED
  BY <1>1, <1>2, <1>3, PTL DEF SlotSpec

(* What the relays do with frames, clients and the bus leaves the slots to the
   steps of RelaySlots: RelayRouting implements it. *)
THEOREM RoutingKeepsSlots == Spec => SlotSpec
<1>1. Init => SlotInit
  BY DEF Init
<1>2. [Next]_vars => [SlotNext]_slotVars
  <2> SUFFICES ASSUME [Next]_vars PROVE [SlotNext]_slotVars
    OBVIOUS
  <2> USE DEF SlotNext
  <2>1. ASSUME NEW c \in Clients, \/ ClientConnect(c) \/ ClientClose(c) \/ KeyExchange(c)
               \/ ClientEnvelope(c) \/ Subscribe(c) \/ ViewerPresence(c)
        PROVE UNCHANGED slotVars
    BY <2>1
    DEF ClientConnect, ClientClose, KeyExchange, ClientEnvelope, Subscribe, ViewerPresence,
        clientVars, slotVars
  <2>2. CASE DaemonSends \/ \E id \in Requests : SessionIdle(id)
    BY <2>2 DEF DaemonSends, SessionIdle
  <2>3. CASE DaemonDrops
    BY <2>3 DEF DaemonDrops
  <2>4. CASE \E f \in uplink : FromDaemon(f)
    BY <2>4 DEF FromDaemon
  <2>5. ASSUME NEW r \in Relays, \/ BusToDaemon(r) \/ BusToClients(r) \/ BusLoses(r)
                                 \/ PlatformEvent(r) \/ Expire(r)
        PROVE UNCHANGED slotVars
    BY <2>5 DEF BusToDaemon, BusToClients, BusLoses, PlatformEvent, Expire
  <2>6. ASSUME NEW r \in Relays,
               \/ RelayNotices(r) \/ PruneEmpty(r)
               \/ \E g \in Generations : DaemonConnect(r, g) \/ DaemonCloseEvent(r, g)
        PROVE SlotNext
    BY <2>6 DEF RelayNotices, PruneEmpty, DaemonConnect, DaemonCloseEvent
  <2>7. CASE UNCHANGED vars
    BY <2>7 DEF vars
  <2> QED
    BY <2>1, <2>2, <2>3, <2>4, <2>5, <2>6, <2>7 DEF Next
<1> QED
  BY <1>1, <1>2, PTL DEF Spec, SlotSpec

-----------------------------------------------------------------------------
(* The frames of the relays *)

(* The sessions of the daemon's bridge, the bus and a registry of a relay. *)
SessionRecords ==
  [id : Requests, epoch : Nat, tx : Nat, high : Nat, seen : SUBSET Nat, rotate : BOOLEAN]

Queues == {q \in [Relays -> Seq(BusFrames)] : \A r \in Relays : Len(q[r]) <= QueueMax}
Tables == {t \in [Relays -> Seq(Entries)] : \A r \in Relays : Len(t[r]) <= Track}
Sessions == {s \in Seq(SessionRecords) : Len(s) <= MaxSessions}

(* The variables have their types. *)
RoutingTypes ==
  /\ conn \subseteq Clients /\ viewers \subseteq conn
  /\ asker \in Seq(Clients) /\ Len(asker) <= MaxRequests
  /\ kex \in Tables /\ owners \in Tables /\ bus \in Queues /\ sessions \in Sessions
  /\ subs \in [Relays -> SUBSET Clients] /\ target \in [Relays -> BOOLEAN]
  /\ answered \in [Clients -> SUBSET Requests]
  /\ uplink \subseteq DaemonFrames /\ taken \subseteq Requests \X (1..MaxSeq)

(* An entry that names a client names the one that asked. *)
Asked(entries, askers) ==
  \A i \in DOMAIN entries : entries[i].owner \in Clients =>
    entries[i].id \in DOMAIN askers /\ askers[entries[i].id] = entries[i].owner

TablesHonest ==
  \A r \in Relays :
    /\ Asked(kex[r], asker) /\ Asked(owners[r], asker)
    /\ subs[r] \subseteq {c \in viewers : Home[c] = r}

(* The frame at a place of a queue is the init of this request. *)
IsInit(b, id) == b.to = "daemon" /\ b.frame.type = "init" /\ b.frame.id = id
Inits(queues) ==
  {id \in Requests : \E r \in Relays : \E i \in DOMAIN queues[r] : IsInit(queues[r][i], id)}

(* No request is in the queues twice. *)
InitsOnce(queues) ==
  \A r, s \in Relays, id \in Requests :
    \A i \in DOMAIN queues[r], j \in DOMAIN queues[s] :
      IsInit(queues[r][i], id) /\ IsInit(queues[s][j], id) => r = s /\ i = j

TakenOf == {x[1] : x \in taken}

(* A request is under way once, and before it has a session. *)
Begun ==
  /\ InitsOnce(bus) /\ Inits(bus) \cup SessionIds(sessions) \cup TakenOf \subseteq DOMAIN asker
  /\ Inits(bus) \cap (SessionIds(sessions) \cup TakenOf) = {}

(* What was taken of a session is remembered, or below the window. *)
TakenRemembered ==
  \A i \in DOMAIN sessions, n \in 1..MaxSeq :
    <<sessions[i].id, n>> \in taken => n \in sessions[i].seen \/ n < Lowest(sessions[i].high)

RoutingInv == RoutingTypes /\ TablesHonest /\ ~stray /\ Begun /\ TakenRemembered /\ ~repeated

(* The bounds are numbers. *)
LEMMA BoundsAre ==
  /\ MaxRequests \in Nat /\ MaxSeq \in Nat /\ MaxSends \in Nat /\ Track \in Nat \ {0}
  /\ QueueMax \in Nat \ {0} /\ MaxSessions \in Nat \ {0}
  /\ Window \in Nat \ {0} /\ RotateAfter \in Nat \ {0}
  BY RoutingAssumption, SessionsAssumption

(* The frames the clients and the daemon make are frames, and what they carry. *)
LEMMA FramesMade ==
  /\ \A id \in Requests, prev \in Requests \cup {None} :
       [type |-> "init", id |-> id, prev |-> prev] \in ClientFrames
  /\ \A id \in Requests, n \in 1..MaxSeq :
       [type |-> "envelope", id |-> id, seq |-> n] \in ClientFrames
  /\ \A f \in ClientFrames :
       /\ f.id \in Requests
       /\ f.type = "init" => f.prev \in Requests \cup {None}
       /\ f.type # "init" => f.type = "envelope" /\ f.seq \in 1..MaxSeq
  /\ \A id \in Requests : /\ [type |-> "response", id |-> id] \in DaemonFrames
                           /\ [type |-> "envelope", id |-> id] \in DaemonFrames
  /\ \A f \in DaemonFrames : f.id \in Requests /\ f.type \in {"response", "envelope"}
  /\ Event.type = "event"
  BY DEF ClientFrames, DaemonFrames, Event

(* The same of the frames on the bus. *)
LEMMA BusFramesMade ==
  /\ \A f \in ClientFrames, r \in Relays : [to |-> "daemon", src |-> r, frame |-> f] \in BusFrames
  /\ \A f \in DaemonFrames \cup {Event} : [to |-> "clients", frame |-> f] \in BusFrames
  /\ \A b \in BusFrames :
       /\ b.to = "daemon" => b.src \in Relays /\ b.frame \in ClientFrames
       /\ b.to = "clients" => b.frame \in DaemonFrames \cup {Event}
       /\ b.to \in {"daemon", "clients"}
<1> HIDE DEF ClientFrames, DaemonFrames
<1> QED
  BY DEF BusFrames

(* The same of the entries of a registry. *)
LEMMA EntriesMade ==
  /\ \A id \in Requests, o \in Clients \cup Relays : [id |-> id, owner |-> o] \in Entries
  /\ \A e \in Entries : e.id \in Requests /\ e.owner \in Clients \cup Relays
  BY DEF Entries

(* track: the registry keeps to its capacity, and has the new entry and some
   of the old ones. *)
LEMMA TrackedIs ==
  ASSUME NEW t \in Seq(Entries), Len(t) <= Track, NEW id \in Requests, NEW o \in Clients \cup Relays
  PROVE  /\ Tracked(t, id, o) \in Seq(Entries) /\ Len(Tracked(t, id, o)) <= Track
         /\ \A i \in DOMAIN Tracked(t, id, o) :
              \/ Tracked(t, id, o)[i] = [id |-> id, owner |-> o]
              \/ \E j \in DOMAIN t : Tracked(t, id, o)[i] = t[j]
<1> DEFINE e == [id |-> id, owner |-> o]
           room == IF Len(t) >= Track THEN Tail(t) ELSE t
<1>1. e \in Entries
  BY EntriesMade
<1>2. /\ room \in Seq(Entries) /\ Len(room) < Track
      /\ \A i \in DOMAIN room : \E j \in DOMAIN t : room[i] = t[j]
  <2>1. CASE Len(t) >= Track
    <3>1. t # <<>>
      BY <2>1, BoundsAre
    <3>2. /\ room = Tail(t) /\ Tail(t) \in Seq(Entries) /\ Len(Tail(t)) = Len(t) - 1
          /\ \A i \in 1..Len(Tail(t)) : Tail(t)[i] = t[i + 1]
      BY <2>1, <3>1, HeadTailProperties
    <3> HIDE DEF room
    <3>3. \A i \in 1..Len(Tail(t)) : Tail(t)[i] = t[i + 1] /\ i + 1 \in DOMAIN t
      BY <3>2
    <3>4. \A i \in DOMAIN room : \E j \in DOMAIN t : room[i] = t[j]
      BY <3>2, <3>3
    <3> QED
      BY <2>1, <3>2, <3>4, BoundsAre
  <2>2. CASE ~(Len(t) >= Track)
    BY <2>2, BoundsAre
  <2> QED
    BY <2>1, <2>2
<1> HIDE DEF e, room
<1>3. Tracked(t, id, o) = IF \E i \in DOMAIN room : room[i].id = id
                          THEN [i \in DOMAIN room |-> IF room[i].id = id THEN e ELSE room[i]]
                          ELSE Append(room, e)
  BY DEF Tracked, e, room
<1>4. CASE \E i \in DOMAIN room : room[i].id = id
  <2>1. Tracked(t, id, o) = [i \in 1..Len(room) |-> IF room[i].id = id THEN e ELSE room[i]]
    <3>1. DOMAIN room = 1..Len(room)
      BY <1>2
    <3> QED
      BY <1>3, <1>4, <3>1
  <2> DEFINE q == [i \in 1..Len(room) |-> IF room[i].id = id THEN e ELSE room[i]]
  <2>2. q \in [1..Len(room) -> Entries] /\ Len(room) \in Nat
    BY <1>1, <1>2
  <2>3. q \in Seq(Entries) /\ Len(q) = Len(room)
    BY <2>2
  <2>4. \A i \in 1..Len(room) : q[i] = e \/ q[i] = room[i]
    OBVIOUS
  <2> HIDE DEF q
  <2> QED
    BY SMTT(30), <1>2, <2>1, <2>2, <2>3, <2>4, BoundsAre DEF e, q
<1>5. CASE ~(\E i \in DOMAIN room : room[i].id = id)
  <2>1. Tracked(t, id, o) = Append(room, e)
    BY <1>3, <1>5
  <2>2. /\ Append(room, e) \in Seq(Entries) /\ Len(Append(room, e)) = Len(room) + 1
        /\ \A i \in 1..(Len(room) + 1) :
             Append(room, e)[i] = IF i = Len(room) + 1 THEN e ELSE room[i]
    BY <1>1, <1>2
  <2> QED
    BY <1>2, <2>1, <2>2, BoundsAre DEF e
<1> QED
  BY <1>4, <1>5

(* An owner that is found is that of an entry. *)
LEMMA OwnerOfIs ==
  ASSUME NEW t, NEW id
  PROVE  \/ OwnerOf(t, id) = None
         \/ \E i \in DOMAIN t : t[i].id = id /\ t[i].owner = OwnerOf(t, id)
  BY DEF OwnerOf

(* A frame that is pulled from the bus is not on it any more. *)
LEMMA PulledIs ==
  ASSUME NEW r \in Relays, bus \in Queues, InitsOnce(bus), bus[r] # <<>>
  PROVE  /\ Head(bus[r]) \in BusFrames
         /\ Pulled(r) \in Queues /\ InitsOnce(Pulled(r)) /\ Inits(Pulled(r)) \subseteq Inits(bus)
         /\ \A id \in Requests : IsInit(Head(bus[r]), id) =>
              id \in Inits(bus) /\ id \notin Inits(Pulled(r))
<1> DEFINE q == Pulled(r)
           From(s, i) == IF s = r THEN i + 1 ELSE i
<1>1. bus \in [Relays -> Seq(BusFrames)] /\ \A s \in Relays : Len(bus[s]) <= QueueMax
  BY DEF Queues
<1>2. /\ Head(bus[r]) \in BusFrames /\ Head(bus[r]) = bus[r][1] /\ 1 \in DOMAIN bus[r]
      /\ Tail(bus[r]) \in Seq(BusFrames) /\ Len(Tail(bus[r])) = Len(bus[r]) - 1
      /\ \A i \in 1..Len(Tail(bus[r])) : Tail(bus[r])[i] = bus[r][i + 1]
  <2>1. bus[r] \in Seq(BusFrames)
    BY <1>1
  <2> QED
    BY <2>1, HeadTailProperties, EmptySeq
<1>3. /\ q \in [Relays -> Seq(BusFrames)] /\ q[r] = Tail(bus[r])
      /\ \A s \in Relays \ {r} : q[s] = bus[s]
  BY <1>1, <1>2 DEF Pulled
<1> HIDE DEF q
<1>4. ASSUME NEW s \in Relays, NEW i \in DOMAIN q[s]
      PROVE  From(s, i) \in DOMAIN bus[s] /\ q[s][i] = bus[s][From(s, i)] /\ i \in Nat /\ i >= 1
  <2>1. bus[s] \in Seq(BusFrames) /\ q[s] \in Seq(BusFrames)
    BY <1>1, <1>3
  <2>2. /\ DOMAIN bus[s] = 1..Len(bus[s]) /\ Len(bus[s]) \in Nat
        /\ DOMAIN q[s] = 1..Len(q[s]) /\ Len(q[s]) \in Nat
    BY <2>1
  <2>3. i \in 1..Len(q[s])
    BY <2>2
  <2>4. CASE s = r
    <3>1. i \in 1..Len(Tail(bus[r])) /\ q[s] = Tail(bus[r])
      BY <1>3, <2>3, <2>4
    <3>2. i + 1 \in DOMAIN bus[r] /\ q[s][i] = bus[r][i + 1]
      BY <1>2, <2>2, <2>4, <3>1
    <3> QED
      BY <2>3, <2>2, <2>4, <3>2
  <2>5. CASE s # r
    BY <1>3, <2>2, <2>3, <2>5
  <2> QED
    BY <2>4, <2>5
<1>5. q \in Queues
  <2>1. Len(bus[r]) \in Nat /\ Len(bus[r]) <= QueueMax
    BY <1>1
  <2> QED
    BY SMTT(30), <1>1, <1>2, <1>3, <2>1, BoundsAre DEF Queues
<1>6. InitsOnce(q)
  BY <1>4 DEF InitsOnce
<1>7. Inits(q) \subseteq Inits(bus)
  BY <1>4 DEF Inits
<1>8. \A id \in Requests : IsInit(Head(bus[r]), id) => id \in Inits(bus) /\ id \notin Inits(q)
  <2> SUFFICES ASSUME NEW id \in Requests, IsInit(bus[r][1], id)
               PROVE  id \in Inits(bus) /\ id \notin Inits(q)
    BY <1>2
  <2>1. id \in Inits(bus)
    BY <1>2 DEF Inits
  <2>2. ASSUME NEW s \in Relays, NEW i \in DOMAIN q[s], IsInit(q[s][i], id) PROVE FALSE
    <3>1. s = r /\ From(s, i) = 1
      BY <1>2, <1>4, <2>2 DEF InitsOnce
    <3> QED
      BY <3>1, <1>4
  <2> QED
    BY <2>1, <2>2 DEF Inits
<1> QED
  BY <1>2, <1>5, <1>6, <1>7, <1>8 DEF q

(* A frame that is published is on the bus, within its capacity, and no frame
   but it is new. *)
LEMMA PublishedIs ==
  ASSUME NEW q \in Queues, InitsOnce(q), NEW to \in Relays, NEW b \in BusFrames,
         \A id \in Requests : IsInit(b, id) => id \notin Inits(q)
  PROVE  /\ Published(q, to, b) \in Queues /\ InitsOnce(Published(q, to, b))
         /\ Inits(Published(q, to, b)) \subseteq Inits(q) \cup {id \in Requests : IsInit(b, id)}
<1> DEFINE p == Published(q, to, b)
           a == Append(q[to], b)
<1>1. q \in [Relays -> Seq(BusFrames)] /\ \A s \in Relays : Len(q[s]) <= QueueMax
  BY DEF Queues
<1>2. /\ q[to] \in Seq(BusFrames) /\ Len(q[to]) \in Nat /\ DOMAIN q[to] = 1..Len(q[to])
      /\ a \in Seq(BusFrames) /\ a # <<>> /\ Len(a) = Len(q[to]) + 1
      /\ \A i \in 1..Len(q[to]) : a[i] = q[to][i]
      /\ a[Len(q[to]) + 1] = b
  BY <1>1, AppendProperties
<1>3. /\ Tail(a) \in Seq(BusFrames) /\ Len(Tail(a)) = Len(a) - 1
      /\ \A i \in 1..Len(Tail(a)) : Tail(a)[i] = a[i + 1]
  BY <1>2, HeadTailProperties
<1>4. p = [q EXCEPT ![to] = IF Len(a) > QueueMax THEN Tail(a) ELSE a]
  BY DEF Published
<1> HIDE DEF p, a
<1>5. /\ p \in [Relays -> Seq(BusFrames)] /\ \A s \in Relays \ {to} : p[s] = q[s]
      /\ p[to] = IF Len(a) > QueueMax THEN Tail(a) ELSE a
  BY <1>1, <1>2, <1>3, <1>4
<1>6. PICK d \in {0, 1} : /\ Len(p[to]) = Len(q[to]) + 1 - d /\ Len(p[to]) <= QueueMax
                          /\ p[to][Len(p[to])] = b
                          /\ \A i \in 1..(Len(p[to]) - 1) :
                               i + d \in DOMAIN q[to] /\ p[to][i] = q[to][i + d]
  <2>1. CASE Len(a) > QueueMax
    <3>1. Len(p[to]) = Len(q[to]) + 1 - 1 /\ Len(p[to]) <= QueueMax /\ p[to] = Tail(a)
          /\ Len(q[to]) >= 1
      BY <1>1, <1>2, <1>3, <1>5, <2>1, BoundsAre
    <3>2. p[to][Len(p[to])] = b
      BY <1>2, <1>3, <3>1
    <3>3. \A i \in 1..(Len(p[to]) - 1) : i + 1 \in DOMAIN q[to] /\ p[to][i] = q[to][i + 1]
      BY <1>2, <1>3, <3>1
    <3> QED
      BY <3>1, <3>2, <3>3
  <2>2. CASE ~(Len(a) > QueueMax)
    <3>1. Len(p[to]) = Len(q[to]) + 1 - 0 /\ Len(p[to]) <= QueueMax /\ p[to] = a
      BY <1>1, <1>2, <1>5, <2>2, BoundsAre
    <3>2. p[to][Len(p[to])] = b
      BY <1>2, <3>1
    <3>3. \A i \in 1..(Len(p[to]) - 1) : i + 0 \in DOMAIN q[to] /\ p[to][i] = q[to][i + 0]
      BY <1>2, <3>1
    <3> QED
      BY <3>1, <3>2, <3>3
  <2> QED
    BY <2>1, <2>2
<1>7. p \in Queues
  BY <1>1, <1>5, <1>6 DEF Queues
<1> DEFINE From(s, i) == IF s = to THEN i + d ELSE i
           IsNew(s, i) == s = to /\ i = Len(p[to])
<1>8. \A s \in Relays : DOMAIN p[s] = 1..Len(p[s]) /\ Len(p[s]) \in Nat
  <2> TAKE s \in Relays
  <2>1. p[s] \in Seq(BusFrames)
    BY <1>5
  <2> QED
    BY <2>1
<1>9. ASSUME NEW s \in Relays, NEW i \in DOMAIN p[s]
      PROVE  IF IsNew(s, i) THEN p[s][i] = b
             ELSE From(s, i) \in DOMAIN q[s] /\ p[s][i] = q[s][From(s, i)]
  <2>1. CASE s = to
    <3>1. i \in 1..Len(p[to])
      BY <1>8, <2>1
    <3> QED
      BY <1>6, <1>8, <2>1, <3>1
  <2>2. CASE s # to
    BY <1>5, <2>2
  <2> QED
    BY <2>1, <2>2
<1>10. Inits(p) \subseteq Inits(q) \cup {id \in Requests : IsInit(b, id)}
  BY <1>9 DEF Inits
<1>11. InitsOnce(p)
  <2> SUFFICES ASSUME NEW s1 \in Relays, NEW s2 \in Relays, NEW id \in Requests,
                      NEW i1 \in DOMAIN p[s1], NEW i2 \in DOMAIN p[s2],
                      IsInit(p[s1][i1], id), IsInit(p[s2][i2], id)
               PROVE  s1 = s2 /\ i1 = i2
    BY DEF InitsOnce
  <2>1. CASE IsNew(s1, i1) /\ IsNew(s2, i2)
    BY <2>1
  <2>2. ASSUME NEW s \in Relays, NEW i \in DOMAIN p[s], IsInit(p[s][i], id), ~IsNew(s, i)
        PROVE  id \in Inits(q)
    BY <1>9, <2>2 DEF Inits
  <2>3. CASE IsNew(s1, i1) /\ ~IsNew(s2, i2)
    BY <1>9, <2>2, <2>3
  <2>4. CASE ~IsNew(s1, i1) /\ IsNew(s2, i2)
    BY <1>9, <2>2, <2>4
  <2>5. CASE ~IsNew(s1, i1) /\ ~IsNew(s2, i2)
    <3>1. s1 = s2 /\ From(s1, i1) = From(s2, i2)
      BY <1>9, <2>5 DEF InitsOnce
    <3> QED
      BY <1>8, <3>1
  <2> QED
    BY <2>1, <2>3, <2>4, <2>5
<1> QED
  BY <1>7, <1>10, <1>11 DEF p

(* A new session and one that has sent are sessions; sending leaves what the
   session has received. *)
LEMMA SessionsMade ==
  /\ \A id \in Requests, e \in Nat :
       /\ NewSession(id, e) \in SessionRecords /\ NewSession(id, e).id = id
  /\ \A s \in SessionRecords :
       /\ s.id \in Requests /\ s.epoch \in Nat /\ s.high \in Nat /\ s.seen \in SUBSET Nat
       /\ Sent(s) \in SessionRecords /\ Sent(s).id = s.id
       /\ Sent(s).high = s.high /\ Sent(s).seen = s.seen
<1>1. ASSUME NEW id \in Requests, NEW e \in Nat
      PROVE  NewSession(id, e) \in SessionRecords /\ NewSession(id, e).id = id
  BY DEF SessionRecords, NewSession
<1>2. ASSUME NEW s \in SessionRecords
      PROVE  s.id \in Requests /\ s.epoch \in Nat /\ s.high \in Nat /\ s.seen \in SUBSET Nat
  BY DEF SessionRecords
<1>3. ASSUME NEW s \in SessionRecords
      PROVE  /\ Sent(s) \in SessionRecords /\ Sent(s).id = s.id
             /\ Sent(s).high = s.high /\ Sent(s).seen = s.seen
  <2> DEFINE b == s.rotate \/ s.tx + 1 >= RotateAfter
  <2>1. b \in BOOLEAN
    OBVIOUS
  <2>2. Sent(s) = [s EXCEPT !.tx = @ + 1, !.rotate = b]
    BY DEF Sent
  <2> HIDE DEF b
  <2>3. Sent(s).id = s.id /\ Sent(s).high = s.high /\ Sent(s).seen = s.seen
    BY <2>2 DEF SessionRecords
  <2>4. Sent(s) \in SessionRecords
    <3>1. Sent(s) = [id |-> s.id, epoch |-> s.epoch, tx |-> s.tx + 1, high |-> s.high,
                     seen |-> s.seen, rotate |-> b]
      BY <2>2 DEF SessionRecords
    <3>2. s.tx + 1 \in Nat
      BY DEF SessionRecords
    <3> QED
      BY <2>1, <3>1, <3>2 DEF SessionRecords
  <2> QED
    BY <2>3, <2>4
<1> QED
  BY <1>1, <1>2, <1>3

(* The replay window: a number once taken, or below the window, stays so. *)
LEMMA AcceptedIs ==
  ASSUME NEW s \in SessionRecords, NEW n \in 1..MaxSeq
  PROVE  /\ Accepted(s, n) \in SessionRecords /\ Accepted(s, n).id = s.id
         /\ \A m \in 1..MaxSeq : m = n \/ m \in s.seen \/ m < Lowest(s.high) =>
              m \in Accepted(s, n).seen \/ m < Lowest(Accepted(s, n).high)
<1> DEFINE h == IF n > s.high THEN n ELSE s.high
           a == [s EXCEPT !.high = h, !.seen = {m \in @ \cup {n} : m >= Lowest(h)}]
<1>1. Accepted(s, n) = a
  BY DEF Accepted
<1>2. s.high \in Nat /\ s.seen \in SUBSET Nat /\ n \in Nat /\ h \in Nat /\ h >= s.high
  BY SessionsMade, BoundsAre
<1> HIDE DEF h
<1>3. /\ a \in SessionRecords /\ a.id = s.id /\ a.high = h
      /\ a.seen = {m \in s.seen \cup {n} : m >= Lowest(h)}
  BY <1>2 DEF SessionRecords
<1>4. Lowest(s.high) \in Int /\ Lowest(h) \in Int /\ Lowest(s.high) <= Lowest(h)
  BY <1>2, BoundsAre DEF Lowest
<1> HIDE DEF a
<1>5. ASSUME NEW m \in 1..MaxSeq, m = n \/ m \in s.seen \/ m < Lowest(s.high)
      PROVE  m \in a.seen \/ m < Lowest(a.high)
  BY <1>2, <1>3, <1>4, <1>5, BoundsAre
<1> QED
  BY <1>1, <1>3, <1>5

(* The session with an id is one of the sessions. *)
LEMMA SessionOfIs ==
  ASSUME NEW s, NEW id \in SessionIds(s)
  PROVE  \E i \in DOMAIN s : s[i] = SessionOf(s, id) /\ s[i].id = id
  BY DEF SessionIds, SessionOf

(* Map.delete leaves entries of the map, none with the id. *)
LEMMA WithoutIs ==
  ASSUME NEW S, NEW s \in Seq(S), NEW id
  PROVE  /\ Without(s, id) \in Seq(S) /\ Len(Without(s, id)) <= Len(s)
         /\ \A i \in DOMAIN Without(s, id) :
              \E j \in DOMAIN s : Without(s, id)[i] = s[j] /\ s[j].id # id
<1> DEFINE P == {i \in DOMAIN s : s[i].id # id}
<1>1. P \in SUBSET DOMAIN s /\ \A i \in P : s[i].id # id
  OBVIOUS
<1>2. Without(s, id) = Selected(s, P)
  BY DEF Without
<1> HIDE DEF P
<1> QED
  BY <1>1, <1>2, SelectedIs

(* A key exchange leaves the new session and some of the old ones, within the
   capacity. *)
LEMMA ExchangedIs ==
  ASSUME NEW s \in Sessions, NEW id \in Requests, NEW prev \in Requests \cup {None},
         MayExchange(s, prev, None)
  PROVE  /\ Exchanged(s, id, prev, None) \in Sessions
         /\ \A i \in DOMAIN Exchanged(s, id, prev, None) :
              LET x == Exchanged(s, id, prev, None)[i]
              IN  \/ x.id = id
                  \/ \E j \in DOMAIN s : x = s[j]
<1> DEFINE e == IF prev = None THEN 1 ELSE SessionOf(s, prev).epoch + 1
           a == Append(Without(s, prev), NewSession(id, e))
<1>1. s \in Seq(SessionRecords) /\ Len(s) <= MaxSessions
  BY DEF Sessions
<1>2. e \in Nat
  <2>1. CASE prev = None
    BY <2>1
  <2>2. CASE prev # None
    <3>1. prev \in SessionIds(s)
      BY <2>2 DEF MayExchange
    <3>2. PICK i \in DOMAIN s : s[i] = SessionOf(s, prev)
      BY <3>1, SessionOfIs
    <3>3. s[i] \in SessionRecords
      BY <1>1
    <3> QED
      BY <2>2, <3>2, <3>3, SessionsMade
  <2> QED
    BY <2>1, <2>2
<1>3. Exchanged(s, id, prev, None) = Capped(a)
  BY DEF Exchanged
<1> HIDE DEF e
<1>4. NewSession(id, e) \in SessionRecords /\ NewSession(id, e).id = id
  BY <1>2, SessionsMade
<1>5. /\ Without(s, prev) \in Seq(SessionRecords) /\ Len(Without(s, prev)) <= Len(s)
      /\ \A i \in DOMAIN Without(s, prev) : \E j \in DOMAIN s : Without(s, prev)[i] = s[j]
  BY <1>1, WithoutIs
<1>6. /\ a \in Seq(SessionRecords) /\ Len(a) = Len(Without(s, prev)) + 1
      /\ \A i \in 1..Len(Without(s, prev)) : a[i] = Without(s, prev)[i]
      /\ a[Len(Without(s, prev)) + 1] = NewSession(id, e)
  BY <1>4, <1>5, AppendProperties
<1> HIDE DEF a
<1>7. ASSUME NEW i \in 1..Len(a) PROVE a[i].id = id \/ \E j \in DOMAIN s : a[i] = s[j]
  <2>1. CASE i = Len(Without(s, prev)) + 1
    BY <1>4, <1>6, <2>1
  <2>2. CASE i # Len(Without(s, prev)) + 1
    <3>1. i \in 1..Len(Without(s, prev)) /\ i \in DOMAIN Without(s, prev)
      BY <1>5, <1>6, <2>2
    <3> QED
      BY <1>5, <1>6, <3>1
  <2> QED
    BY <2>1, <2>2
<1>8. CASE Len(a) > MaxSessions
  <2> DEFINE m == Len(a) - MaxSessions + 1
  <2>1. m \in Int /\ Len(a) \in Int /\ m >= 1 /\ m <= Len(a) /\ Len(a) - m + 1 = MaxSessions
    BY <1>6, <1>8, BoundsAre
  <2>2. \A i \in m..Len(a) : a[i] \in SessionRecords
    BY <1>6, <2>1
  <2>3. Capped(a) = SubSeq(a, m, Len(a))
    BY <1>8 DEF Capped
  <2> HIDE DEF m
  <2>4. /\ Capped(a) \in Seq(SessionRecords) /\ Len(Capped(a)) = MaxSessions
        /\ \A i \in 1..MaxSessions : Capped(a)[i] = a[m + i - 1]
    BY <2>1, <2>2, <2>3, SubSeqProperties
  <2>5. \A i \in 1..MaxSessions : m + i - 1 \in 1..Len(a)
    BY <2>1, BoundsAre
  <2>6. DOMAIN Capped(a) = 1..MaxSessions
    BY <2>4
  <2> QED
    BY <1>3, <1>7, <2>4, <2>5, <2>6, BoundsAre DEF Sessions
<1>9. CASE ~(Len(a) > MaxSessions)
  <2>1. Capped(a) = a /\ Len(a) <= MaxSessions /\ DOMAIN a = 1..Len(a)
    BY <1>6, <1>9, BoundsAre DEF Capped
  <2> QED
    BY <1>3, <1>6, <1>7, <2>1 DEF Sessions
<1> QED
  BY <1>8, <1>9

(* What reaches the daemon: no number of a session is taken again, and the
   sessions are old ones and one for the request, if it was that. *)
LEMMA ToDaemonIs ==
  ASSUME RoutingTypes, TakenRemembered, ~repeated, NEW r \in Relays, NEW f \in ClientFrames,
         f.type = "init" => f.id \notin TakenOf, ToDaemon(r, f)
  PROVE  /\ sessions' \in Sessions /\ uplink' \subseteq DaemonFrames
         /\ taken' \subseteq Requests \X (1..MaxSeq) /\ TakenRemembered' /\ ~repeated'
         /\ SessionIds(sessions') \subseteq
              SessionIds(sessions) \cup {id \in {f.id} : f.type = "init"}
         /\ TakenOf' \subseteq TakenOf \cup SessionIds(sessions)
<1> USE DEF RoutingTypes
<1>1. CASE UNCHANGED <<sessions, uplink, takenVars>>
  BY <1>1 DEF takenVars, TakenRemembered, TakenOf
<1>2. CASE f.type = "init" /\ MayExchange(sessions, f.prev, None) /\ DaemonInit(f)
  <2>1. /\ sessions' = Exchanged(sessions, f.id, f.prev, None)
        /\ uplink' = uplink \cup {[type |-> "response", id |-> f.id]}
        /\ taken' = taken /\ repeated' = repeated
    BY <1>2 DEF DaemonInit, takenVars
  <2>2. f.id \in Requests /\ f.prev \in Requests \cup {None}
    BY <1>2, FramesMade
  <2>3. /\ sessions' \in Sessions
        /\ \A i \in DOMAIN sessions' :
             sessions'[i].id = f.id \/ \E j \in DOMAIN sessions : sessions'[i] = sessions[j]
    BY <1>2, <2>1, <2>2, ExchangedIs
  <2>4. TakenRemembered'
    <3> SUFFICES ASSUME NEW i \in DOMAIN sessions', NEW n \in 1..MaxSeq,
                        <<sessions'[i].id, n>> \in taken
                 PROVE  n \in sessions'[i].seen \/ n < Lowest(sessions'[i].high)
      BY <2>1 DEF TakenRemembered
    <3>1. sessions'[i].id # f.id
      BY <1>2 DEF TakenOf
    <3> QED
      BY <2>3, <3>1 DEF TakenRemembered
  <2>5. SessionIds(sessions') \subseteq SessionIds(sessions) \cup {id \in {f.id} : f.type = "init"}
    BY <1>2, <2>3 DEF SessionIds
  <2> QED
    BY <2>1, <2>2, <2>3, <2>4, <2>5, FramesMade DEF TakenOf
<1>3. CASE /\ f.type # "init" /\ f.id \in SessionIds(sessions)
           /\ Accepts(SessionOf(sessions, f.id), f.seq) /\ DaemonEnvelope(f)
  <2>1. /\ sessions' = [i \in DOMAIN sessions |->
                          IF sessions[i].id = f.id THEN Accepted(sessions[i], f.seq)
                          ELSE sessions[i]]
        /\ taken' = taken \cup {<<f.id, f.seq>>}
        /\ repeated' = (repeated \/ <<f.id, f.seq>> \in taken)
        /\ uplink' = uplink
    BY <1>3 DEF DaemonEnvelope
  <2>2. f.id \in Requests /\ f.seq \in 1..MaxSeq
    BY <1>3, FramesMade
  <2>3. sessions \in Seq(SessionRecords) /\ Len(sessions) <= MaxSessions
    BY DEF Sessions
  <2>4. DOMAIN sessions = 1..Len(sessions) /\ Len(sessions) \in Nat
        /\ \A i \in DOMAIN sessions : sessions[i] \in SessionRecords
    BY <2>3
  <2>5. \A i \in DOMAIN sessions :
          /\ sessions'[i] \in SessionRecords /\ sessions'[i].id = sessions[i].id
          /\ IF sessions[i].id = f.id THEN sessions'[i] = Accepted(sessions[i], f.seq)
             ELSE sessions'[i] = sessions[i]
    BY <2>1, <2>2, <2>4, AcceptedIs
  <2>6. sessions' \in Sessions /\ DOMAIN sessions' = DOMAIN sessions
    <3>1. sessions' \in [1..Len(sessions) -> SessionRecords]
      BY <2>1, <2>4, <2>5
    <3>2. sessions' \in Seq(SessionRecords) /\ DOMAIN sessions' = 1..Len(sessions)
      BY <2>4, <3>1
    <3>3. Len(sessions') = Len(sessions)
      BY <2>4, <3>2
    <3> QED
      BY <2>3, <2>4, <3>2, <3>3 DEF Sessions
  <2>7. SessionIds(sessions') = SessionIds(sessions)
    BY <2>5, <2>6 DEF SessionIds
  <2>8. <<f.id, f.seq>> \notin taken
    <3>1. PICK i \in DOMAIN sessions :
            sessions[i] = SessionOf(sessions, f.id) /\ sessions[i].id = f.id
      BY <1>3, SessionOfIs
    <3>2. f.seq \notin sessions[i].seen /\ f.seq >= Lowest(sessions[i].high)
      BY <1>3, <3>1 DEF Accepts
    <3>3. Lowest(sessions[i].high) \in Int /\ f.seq \in Int
      BY <2>2, <2>4, SessionsMade, BoundsAre DEF Lowest
    <3> QED
      BY <2>2, <3>1, <3>2, <3>3 DEF TakenRemembered
  <2>9. TakenRemembered'
    <3> SUFFICES ASSUME NEW i \in DOMAIN sessions, NEW n \in 1..MaxSeq,
                        <<sessions'[i].id, n>> \in taken'
                 PROVE  n \in sessions'[i].seen \/ n < Lowest(sessions'[i].high)
      BY <2>6 DEF TakenRemembered
    <3>1. <<sessions[i].id, n>> \in taken \/ (sessions[i].id = f.id /\ n = f.seq)
      BY <2>1, <2>5
    <3>2. <<sessions[i].id, n>> \in taken => n \in sessions[i].seen \/ n < Lowest(sessions[i].high)
      BY DEF TakenRemembered
    <3> QED
      BY <2>2, <2>4, <2>5, <3>1, <3>2, AcceptedIs
  <2>10. /\ taken' \subseteq Requests \X (1..MaxSeq)
         /\ TakenOf' \subseteq TakenOf \cup SessionIds(sessions)
    BY <1>3, <2>1, <2>2 DEF TakenOf
  <2> QED
    BY <2>1, <2>6, <2>7, <2>8, <2>9, <2>10
<1> QED
  BY <1>1, <1>2, <1>3 DEF ToDaemon, DaemonInit, DaemonEnvelope

(* Part of an honest registry is honest. *)
LEMMA AskedPart ==
  ASSUME NEW s, NEW t, NEW a, Asked(s, a), \A i \in DOMAIN t : \E j \in DOMAIN s : t[i] = s[j]
  PROVE  Asked(t, a)
  BY DEF Asked

(* It stays honest when the entry added names the one that asked. *)
LEMMA AskedTracked ==
  ASSUME NEW a, NEW t \in Seq(Entries), Len(t) <= Track, Asked(t, a),
         NEW id \in Requests, NEW o \in Clients \cup Relays,
         o \in Clients => id \in DOMAIN a /\ a[id] = o
  PROVE  Asked(Tracked(t, id, o), a)
<1> DEFINE q == Tracked(t, id, o)
<1>1. \A i \in DOMAIN q : q[i] = [id |-> id, owner |-> o] \/ \E j \in DOMAIN t : q[i] = t[j]
  BY TrackedIs
<1> HIDE DEF q
<1>2. Asked(q, a)
  BY <1>1 DEF Asked
<1> QED
  BY <1>2 DEF q

(* A frame for clients is not an init. *)
LEMMA NoClientsInit == \A f, id : ~IsInit([to |-> "clients", frame |-> f], id)
  BY DEF IsInit

(* A frame delivered to the client that asked is no stray. *)
LEMMA DeliverIs ==
  ASSUME RoutingTypes, ~stray, NEW r \in Relays, NEW owner, NEW f \in DaemonFrames,
         owner \in Clients => asker[f.id] = owner,
         NEW base \in Queues, InitsOnce(base), Deliver(r, owner, f, base)
  PROVE  /\ bus' \in Queues /\ InitsOnce(bus') /\ Inits(bus') \subseteq Inits(base)
         /\ answered' \in [Clients -> SUBSET Requests] /\ ~stray'
<1> DEFINE b == [to |-> "clients", frame |-> f]
<1>1. CASE owner \in conn
  <2>1. Receives({owner}, f) /\ bus' = base
    BY <1>1 DEF Deliver
  <2>2. owner \in Clients /\ f # Event /\ f.id \in Requests
    BY <1>1, FramesMade DEF RoutingTypes
  <2>3. IsFor(owner, f)
    BY <2>2 DEF IsFor
  <2>4. answered' \in [Clients -> SUBSET Requests]
    BY <2>1, <2>2 DEF Receives, RoutingTypes
  <2>5. ~stray'
    BY <2>1, <2>3 DEF Receives
  <2> QED
    BY <2>1, <2>4, <2>5
<1>2. CASE owner \notin conn
  <2>1. answered' = answered /\ stray' = stray
        /\ bus' = IF owner \in Relays /\ target'[r] THEN Published(base, owner, b) ELSE base
    BY <1>2 DEF Deliver, gotVars
  <2>2. b \in BusFrames /\ \A id : ~IsInit(b, id)
    BY BusFramesMade, NoClientsInit
  <2> HIDE DEF b
  <2>3. CASE owner \in Relays /\ target'[r]
    BY <2>1, <2>2, <2>3, PublishedIs DEF RoutingTypes
  <2>4. CASE ~(owner \in Relays /\ target'[r])
    BY <2>1, <2>4 DEF RoutingTypes
  <2> QED
    BY <2>3, <2>4
<1> QED
  BY <1>1, <1>2

(* No route of a daemon's frame makes a stray, and the registries stay honest. *)
LEMMA RouteIs ==
  ASSUME RoutingTypes, TablesHonest, ~stray, NEW r \in Relays, NEW f \in DaemonFrames \cup {Event},
         NEW base \in Queues, InitsOnce(base), Route(r, f, base),
         UNCHANGED <<clientVars, subs>>
  PROVE  /\ bus' \in Queues /\ InitsOnce(bus') /\ Inits(bus') \subseteq Inits(base)
         /\ kex' \in Tables /\ owners' \in Tables /\ target' \in [Relays -> BOOLEAN]
         /\ answered' \in [Clients -> SUBSET Requests]
         /\ TablesHonest' /\ ~stray'
<1>0. UNCHANGED <<conn, viewers, asker, subs>> /\ kex \in Tables /\ owners \in Tables
      /\ target \in [Relays -> BOOLEAN]
  BY DEF clientVars, RoutingTypes
<1>1. CASE f.type = "response" /\ RouteResponse(r, f, base)
  <2> DEFINE owner == OwnerOf(kex[r], f.id)
  <2>1. f \in DaemonFrames /\ f.id \in Requests
    BY <1>1, FramesMade
  <2>2. target' \in [Relays -> BOOLEAN]
    BY <1>0, <1>1 DEF RouteResponse, TouchScope
  <2>3. CASE owner = None
    <3>1. bus' = base /\ UNCHANGED <<kex, owners, answered, stray>>
      BY <1>1, <2>3 DEF RouteResponse, gotVars
    <3> QED
      BY <1>0, <2>2, <3>1 DEF TablesHonest, RoutingTypes
  <2>4. CASE owner # None
    <3>1. /\ kex' = [kex EXCEPT ![r] = Without(kex[r], f.id)]
          /\ owners' = [owners EXCEPT ![r] = Tracked(owners[r], f.id, owner)]
          /\ Deliver(r, owner, f, base)
      BY <1>1, <2>4 DEF RouteResponse
    <3>2. PICK i \in DOMAIN kex[r] : kex[r][i].id = f.id /\ kex[r][i].owner = owner
      BY <2>4, OwnerOfIs
    <3>3. \A q \in Relays : /\ kex[q] \in Seq(Entries) /\ Len(kex[q]) <= Track
                           /\ owners[q] \in Seq(Entries) /\ Len(owners[q]) <= Track
      BY <1>0 DEF Tables
    <3>4. kex[r][i] \in Entries /\ owner \in Clients \cup Relays
      BY <3>2, <3>3, EntriesMade
    <3>5. owner \in Clients => f.id \in DOMAIN asker /\ asker[f.id] = owner
      BY <3>2 DEF TablesHonest, Asked
    <3> HIDE DEF owner
    <3>6. /\ Tracked(owners[r], f.id, owner) \in Seq(Entries)
          /\ Len(Tracked(owners[r], f.id, owner)) <= Track
          /\ Asked(Tracked(owners[r], f.id, owner), asker)
      BY <2>1, <3>3, <3>4, <3>5, TrackedIs, AskedTracked DEF TablesHonest
    <3>7. /\ Without(kex[r], f.id) \in Seq(Entries) /\ Len(Without(kex[r], f.id)) <= Track
          /\ Asked(Without(kex[r], f.id), asker)
      <4>1. /\ Without(kex[r], f.id) \in Seq(Entries) /\ Len(Without(kex[r], f.id)) <= Len(kex[r])
            /\ \A k \in DOMAIN Without(kex[r], f.id) :
                 \E j \in DOMAIN kex[r] : Without(kex[r], f.id)[k] = kex[r][j]
        BY <3>3, WithoutIs
      <4>2. Len(Without(kex[r], f.id)) \in Nat /\ Len(kex[r]) \in Nat
        BY <3>3, <4>1
      <4> QED
        BY <3>3, <4>1, <4>2, AskedPart, BoundsAre DEF TablesHonest
    <3>8. /\ kex' \in Tables /\ kex'[r] = Without(kex[r], f.id)
          /\ owners' \in Tables /\ owners'[r] = Tracked(owners[r], f.id, owner)
          /\ \A q \in Relays \ {r} : kex'[q] = kex[q] /\ owners'[q] = owners[q]
      <4>1. /\ kex' \in Tables /\ kex'[r] = Without(kex[r], f.id)
            /\ \A q \in Relays \ {r} : kex'[q] = kex[q]
        BY <1>0, <3>1, <3>7 DEF Tables
      <4>2. /\ owners' \in Tables /\ owners'[r] = Tracked(owners[r], f.id, owner)
            /\ \A q \in Relays \ {r} : owners'[q] = owners[q]
        BY <1>0, <3>1, <3>6 DEF Tables
      <4> QED
        BY <4>1, <4>2
    <3>9. TablesHonest'
      BY <1>0, <3>6, <3>7, <3>8 DEF TablesHonest
    <3> QED
      BY <2>1, <2>2, <3>1, <3>5, <3>8, <3>9, DeliverIs
  <2> QED
    BY <2>3, <2>4
<1>2. CASE f.type = "envelope" /\ RouteSession(r, f, base)
  <2>1. f \in DaemonFrames /\ f.id \in Requests
    BY <1>2, FramesMade
  <2>2. /\ target' \in [Relays -> BOOLEAN] /\ UNCHANGED <<kex, owners>>
        /\ Deliver(r, OwnerOf(owners[r], f.id), f, base)
    BY <1>0, <1>2 DEF RouteSession, TouchScope
  <2>3. OwnerOf(owners[r], f.id) \in Clients => asker[f.id] = OwnerOf(owners[r], f.id)
    BY OwnerOfIs, RoutingAssumption DEF TablesHonest, Asked
  <2> QED
    BY <1>0, <2>1, <2>2, <2>3, DeliverIs DEF TablesHonest
<1>3. CASE f.type \notin {"response", "envelope"} /\ RouteEvent(r, base)
  <2>1. /\ target' \in [Relays -> BOOLEAN] /\ UNCHANGED <<kex, owners>> /\ bus' = base
        /\ Receives(subs[r], Event)
    BY <1>0, <1>3 DEF RouteEvent, TouchScope
  <2>2. \A c \in subs[r] : IsFor(c, Event)
    BY DEF TablesHonest, IsFor
  <2>3. ~stray' /\ answered' \in [Clients -> SUBSET Requests]
    BY <2>1, <2>2, FramesMade DEF Receives, RoutingTypes
  <2> QED
    BY <1>0, <2>1, <2>3 DEF TablesHonest
<1> QED
  BY <1>1, <1>2, <1>3, FramesMade DEF Route

(* A client's frame, sent to the daemon or over the bus. *)
LEMMA FromClientIs ==
  ASSUME RoutingInv, NEW r \in Relays, NEW f \in ClientFrames, FromClient(r, f),
         f.type = "init" => f.id \notin TakenOf \cup Inits(bus)
  PROVE  /\ sessions' \in Sessions /\ uplink' \subseteq DaemonFrames
         /\ taken' \subseteq Requests \X (1..MaxSeq) /\ TakenRemembered' /\ ~repeated'
         /\ SessionIds(sessions') \subseteq
              SessionIds(sessions) \cup {id \in {f.id} : f.type = "init"}
         /\ TakenOf' \subseteq TakenOf \cup SessionIds(sessions)
         /\ bus' \in Queues /\ InitsOnce(bus')
         /\ Inits(bus') \subseteq Inits(bus) \cup {id \in {f.id} : f.type = "init"}
         /\ bus' = bus \/ UNCHANGED <<sessions, taken>>
<1> USE DEF RoutingInv
<1>1. CASE DaemonOpen(r)
  <2>1. ToDaemon(r, f) /\ bus' = bus
    BY <1>1 DEF FromClient
  <2> QED
    BY <2>1, ToDaemonIs DEF RoutingTypes, Begun
<1>2. CASE ~DaemonOpen(r)
  <2>1. PICK to \in {None} \cup {s \in Relays : latest[s] # 0} :
          bus' = IF to \in Relays \ {r}
                 THEN Published(bus, to, [to |-> "daemon", src |-> r, frame |-> f]) ELSE bus
    BY <1>2 DEF FromClient
  <2>2. UNCHANGED <<sessions, uplink, taken, repeated>>
    BY <1>2 DEF FromClient, takenVars
  <2> DEFINE b == [to |-> "daemon", src |-> r, frame |-> f]
  <2>3. b \in BusFrames /\ \A id \in Requests : IsInit(b, id) => f.type = "init" /\ f.id = id
    BY BusFramesMade DEF IsInit
  <2> HIDE DEF b
  <2>4. /\ bus' \in Queues /\ InitsOnce(bus')
        /\ Inits(bus') \subseteq Inits(bus) \cup {id \in {f.id} : f.type = "init"}
    <3>1. CASE to \in Relays \ {r}
      <4>1. bus' = Published(bus, to, b) /\ to \in Relays
        BY <2>1, <3>1 DEF b
      <4>2. \A id \in Requests : IsInit(b, id) => id \notin Inits(bus)
        BY <2>3
      <4> QED
        BY <2>3, <4>1, <4>2, PublishedIs DEF RoutingTypes, Begun
    <3>2. CASE to \notin Relays \ {r}
      BY <2>1, <3>2 DEF RoutingTypes, Begun
    <3> QED
      BY <3>1, <3>2
  <2>5. TakenRemembered' /\ TakenOf' = TakenOf
    BY <2>2 DEF TakenRemembered, TakenOf
  <2> QED
    BY <2>2, <2>4, <2>5 DEF RoutingTypes
<1> QED
  BY <1>1, <1>2

(* The steps of Next, one by one.  A client begins a key exchange: *)
LEMMA KeyExchangeStep ==
  ASSUME RoutingInv, NEW c \in Clients, KeyExchange(c)
  PROVE  RoutingInv'
<1> USE DEF RoutingInv
<1> DEFINE id == Len(asker) + 1
           h == Home[c]
<1>1. /\ Len(asker) < MaxRequests /\ asker' = Append(asker, c) /\ c \in conn
      /\ kex' = [kex EXCEPT ![h] = Tracked(kex[h], Len(asker'), c)]
      /\ UNCHANGED <<conn, viewers, owners, subs, target, answered, stray>>
  BY DEF KeyExchange, gotVars
<1>2. PICK prev \in answered[c] \cup {None} :
        FromClient(h, [type |-> "init", id |-> Len(asker'), prev |-> prev])
  BY DEF KeyExchange
<1>3. asker \in Seq(Clients) /\ Len(asker) \in Nat /\ DOMAIN asker = 1..Len(asker)
  BY DEF RoutingTypes
<1>4. /\ asker' \in Seq(Clients) /\ Len(asker') = id /\ DOMAIN asker' = 1..id
      /\ asker'[id] = c /\ \A i \in 1..Len(asker) : asker'[i] = asker[i]
  BY <1>1, <1>3, AppendProperties
<1>5. id \in Requests /\ id \notin DOMAIN asker /\ id \in DOMAIN asker' /\ id <= MaxRequests
      /\ DOMAIN asker \subseteq DOMAIN asker'
  BY <1>1, <1>3, <1>4, BoundsAre DEF Requests
<1>6. h \in Relays /\ prev \in Requests \cup {None}
  BY RoutingAssumption DEF RoutingTypes
<1> DEFINE f == [type |-> "init", id |-> id, prev |-> prev]
<1>7. f \in ClientFrames /\ f.type = "init" /\ f.id = id /\ FromClient(h, f)
  BY <1>2, <1>4, <1>5, <1>6, FramesMade
<1> HIDE DEF f
<1>8. id \notin Inits(bus) \cup SessionIds(sessions) \cup TakenOf
  BY <1>5 DEF Begun
<1> HIDE DEF id, h
<1>9. /\ sessions' \in Sessions /\ uplink' \subseteq DaemonFrames
      /\ taken' \subseteq Requests \X (1..MaxSeq) /\ TakenRemembered' /\ ~repeated'
      /\ SessionIds(sessions') \subseteq SessionIds(sessions) \cup {id}
      /\ TakenOf' \subseteq TakenOf \cup SessionIds(sessions)
      /\ bus' \in Queues /\ InitsOnce(bus') /\ Inits(bus') \subseteq Inits(bus) \cup {id}
      /\ bus' = bus \/ UNCHANGED <<sessions, taken>>
  BY <1>6, <1>7, <1>8, FromClientIs
<1>10. Begun'
  <2>1. UNCHANGED taken => TakenOf' = TakenOf
    BY DEF TakenOf
  <2>2. id \notin TakenOf'
    BY <1>8, <1>9
  <2>3. UNCHANGED sessions => SessionIds(sessions') = SessionIds(sessions)
    OBVIOUS
  <2>4. UNCHANGED bus => Inits(bus') = Inits(bus)
    OBVIOUS
  <2> HIDE DEF RoutingInv
  <2>5. Inits(bus') \cap (SessionIds(sessions') \cup TakenOf') = {}
    BY <1>8, <1>9, <2>1, <2>2, <2>3, <2>4 DEF Begun, RoutingInv
  <2> QED
    BY <1>5, <1>9, <2>5 DEF Begun, RoutingInv
<1>11. /\ kex' \in Tables /\ TablesHonest'
  <2> DEFINE w == Tracked(kex[h], id, c)
  <2>1. kex[h] \in Seq(Entries) /\ Len(kex[h]) <= Track
    BY <1>6 DEF RoutingTypes, Tables
  <2>2. \A t : Asked(t, asker) => Asked(t, asker')
    BY <1>3, <1>4, <1>5 DEF Asked
  <2>3. w \in Seq(Entries) /\ Len(w) <= Track /\ Asked(w, asker')
    BY <1>4, <1>5, <1>6, <2>1, <2>2, TrackedIs, AskedTracked DEF TablesHonest
  <2>4. kex' = [kex EXCEPT ![h] = w]
    BY <1>1, <1>4
  <2> HIDE DEF w
  <2>5. kex' \in Tables /\ kex'[h] = w /\ \A q \in Relays \ {h} : kex'[q] = kex[q]
    BY <1>6, <2>3, <2>4 DEF RoutingTypes, Tables
  <2> QED
    BY <1>1, <2>2, <2>3, <2>5 DEF TablesHonest
<1>12. RoutingTypes'
  BY <1>1, <1>4, <1>5, <1>9, <1>11 DEF RoutingTypes
<1> QED
  BY <1>1, <1>9, <1>10, <1>11, <1>12

(* A registry of which only a part stays is within its capacity and honest. *)
LEMMA TablePart ==
  ASSUME NEW t \in Tables, NEW r \in Relays, NEW a, \A q \in Relays : Asked(t[q], a),
         NEW w \in Seq(Entries), Len(w) <= Len(t[r]),
         \A i \in DOMAIN w : \E j \in DOMAIN t[r] : w[i] = t[r][j]
  PROVE  /\ [t EXCEPT ![r] = w] \in Tables
         /\ \A q \in Relays : Asked([t EXCEPT ![r] = w][q], a)
<1>1. t \in [Relays -> Seq(Entries)] /\ \A q \in Relays : Len(t[q]) <= Track
  BY DEF Tables
<1>2. Asked(w, a)
  BY AskedPart
<1>3. Len(w) \in Nat /\ Len(t[r]) \in Nat /\ Len(w) <= Track
  BY <1>1, BoundsAre
<1> QED
  BY <1>1, <1>2, <1>3 DEF Tables

(* Such as an empty one, ... *)
LEMMA EmptiedIs ==
  ASSUME NEW t \in Tables, NEW r \in Relays, NEW a, \A q \in Relays : Asked(t[q], a)
  PROVE  /\ [t EXCEPT ![r] = <<>>] \in Tables
         /\ \A q \in Relays : Asked([t EXCEPT ![r] = <<>>][q], a)
<1> DEFINE w == <<>>
<1>1. w \in Seq(Entries) /\ Len(w) = 0 /\ DOMAIN w = {}
  OBVIOUS
<1>2. t[r] \in Seq(Entries)
  BY DEF Tables
<1>3. Len(t[r]) \in Nat
  BY <1>2
<1> HIDE DEF w
<1>4. Len(w) <= Len(t[r])
  BY <1>1, <1>3
<1>5. \A i \in DOMAIN w : \E j \in DOMAIN t[r] : w[i] = t[r][j]
  BY <1>1
<1>6. /\ [t EXCEPT ![r] = w] \in Tables
      /\ \A q \in Relays : Asked([t EXCEPT ![r] = w][q], a)
  BY <1>1, <1>4, <1>5, TablePart
<1> QED
  BY <1>6 DEF w

(* ... one that a client is removed from, ... *)
LEMMA WithoutOwnerIs ==
  ASSUME NEW t \in Tables, NEW r \in Relays, NEW a, \A q \in Relays : Asked(t[q], a), NEW c
  PROVE  /\ [t EXCEPT ![r] = WithoutOwner(t[r], c)] \in Tables
         /\ \A q \in Relays : Asked([t EXCEPT ![r] = WithoutOwner(t[r], c)][q], a)
<1> DEFINE P == {i \in DOMAIN t[r] : t[r][i].owner # c}
           w == WithoutOwner(t[r], c)
<1>1. t[r] \in Seq(Entries) /\ P \in SUBSET DOMAIN t[r] /\ w = Selected(t[r], P)
  BY DEF Tables, WithoutOwner
<1> HIDE DEF P, w
<1>2. /\ w \in Seq(Entries) /\ Len(w) <= Len(t[r])
      /\ \A i \in DOMAIN w : \E j \in DOMAIN t[r] : w[i] = t[r][j]
  BY <1>1, SelectedIs
<1>3. /\ [t EXCEPT ![r] = w] \in Tables
      /\ \A q \in Relays : Asked([t EXCEPT ![r] = w][q], a)
  BY <1>2, TablePart
<1> QED
  BY <1>3 DEF w

(* ... and one whose oldest entry expires. *)
LEMMA OldestGone ==
  ASSUME NEW t \in Tables, NEW r \in Relays, NEW a, \A q \in Relays : Asked(t[q], a), t[r] # <<>>
  PROVE  /\ [t EXCEPT ![r] = Tail(t[r])] \in Tables
         /\ \A q \in Relays : Asked([t EXCEPT ![r] = Tail(t[r])][q], a)
<1> DEFINE w == Tail(t[r])
<1>1. t[r] \in Seq(Entries)
  BY DEF Tables
<1>2. /\ w \in Seq(Entries) /\ Len(w) = Len(t[r]) - 1
      /\ \A i \in 1..Len(w) : w[i] = t[r][i + 1]
  BY <1>1, HeadTailProperties
<1> HIDE DEF w
<1>3. DOMAIN w = 1..Len(w) /\ Len(w) \in Nat /\ DOMAIN t[r] = 1..Len(t[r]) /\ Len(t[r]) \in Nat
  BY <1>1, <1>2
<1>4. \A i \in 1..Len(w) : i + 1 \in 1..Len(t[r])
  BY <1>2, <1>3
<1>5. Len(w) <= Len(t[r])
  BY <1>2, <1>3
<1>6. \A i \in DOMAIN w : \E j \in DOMAIN t[r] : w[i] = t[r][j]
  BY <1>2, <1>3, <1>4
<1>7. /\ [t EXCEPT ![r] = w] \in Tables
      /\ \A q \in Relays : Asked([t EXCEPT ![r] = w][q], a)
  BY <1>2, <1>5, <1>6, TablePart
<1> QED
  BY <1>7 DEF w

(* A client connects, closes, subscribes, or its presence is told: *)
LEMMA ClientsStep ==
  ASSUME RoutingInv, NEW c \in Clients,
         ClientConnect(c) \/ ClientClose(c) \/ Subscribe(c) \/ ViewerPresence(c)
  PROVE  RoutingInv'
<1>0. Home[c] \in Relays
  BY RoutingAssumption
<1>1. UNCHANGED <<asker, sessions, uplink, bus, taken, repeated>>
  BY DEF ClientConnect, ClientClose, Subscribe, ViewerPresence, clientVars, daemonVars,
         history, takenVars
<1>2. Begun' /\ TakenRemembered' /\ ~repeated'
  BY <1>1 DEF RoutingInv, Begun, TakenRemembered, TakenOf
<1>3. CASE ClientConnect(c)
  <2>1. /\ conn' = conn \cup {c} /\ viewers' \in {viewers, viewers \cup {c}}
        /\ target' = [target EXCEPT ![Home[c]] = TRUE]
        /\ UNCHANGED <<kex, owners, subs, answered, stray>>
    BY <1>3 DEF ClientConnect, history, gotVars
  <2>2. RoutingTypes'
    BY <1>0, <1>1, <2>1 DEF RoutingInv, RoutingTypes
  <2>3. TablesHonest' /\ ~stray'
    BY <1>1, <2>1 DEF RoutingInv, TablesHonest
  <2> QED
    BY <1>2, <2>2, <2>3 DEF RoutingInv
<1>4. CASE ClientClose(c)
  <2> DEFINE h == Home[c]
  <2>1. /\ conn' = conn \ {c} /\ viewers' = viewers \ {c}
        /\ subs' = [subs EXCEPT ![h] = subs[h] \ {c}]
        /\ kex' = [kex EXCEPT ![h] = WithoutOwner(kex[h], c)]
        /\ owners' = [owners EXCEPT ![h] = WithoutOwner(owners[h], c)]
        /\ UNCHANGED <<target, answered, stray>>
    BY <1>4 DEF ClientClose, history, gotVars
  <2>2. kex' \in Tables /\ \A q \in Relays : Asked(kex'[q], asker)
    BY <1>0, <2>1, WithoutOwnerIs DEF RoutingInv, RoutingTypes, TablesHonest
  <2>3. owners' \in Tables /\ \A q \in Relays : Asked(owners'[q], asker)
    BY <1>0, <2>1, WithoutOwnerIs DEF RoutingInv, RoutingTypes, TablesHonest
  <2>4. /\ subs' \in [Relays -> SUBSET Clients]
        /\ \A r \in Relays : subs'[r] \subseteq {x \in viewers' : Home[x] = r}
    BY <1>0, <2>1 DEF RoutingInv, RoutingTypes, TablesHonest
  <2>5. RoutingTypes'
    BY <1>1, <2>1, <2>2, <2>3, <2>4 DEF RoutingInv, RoutingTypes
  <2>6. TablesHonest' /\ ~stray'
    BY <1>1, <2>1, <2>2, <2>3, <2>4 DEF RoutingInv, TablesHonest
  <2> QED
    BY <1>2, <2>5, <2>6 DEF RoutingInv
<1>5. CASE Subscribe(c)
  <2>1. PICK on \in BOOLEAN :
          subs' = [subs EXCEPT ![Home[c]] = IF on THEN subs[Home[c]] \cup {c}
                                            ELSE subs[Home[c]] \ {c}]
    BY <1>5 DEF Subscribe
  <2>2. /\ c \in viewers /\ target' = [target EXCEPT ![Home[c]] = FALSE]
        /\ UNCHANGED <<conn, viewers, kex, owners, answered, stray>>
    BY <1>5 DEF Subscribe, TouchScope, history, gotVars, clientVars
  <2>3. /\ subs' \in [Relays -> SUBSET Clients]
        /\ \A r \in Relays : subs'[r] \subseteq {x \in viewers' : Home[x] = r}
    BY <1>0, <2>1, <2>2 DEF RoutingInv, RoutingTypes, TablesHonest
  <2>4. RoutingTypes'
    BY <1>0, <1>1, <2>2, <2>3 DEF RoutingInv, RoutingTypes
  <2>5. TablesHonest' /\ ~stray'
    BY <1>1, <2>2, <2>3 DEF RoutingInv, TablesHonest
  <2> QED
    BY <1>2, <2>4, <2>5 DEF RoutingInv
<1>6. CASE ViewerPresence(c)
  <2>1. /\ target' = [target EXCEPT ![Home[c]] = FALSE]
        /\ Receives(subs[Home[c]] \ {c}, Event)
        /\ UNCHANGED <<conn, viewers, kex, owners, subs>>
    BY <1>6 DEF ViewerPresence, TouchScope, clientVars
  <2>2. \A x \in subs[Home[c]] : IsFor(x, Event)
    BY <1>0 DEF RoutingInv, TablesHonest, IsFor
  <2>3. ~stray' /\ answered' \in [Clients -> SUBSET Requests]
    BY <2>1, <2>2, FramesMade DEF Receives, RoutingInv, RoutingTypes
  <2>4. RoutingTypes'
    BY <1>0, <1>1, <2>1, <2>3 DEF RoutingInv, RoutingTypes
  <2>5. TablesHonest'
    BY <1>1, <2>1 DEF RoutingInv, TablesHonest
  <2> QED
    BY <1>2, <2>3, <2>4, <2>5 DEF RoutingInv
<1> QED
  BY <1>3, <1>4, <1>5, <1>6

(* A client sends an envelope, a repeated one included: *)
LEMMA ClientEnvelopeStep ==
  ASSUME RoutingInv, NEW c \in Clients, ClientEnvelope(c)
  PROVE  RoutingInv'
<1>1. PICK id \in answered[c], n \in 1..MaxSeq :
        FromClient(Home[c], [type |-> "envelope", id |-> id, seq |-> n])
  BY DEF ClientEnvelope
<1> DEFINE f == [type |-> "envelope", id |-> id, seq |-> n]
<1>2. id \in Requests /\ Home[c] \in Relays
  BY RoutingAssumption DEF RoutingInv, RoutingTypes
<1>3. f \in ClientFrames /\ f.type # "init" /\ FromClient(Home[c], f)
  BY <1>1, <1>2, FramesMade
<1> HIDE DEF f
<1>4. /\ sessions' \in Sessions /\ uplink' \subseteq DaemonFrames
      /\ taken' \subseteq Requests \X (1..MaxSeq) /\ TakenRemembered' /\ ~repeated'
      /\ SessionIds(sessions') \subseteq SessionIds(sessions)
      /\ TakenOf' \subseteq TakenOf \cup SessionIds(sessions)
      /\ bus' \in Queues /\ InitsOnce(bus') /\ Inits(bus') \subseteq Inits(bus)
  BY <1>2, <1>3, FromClientIs
<1>5. UNCHANGED <<conn, viewers, asker, kex, owners, subs, target, answered, stray>>
  BY DEF ClientEnvelope, clientVars, tables, gotVars
<1>6. RoutingTypes'
  BY <1>4, <1>5 DEF RoutingInv, RoutingTypes
<1>7. TablesHonest' /\ ~stray'
  BY <1>5 DEF RoutingInv, TablesHonest
<1>8. Begun'
  BY <1>4, <1>5 DEF RoutingInv, Begun
<1> QED
  BY <1>4, <1>6, <1>7, <1>8 DEF RoutingInv

(* Sessions that go, or only send, take nothing again. *)
LEMMA FewerSessions ==
  ASSUME RoutingInv, sessions' \in Sessions,
         \A i \in DOMAIN sessions' : \E j \in DOMAIN sessions :
           /\ sessions'[i].id = sessions[j].id /\ sessions'[i].seen = sessions[j].seen
           /\ sessions'[i].high = sessions[j].high,
         UNCHANGED <<asker, bus, taken, repeated>>
  PROVE  Begun' /\ TakenRemembered' /\ ~repeated'
<1>1. SessionIds(sessions') \subseteq SessionIds(sessions) /\ TakenOf' = TakenOf
  BY DEF SessionIds, TakenOf
<1>2. Begun'
  BY <1>1 DEF RoutingInv, Begun
<1>3. TakenRemembered'
  BY DEF RoutingInv, TakenRemembered
<1> QED
  BY <1>2, <1>3 DEF RoutingInv

(* The daemon sends to its sessions, drops them, or one has been idle: *)
LEMMA SessionsStep ==
  ASSUME RoutingInv, DaemonSends \/ DaemonDrops \/ \E id \in Requests : SessionIdle(id)
  PROVE  RoutingInv'
<1>0. /\ sessions \in Seq(SessionRecords) /\ Len(sessions) <= MaxSessions
      /\ DOMAIN sessions = 1..Len(sessions) /\ Len(sessions) \in Nat
  BY DEF RoutingInv, RoutingTypes, Sessions
<1>1. /\ UNCHANGED <<conn, viewers, asker, kex, owners, subs, target, bus>>
      /\ UNCHANGED <<answered, stray, taken, repeated>>
  BY DEF DaemonSends, DaemonDrops, SessionIdle, clientVars, tables, history, gotVars, takenVars
<1>2. CASE DaemonSends
  <2>1. /\ sessions' = [i \in DOMAIN sessions |-> Sent(sessions[i])]
        /\ uplink' = uplink \cup {[type |-> "envelope", id |-> id] : id \in SessionIds(sessions)}
    BY <1>2 DEF DaemonSends
  <2>2. \A i \in DOMAIN sessions :
          /\ sessions'[i] \in SessionRecords /\ sessions'[i].id = sessions[i].id
          /\ sessions'[i].seen = sessions[i].seen /\ sessions'[i].high = sessions[i].high
    BY <1>0, <2>1, SessionsMade
  <2>3. sessions' \in [1..Len(sessions) -> SessionRecords]
    BY <1>0, <2>1, <2>2
  <2>4. sessions' \in Seq(SessionRecords) /\ DOMAIN sessions' = 1..Len(sessions)
    BY <1>0, <2>3
  <2>5. Len(sessions') = Len(sessions)
    BY <1>0, <2>4
  <2>6. sessions' \in Sessions
    BY <1>0, <2>4, <2>5 DEF Sessions
  <2>7. \A id \in SessionIds(sessions) : [type |-> "envelope", id |-> id] \in DaemonFrames
    <3>1. \A i \in DOMAIN sessions : sessions[i].id \in Requests
      BY <1>0, SessionsMade
    <3>2. SessionIds(sessions) \subseteq Requests
      BY <3>1 DEF SessionIds
    <3> QED
      BY <3>2, FramesMade
  <2>8. uplink' \subseteq DaemonFrames
    BY <2>1, <2>7 DEF RoutingInv, RoutingTypes
  <2> QED
    BY <1>0, <1>1, <2>2, <2>4, <2>6, <2>8, FewerSessions DEF RoutingInv, RoutingTypes, TablesHonest
<1>3. CASE DaemonDrops
  <2>1. sessions' = <<>> /\ uplink' = {}
    BY <1>3 DEF DaemonDrops
  <2>2. sessions' \in Sessions /\ DOMAIN sessions' = {}
    BY <2>1, BoundsAre DEF Sessions
  <2> QED
    BY <1>1, <2>1, <2>2, FewerSessions DEF RoutingInv, RoutingTypes, TablesHonest
<1>4. ASSUME NEW id \in Requests, SessionIdle(id) PROVE RoutingInv'
  <2>1. sessions' = Without(sessions, id) /\ uplink' = uplink
    BY <1>4 DEF SessionIdle
  <2>2. /\ sessions' \in Seq(SessionRecords) /\ Len(sessions') <= Len(sessions)
        /\ \A i \in DOMAIN sessions' : \E j \in DOMAIN sessions : sessions'[i] = sessions[j]
    BY <1>0, <2>1, WithoutIs
  <2>3. sessions' \in Sessions
    BY <1>0, <2>2, BoundsAre DEF Sessions
  <2> QED
    BY <1>1, <2>1, <2>2, <2>3, FewerSessions DEF RoutingInv, RoutingTypes, TablesHonest
<1> QED
  BY <1>2, <1>3, <1>4

(* A relay routes a frame of the daemon: *)
LEMMA FromDaemonStep ==
  ASSUME RoutingInv, daemon # Offline => daemon.at \in Relays,
         NEW f \in uplink, FromDaemon(f)
  PROVE  RoutingInv'
<1>1. /\ daemon # Offline /\ uplink' = uplink \ {f} /\ Route(daemon.at, f, bus)
      /\ UNCHANGED <<clientVars, subs>>
      /\ UNCHANGED <<conn, viewers, asker, sessions, taken, repeated>>
  BY DEF FromDaemon, clientVars, takenVars
<1>2. f \in DaemonFrames \cup {Event} /\ bus \in Queues /\ InitsOnce(bus)
  BY DEF RoutingInv, RoutingTypes, Begun
<1>3. daemon.at \in Relays
  BY <1>1
<1>4. /\ bus' \in Queues /\ InitsOnce(bus') /\ Inits(bus') \subseteq Inits(bus)
      /\ kex' \in Tables /\ owners' \in Tables /\ target' \in [Relays -> BOOLEAN]
      /\ answered' \in [Clients -> SUBSET Requests]
      /\ TablesHonest' /\ ~stray'
  BY <1>1, <1>2, <1>3, RouteIs DEF RoutingInv
<1>5. RoutingTypes'
  BY <1>1, <1>4 DEF RoutingInv, RoutingTypes
<1>6. Begun' /\ TakenRemembered' /\ ~repeated'
  BY <1>1, <1>4 DEF RoutingInv, Begun, TakenRemembered, TakenOf
<1> QED
  BY <1>4, <1>5, <1>6 DEF RoutingInv

(* A relay pulls a frame for the daemon: *)
LEMMA BusToDaemonStep ==
  ASSUME RoutingInv, NEW r \in Relays, BusToDaemon(r)
  PROVE  RoutingInv'
<1> DEFINE b == Head(bus[r])
<1>1. /\ bus[r] # <<>> /\ b.to = "daemon" /\ bus' = Pulled(r)
      /\ target' = [target EXCEPT ![r] = TRUE]
      /\ kex' = [kex EXCEPT ![r] = IF b.frame.type = "init"
                                   THEN Tracked(kex[r], b.frame.id, b.src) ELSE kex[r]]
      /\ UNCHANGED <<conn, viewers, asker, owners, subs, answered, stray>>
  BY DEF BusToDaemon, clientVars, gotVars
<1>2. ToDaemon(r, b.frame) \/ UNCHANGED <<sessions, uplink, takenVars>>
  BY DEF BusToDaemon
<1>3. /\ b \in BusFrames /\ Pulled(r) \in Queues /\ InitsOnce(Pulled(r))
      /\ Inits(Pulled(r)) \subseteq Inits(bus)
      /\ \A id \in Requests : IsInit(b, id) => id \in Inits(bus) /\ id \notin Inits(Pulled(r))
  BY <1>1, PulledIs DEF RoutingInv, RoutingTypes, Begun
<1> HIDE DEF b
<1>4. b.src \in Relays /\ b.frame \in ClientFrames /\ b.frame.id \in Requests
  BY <1>1, <1>3, BusFramesMade, FramesMade
<1>5. b.frame.type = "init" =>
        b.frame.id \in Inits(bus) /\ b.frame.id \notin Inits(Pulled(r)) /\ b.frame.id \notin TakenOf
  BY <1>1, <1>3, <1>4 DEF IsInit, RoutingInv, Begun
<1>6. /\ sessions' \in Sessions /\ uplink' \subseteq DaemonFrames
      /\ taken' \subseteq Requests \X (1..MaxSeq) /\ TakenRemembered' /\ ~repeated'
      /\ SessionIds(sessions') \subseteq
           SessionIds(sessions) \cup {id \in {b.frame.id} : b.frame.type = "init"}
      /\ TakenOf' \subseteq TakenOf \cup SessionIds(sessions)
  <2>1. CASE ToDaemon(r, b.frame)
    BY <1>4, <1>5, <2>1, ToDaemonIs DEF RoutingInv
  <2>2. CASE UNCHANGED <<sessions, uplink, takenVars>>
    BY <2>2 DEF takenVars, RoutingInv, RoutingTypes, TakenRemembered, TakenOf
  <2> QED
    BY <1>2, <2>1, <2>2
<1>7. Begun'
  BY <1>1, <1>3, <1>5, <1>6 DEF RoutingInv, Begun
<1>8. kex' \in Tables /\ \A q \in Relays : Asked(kex'[q], asker)
  <2> DEFINE w == Tracked(kex[r], b.frame.id, b.src)
  <2>1. CASE b.frame.type = "init"
    <3>1. kex' = [kex EXCEPT ![r] = w] /\ kex \in Tables
      BY <1>1, <2>1 DEF RoutingInv, RoutingTypes
    <3>2. kex[r] \in Seq(Entries) /\ Len(kex[r]) <= Track
      BY <3>1 DEF Tables
    <3>3. b.src \notin Clients
      BY <1>4, RoutingAssumption
    <3>4. w \in Seq(Entries) /\ Len(w) <= Track /\ Asked(w, asker)
      BY <1>4, <3>2, <3>3, TrackedIs, AskedTracked DEF RoutingInv, TablesHonest
    <3> HIDE DEF w
    <3>5. kex' \in Tables /\ kex'[r] = w /\ \A q \in Relays \ {r} : kex'[q] = kex[q]
      BY <3>1, <3>4 DEF Tables
    <3> QED
      BY <3>4, <3>5 DEF RoutingInv, TablesHonest
  <2>2. CASE b.frame.type # "init"
    <3>1. kex' = kex
      BY <1>1, <2>2 DEF RoutingInv, RoutingTypes, Tables
    <3> QED
      BY <3>1 DEF RoutingInv, RoutingTypes, TablesHonest
  <2> QED
    BY <2>1, <2>2
<1>9. RoutingTypes'
  BY <1>1, <1>3, <1>6, <1>8 DEF RoutingInv, RoutingTypes
<1>10. TablesHonest' /\ ~stray'
  BY <1>1, <1>8 DEF RoutingInv, TablesHonest
<1> QED
  BY <1>6, <1>7, <1>9, <1>10 DEF RoutingInv

(* A relay pulls a frame for clients, loses one, or the platform sends one: *)
LEMMA BusStep ==
  ASSUME RoutingInv, NEW r \in Relays, BusToClients(r) \/ BusLoses(r) \/ PlatformEvent(r)
  PROVE  RoutingInv'
<1>1. UNCHANGED <<conn, viewers, asker, subs, sessions, uplink, taken, repeated>>
  BY DEF BusToClients, BusLoses, PlatformEvent, clientVars, tables, daemonVars, takenVars, history
<1>2. ASSUME Inits(bus') \subseteq Inits(bus), InitsOnce(bus')
      PROVE  Begun' /\ TakenRemembered' /\ ~repeated'
  BY <1>1, <1>2 DEF RoutingInv, Begun, TakenRemembered, TakenOf
<1>3. bus[r] # <<>> => /\ Head(bus[r]) \in BusFrames /\ Pulled(r) \in Queues
                       /\ InitsOnce(Pulled(r)) /\ Inits(Pulled(r)) \subseteq Inits(bus)
  BY PulledIs DEF RoutingInv, RoutingTypes, Begun
<1>4. CASE BusToClients(r)
  <2>1. /\ bus[r] # <<>> /\ Head(bus[r]).to = "clients" /\ Route(r, Head(bus[r]).frame, Pulled(r))
        /\ UNCHANGED <<clientVars, subs>>
    BY <1>4 DEF BusToClients
  <2>2. Head(bus[r]).frame \in DaemonFrames \cup {Event}
    BY <1>3, <2>1, BusFramesMade
  <2> DEFINE f == Head(bus[r]).frame
             base == Pulled(r)
  <2>3. f \in DaemonFrames \cup {Event} /\ base \in Queues /\ InitsOnce(base) /\ Route(r, f, base)
    BY <1>3, <2>1, <2>2
  <2>4. Inits(base) \subseteq Inits(bus)
    BY <1>3, <2>1
  <2> HIDE DEF f, base
  <2>5. /\ bus' \in Queues /\ InitsOnce(bus') /\ Inits(bus') \subseteq Inits(base)
        /\ kex' \in Tables /\ owners' \in Tables /\ target' \in [Relays -> BOOLEAN]
        /\ answered' \in [Clients -> SUBSET Requests]
        /\ TablesHonest' /\ ~stray'
    BY <2>1, <2>3, RouteIs DEF RoutingInv
  <2>6. RoutingTypes'
    BY <1>1, <2>5 DEF RoutingInv, RoutingTypes
  <2> QED
    BY <1>2, <2>4, <2>5, <2>6 DEF RoutingInv
<1>5. CASE BusLoses(r) \/ PlatformEvent(r)
  <2>1. UNCHANGED <<kex, owners, target, answered, stray>>
    BY <1>5 DEF BusLoses, PlatformEvent, tables, history, gotVars
  <2>2. bus' \in Queues /\ InitsOnce(bus') /\ Inits(bus') \subseteq Inits(bus)
    <3>1. CASE BusLoses(r)
      BY <1>3, <3>1 DEF BusLoses
    <3>2. CASE PlatformEvent(r)
      <4> DEFINE b == [to |-> "clients", frame |-> Event]
      <4>1. b \in BusFrames /\ \A id : ~IsInit(b, id)
        BY BusFramesMade, NoClientsInit
      <4>2. bus' = Published(bus, r, b)
        BY <3>2 DEF PlatformEvent
      <4> HIDE DEF b
      <4> QED
        BY <4>1, <4>2, PublishedIs DEF RoutingInv, RoutingTypes, Begun
    <3> QED
      BY <1>5, <3>1, <3>2
  <2>3. RoutingTypes' /\ TablesHonest' /\ ~stray'
    BY <1>1, <2>1, <2>2 DEF RoutingInv, RoutingTypes, TablesHonest
  <2> QED
    BY <1>2, <2>2, <2>3 DEF RoutingInv
<1> QED
  BY <1>4, <1>5

(* The daemon's socket comes and goes, entries expire, scopes are forgotten: *)
LEMMA SocketStep ==
  ASSUME RoutingInv, NEW r \in Relays,
         \/ \E g \in Generations : DaemonConnect(r, g) \/ DaemonCloseEvent(r, g)
         \/ RelayNotices(r) \/ Expire(r) \/ PruneEmpty(r)
  PROVE  RoutingInv'
<1>1. UNCHANGED <<conn, viewers, asker, bus, answered, stray, taken, repeated>>
  BY DEF DaemonConnect, DaemonCloseEvent, RelayNotices, Expire, PruneEmpty, clientVars,
         history, gotVars, takenVars
<1>2. target' \in [Relays -> BOOLEAN]
  BY DEF DaemonConnect, DaemonCloseEvent, RelayNotices, Expire, PruneEmpty, tables,
         RoutingInv, RoutingTypes
<1>3. /\ subs' \in [Relays -> SUBSET Clients]
      /\ \A q \in Relays : subs'[q] \subseteq {c \in viewers : Home[c] = q}
  <2>1. subs' = subs \/ subs' = [subs EXCEPT ![r] = {}]
    BY DEF DaemonConnect, DaemonCloseEvent, RelayNotices, Expire, PruneEmpty, tables
  <2> QED
    BY <2>1 DEF RoutingInv, RoutingTypes, TablesHonest
<1>4. UNCHANGED daemonVars \/ (sessions' = <<>> /\ uplink' = {})
  BY DEF DaemonConnect, DaemonCloseEvent, RelayNotices, Expire, PruneEmpty
<1>5. sessions' \in Sessions /\ uplink' \subseteq DaemonFrames
  <2>1. <<>> \in Sessions
    BY BoundsAre DEF Sessions
  <2> QED
    BY <1>4, <2>1 DEF daemonVars, RoutingInv, RoutingTypes
<1>6. Begun' /\ TakenRemembered' /\ ~repeated'
  <2>1. \A i \in DOMAIN sessions' : i \in DOMAIN sessions /\ sessions'[i] = sessions[i]
    BY <1>4 DEF daemonVars
  <2> QED
    BY <1>1, <1>5, <2>1, FewerSessions
<1>7. kex' \in Tables /\ \A q \in Relays : Asked(kex'[q], asker)
  <2>1. \/ kex' = kex \/ kex' = [kex EXCEPT ![r] = <<>>]
        \/ kex[r] # <<>> /\ kex' = [kex EXCEPT ![r] = Tail(kex[r])]
    BY DEF DaemonConnect, DaemonCloseEvent, RelayNotices, Expire, PruneEmpty, tables, Emptied
  <2>2. kex \in Tables /\ \A q \in Relays : Asked(kex[q], asker)
    BY DEF RoutingInv, RoutingTypes, TablesHonest
  <2>3. CASE kex' = kex
    BY <2>2, <2>3
  <2>4. CASE kex' = [kex EXCEPT ![r] = <<>>]
    BY <2>2, <2>4, EmptiedIs
  <2>5. CASE kex[r] # <<>> /\ kex' = [kex EXCEPT ![r] = Tail(kex[r])]
    BY <2>2, <2>5, OldestGone
  <2> QED
    BY <2>1, <2>3, <2>4, <2>5
<1>8. owners' \in Tables /\ \A q \in Relays : Asked(owners'[q], asker)
  <2>1. \/ owners' = owners \/ owners' = [owners EXCEPT ![r] = <<>>]
        \/ owners[r] # <<>> /\ owners' = [owners EXCEPT ![r] = Tail(owners[r])]
    BY DEF DaemonConnect, DaemonCloseEvent, RelayNotices, Expire, PruneEmpty, tables, Emptied
  <2>2. owners \in Tables /\ \A q \in Relays : Asked(owners[q], asker)
    BY DEF RoutingInv, RoutingTypes, TablesHonest
  <2>3. CASE owners' = owners
    BY <2>2, <2>3
  <2>4. CASE owners' = [owners EXCEPT ![r] = <<>>]
    BY <2>2, <2>4, EmptiedIs
  <2>5. CASE owners[r] # <<>> /\ owners' = [owners EXCEPT ![r] = Tail(owners[r])]
    BY <2>2, <2>5, OldestGone
  <2> QED
    BY <2>1, <2>3, <2>4, <2>5
<1>9. RoutingTypes'
  BY <1>1, <1>2, <1>3, <1>5, <1>7, <1>8 DEF RoutingInv, RoutingTypes
<1>10. TablesHonest' /\ ~stray'
  BY <1>1, <1>3, <1>7, <1>8 DEF RoutingInv, TablesHonest
<1> QED
  BY <1>6, <1>9, <1>10 DEF RoutingInv

(* Whatever the relays and the daemon do, with the slots as they are. *)
LEMMA RoutingStep == ASSUME SlotInv, RoutingInv, [Next]_vars PROVE RoutingInv'
<1>1. ASSUME NEW c \in Clients, \/ ClientConnect(c) \/ ClientClose(c) \/ KeyExchange(c)
                                \/ ClientEnvelope(c) \/ Subscribe(c) \/ ViewerPresence(c)
      PROVE  RoutingInv'
  BY <1>1, ClientsStep, KeyExchangeStep, ClientEnvelopeStep
<1>2. CASE DaemonSends \/ DaemonDrops \/ \E id \in Requests : SessionIdle(id)
  BY <1>2, SessionsStep
<1>3. ASSUME NEW f \in uplink, FromDaemon(f) PROVE RoutingInv'
  BY <1>3, FromDaemonStep DEF SlotInv, DaemonHasSlot
<1>4. ASSUME NEW r \in Relays, \/ BusToDaemon(r) \/ BusToClients(r)
                               \/ BusLoses(r) \/ PlatformEvent(r)
      PROVE  RoutingInv'
  BY <1>4, BusToDaemonStep, BusStep
<1>5. ASSUME NEW r \in Relays,
             \/ \E g \in Generations : DaemonConnect(r, g) \/ DaemonCloseEvent(r, g)
             \/ RelayNotices(r) \/ Expire(r) \/ PruneEmpty(r)
      PROVE  RoutingInv'
  BY <1>5, SocketStep
<1>6. CASE UNCHANGED vars
  <2>1. /\ UNCHANGED <<conn, viewers, asker, kex, owners, subs, target, sessions, uplink>>
        /\ UNCHANGED <<bus, answered, stray, taken, repeated>>
    BY <1>6 DEF vars, clientVars, tables, daemonVars, history, gotVars, takenVars
  <2> QED
    BY <2>1 DEF RoutingInv, RoutingTypes, TablesHonest, Begun, TakenRemembered, TakenOf
<1> QED
  BY <1>1, <1>2, <1>3, <1>4, <1>5, <1>6 DEF Next

(* At first nobody is connected and nothing is under way. *)
LEMMA RoutingInit == Init => RoutingInv
<1> SUFFICES ASSUME Init PROVE RoutingInv
  OBVIOUS
<1>1. <<>> \in Seq(Clients) /\ <<>> \in Seq(Entries) /\ <<>> \in Seq(BusFrames)
      /\ <<>> \in Seq(SessionRecords) /\ Len(<<>>) = 0 /\ DOMAIN <<>> = {}
  OBVIOUS
<1>2. [r \in Relays |-> <<>>] \in Tables
  BY <1>1, BoundsAre DEF Tables
<1>3. [r \in Relays |-> <<>>] \in Queues
  BY <1>1, BoundsAre DEF Queues
<1>4. <<>> \in Sessions
  BY <1>1, BoundsAre DEF Sessions
<1>5. RoutingTypes
  BY <1>1, <1>2, <1>3, <1>4, BoundsAre DEF Init, RoutingTypes
<1>6. TablesHonest
  BY <1>1 DEF Init, TablesHonest, Asked
<1>7. SessionIds(sessions) = {} /\ TakenOf = {} /\ Inits(bus) = {} /\ InitsOnce(bus)
  BY <1>1 DEF Init, SessionIds, TakenOf, Inits, InitsOnce
<1>8. Begun
  BY <1>7 DEF Begun
<1>9. TakenRemembered
  BY DEF Init, TakenRemembered
<1> QED
  BY <1>5, <1>6, <1>8, <1>9 DEF Init, RoutingInv

(* The slots, the registries, the bus and the sessions keep their invariants. *)
LEMMA RoutingHolds == Spec => [](SlotInv /\ RoutingInv)
<1>1. SlotInit => SlotInv
  BY SlotsAssumption, DaemonsMade
  DEF SlotInit, SlotInv, SlotTypeOK, DaemonHasSlot, TokensUsed, Generations, Offline
<1>2. SlotInv /\ [SlotNext]_slotVars => SlotInv'
  BY SlotStep
<1>3. Init => RoutingInv
  BY RoutingInit
<1>4. SlotInv /\ RoutingInv /\ [Next]_vars => RoutingInv'
  BY RoutingStep
<1>5. Spec => SlotSpec
  BY RoutingKeepsSlots
<1> QED
  BY <1>1, <1>2, <1>3, <1>4, <1>5, PTL DEF Spec, SlotSpec

(* For any number of relays, clients, requests and frames, a frame reaches only
   the client that asked, and none of a session is taken twice. *)
THEOREM FramesStayOwn == Spec => []FramesHold
<1>1. RoutingInv => FramesHold
  BY DEF RoutingInv, FramesHold, OnlyOwnFrames, TakenOnce
<1> QED
  BY <1>1, RoutingHolds, PTL

(* The two flags are set only by a client that receives and a frame taken. *)
LEMMA FlagsStep ==
  ASSUME stray \in BOOLEAN, repeated \in BOOLEAN, [Next]_vars
  PROVE  stray' \in BOOLEAN /\ repeated' \in BOOLEAN
<1> USE DEF gotVars, takenVars, history, vars
<1>1. \A r, f, base, owner : Deliver(r, owner, f, base) => stray' \in BOOLEAN
  BY DEF Deliver, Receives
<1>2. \A r, f, base : Route(r, f, base) => stray' \in BOOLEAN
  BY <1>1 DEF Route, RouteResponse, RouteSession, RouteEvent, Receives
<1>3. \A r, f : ToDaemon(r, f) => repeated' \in BOOLEAN
  BY DEF ToDaemon, DaemonInit, DaemonEnvelope
<1>4. \A r, f : FromClient(r, f) => repeated' \in BOOLEAN
  BY <1>3 DEF FromClient
<1>5. ASSUME NEW c \in Clients, \/ ClientConnect(c) \/ ClientClose(c) \/ KeyExchange(c)
                                \/ ClientEnvelope(c) \/ Subscribe(c) \/ ViewerPresence(c)
      PROVE  stray' \in BOOLEAN /\ repeated' \in BOOLEAN
  BY <1>4, <1>5
  DEF ClientConnect, ClientClose, KeyExchange, ClientEnvelope, Subscribe, ViewerPresence,
      Receives
<1>6. CASE DaemonSends \/ DaemonDrops \/ \E id \in Requests : SessionIdle(id)
  BY <1>6 DEF DaemonSends, DaemonDrops, SessionIdle
<1>7. ASSUME NEW f \in uplink, FromDaemon(f) PROVE stray' \in BOOLEAN /\ repeated' \in BOOLEAN
  BY <1>2, <1>7 DEF FromDaemon
<1>8. ASSUME NEW r \in Relays, \/ BusToDaemon(r) \/ BusToClients(r)
                               \/ BusLoses(r) \/ PlatformEvent(r)
      PROVE  stray' \in BOOLEAN /\ repeated' \in BOOLEAN
  BY <1>2, <1>3, <1>8 DEF BusToDaemon, BusToClients, BusLoses, PlatformEvent
<1>9. ASSUME NEW r \in Relays,
             \/ \E g \in Generations : DaemonConnect(r, g) \/ DaemonCloseEvent(r, g)
             \/ RelayNotices(r) \/ Expire(r) \/ PruneEmpty(r)
      PROVE  stray' \in BOOLEAN /\ repeated' \in BOOLEAN
  BY <1>9 DEF DaemonConnect, DaemonCloseEvent, RelayNotices, Expire, PruneEmpty
<1> QED
  BY <1>5, <1>6, <1>7, <1>8, <1>9 DEF Next

(* And every registry, queue and table of sessions keeps to its capacity. *)
THEOREM RoutingKeepsTypes == Spec => []TypeOK
<1> DEFINE Flags == stray \in BOOLEAN /\ repeated \in BOOLEAN
<1>1. SlotInv /\ RoutingInv /\ Flags => TypeOK
  BY DEF SlotInv, RoutingInv, RoutingTypes, Tables, Queues, Sessions, TypeOK
<1>2. Init => Flags
  BY DEF Init
<1>3. Flags /\ [Next]_vars => Flags'
  BY FlagsStep
<1> QED
  BY <1>1, <1>2, <1>3, RoutingHolds, PTL DEF Spec

-----------------------------------------------------------------------------
(* The daemon's bridge *)

(* The two sockets of an attempt and whether they are still listened to. *)
SocketPairs == [d : SocketStates, r : SocketStates, handlers : BOOLEAN]

(* A relay socket that is open has the relay's slot. *)
OpenHasSlot == \A p \in Pairs : sock[p].r = "open" => relaySlot = p

(* While the bridge is to run, it is reconnecting just as long as there is a
   loop, and the loop that opens a relay socket has the local one as its own. *)
LoopIsReconnecting ==
  running => /\ reconnecting = (loop # "none")
             /\ loop = "relay" => cur.d = opening

(* The bridge's inductive invariant. *)
BridgeInv == BridgeTypeOK /\ OpenHasSlot /\ LoopIsReconnecting /\ NeverStranded

(* Closing a socket never opens one, and closes an open one that is heard. *)
LEMMA StatesMade ==
  /\ Forgotten \in SocketPairs
  /\ Forgotten.r = "idle" /\ Forgotten.d = "idle" /\ ~Forgotten.handlers
  /\ \A x \in SocketStates, h \in BOOLEAN :
       /\ CloseSide(x, h) \in SocketStates
       /\ CloseSide(x, h) # "open"
       /\ x = "closed" => CloseSide(x, h) = "closed"
       /\ x = "open" /\ h => CloseSide(x, h) = "closed"
  BY DEF Forgotten, SocketPairs, SocketStates, CloseSide

(* What closing two sockets does to the others: nothing; no socket opens. *)
LEMMA TidyIs ==
  ASSUME NEW s \in [Pairs -> SocketPairs]
  PROVE  /\ Tidy(s) \in [Pairs -> SocketPairs]
         /\ \A p \in Pairs : /\ Tidy(s)[p].r = s[p].r
                             /\ s[p].r # "idle" => Tidy(s)[p] = s[p]
  BY StatesMade DEF Tidy

(* Closing one pair leaves the others, and keeps what is heard heard. *)
LEMMA CloseIs ==
  ASSUME NEW s \in [Pairs -> SocketPairs], NEW d, NEW r
  PROVE  /\ Close(s, d, r) \in [Pairs -> SocketPairs]
         /\ \A p \in Pairs :
              /\ Close(s, d, r)[p].r = "open" => s[p].r = "open"
              /\ s[p].handlers /\ s[p].r \in {"open", "closed"} =>
                   Close(s, d, r)[p].handlers /\ Close(s, d, r)[p].r \in {"open", "closed"}
<1> DEFINE One(p) == [s[p] EXCEPT
              !.d = IF p = d THEN CloseSide(s[p].d, s[p].handlers) ELSE s[p].d,
              !.r = IF p = r THEN CloseSide(s[p].r, s[p].handlers) ELSE s[p].r]
           t == [p \in Pairs |-> One(p)]
<1>1. Close(s, d, r) = Tidy(t)
  BY DEF Close
<1>2. ASSUME NEW x \in SocketPairs, NEW a \in SocketStates, NEW b \in SocketStates
      PROVE  /\ [x EXCEPT !.d = a, !.r = b] \in SocketPairs
             /\ [x EXCEPT !.d = a, !.r = b].r = b
             /\ [x EXCEPT !.d = a, !.r = b].handlers = x.handlers
  BY DEF SocketPairs
<1>3. ASSUME NEW p \in Pairs
      PROVE  /\ One(p) \in SocketPairs /\ One(p).handlers = s[p].handlers
             /\ One(p).r = IF p = r THEN CloseSide(s[p].r, s[p].handlers) ELSE s[p].r
             /\ s[p].r \in SocketStates /\ s[p].handlers \in BOOLEAN
  <2>1. s[p] \in SocketPairs /\ s[p].d \in SocketStates /\ s[p].r \in SocketStates
        /\ s[p].handlers \in BOOLEAN
    <3>1. s[p] \in SocketPairs
      OBVIOUS
    <3> QED
      BY <3>1 DEF SocketPairs
  <2> DEFINE a == IF p = d THEN CloseSide(s[p].d, s[p].handlers) ELSE s[p].d
             b == IF p = r THEN CloseSide(s[p].r, s[p].handlers) ELSE s[p].r
  <2>2. a \in SocketStates /\ b \in SocketStates
    BY <2>1, StatesMade
  <2>3. One(p) = [s[p] EXCEPT !.d = a, !.r = b]
    OBVIOUS
  <2> HIDE DEF One
  <2>4. One(p) \in SocketPairs /\ One(p).handlers = s[p].handlers /\ One(p).r = b
    <3> HIDE DEF a, b
    <3>1. /\ [s[p] EXCEPT !.d = a, !.r = b] \in SocketPairs
          /\ [s[p] EXCEPT !.d = a, !.r = b].r = b
          /\ [s[p] EXCEPT !.d = a, !.r = b].handlers = s[p].handlers
      BY <2>1, <2>2 DEF SocketPairs
    <3> QED
      BY <2>3, <3>1
  <2> QED
    BY <2>1, <2>4
<1> HIDE DEF One
<1>4. t \in [Pairs -> SocketPairs] /\ \A p \in Pairs : t[p] = One(p)
  BY <1>3
<1> HIDE DEF t
<1>5. /\ Tidy(t) \in [Pairs -> SocketPairs]
      /\ \A p \in Pairs : Tidy(t)[p].r = t[p].r /\ (t[p].r # "idle" => Tidy(t)[p] = t[p])
  BY <1>4, TidyIs
<1>6. ASSUME NEW p \in Pairs
      PROVE  /\ Tidy(t)[p].r = "open" => s[p].r = "open"
             /\ s[p].handlers /\ s[p].r \in {"open", "closed"} =>
                  Tidy(t)[p].handlers /\ Tidy(t)[p].r \in {"open", "closed"}
  BY <1>3, <1>4, <1>5, StatesMade
<1> QED
  BY <1>1, <1>5, <1>6

(* Setting the local socket of a pair. *)
LEMMA LocalSet ==
  ASSUME NEW s \in [Pairs -> SocketPairs], NEW p \in Pairs, NEW x \in SocketStates
  PROVE  /\ [s EXCEPT ![p].d = x] \in [Pairs -> SocketPairs]
         /\ \A q \in Pairs \ {p} : [s EXCEPT ![p].d = x][q] = s[q]
         /\ [s EXCEPT ![p].d = x][p].d = x
         /\ [s EXCEPT ![p].d = x][p].r = s[p].r
         /\ [s EXCEPT ![p].d = x][p].handlers = s[p].handlers
<1>1. ASSUME NEW v \in SocketPairs
      PROVE  /\ [v EXCEPT !.d = x] \in SocketPairs /\ [v EXCEPT !.d = x].d = x
             /\ [v EXCEPT !.d = x].r = v.r /\ [v EXCEPT !.d = x].handlers = v.handlers
  BY DEF SocketPairs
<1> QED
  BY <1>1

(* Setting the relay's socket of a pair. *)
LEMMA RelaySet ==
  ASSUME NEW s \in [Pairs -> SocketPairs], NEW p \in Pairs, NEW x \in SocketStates
  PROVE  /\ [s EXCEPT ![p].r = x] \in [Pairs -> SocketPairs]
         /\ \A q \in Pairs \ {p} : [s EXCEPT ![p].r = x][q] = s[q]
         /\ [s EXCEPT ![p].r = x][p].r = x
         /\ [s EXCEPT ![p].r = x][p].handlers = s[p].handlers
<1>1. ASSUME NEW v \in SocketPairs
      PROVE  /\ [v EXCEPT !.r = x] \in SocketPairs /\ [v EXCEPT !.r = x].r = x
             /\ [v EXCEPT !.r = x].handlers = v.handlers
  BY DEF SocketPairs
<1> QED
  BY <1>1

(* The relay's socket of the pair is still listened to: its closing will be heard. *)
Alive(p) == sock[p].handlers /\ sock[p].r \in {"open", "closed"}

(* What a step does to the sockets: none opens, and those of which the bridge
   will hear stay so, but ... *)
Quiet ==
  /\ sock' \in [Pairs -> SocketPairs]
  /\ \A p \in Pairs : sock'[p].r = "open" => sock[p].r = "open"

(* What was listened to still is. *)
Heard == \A p \in Pairs : Alive(p) => Alive(p)'

(* An attempt that fails leaves no pair and a loop that waits, if the bridge runs. *)
LEMMA CaughtIs ==
  ASSUME BridgeTypeOK, NEW s \in [Pairs -> SocketPairs], Caught(s),
         \A p \in Pairs : s[p].r = "open" => sock[p].r = "open"
  PROVE  /\ Quiet /\ cur' = [d |-> NoPair, r |-> NoPair] /\ opening' = NoPair
         /\ status' \in Statuses /\ loop' \in {"backoff", "none"} /\ reconnecting' \in BOOLEAN
         /\ running => loop' = "backoff" /\ reconnecting' = reconnecting
         /\ UNCHANGED <<running, relaySlot>> /\ bridgeFaults' \in 0..MaxBridgeFaults
<1>1. Quiet
  BY CloseIs DEF Caught, Quiet
<1>2. bridgeFaults' \in 0..MaxBridgeFaults
  BY BridgeAssumption DEF Caught, BridgeTypeOK
<1>3. /\ cur' = [d |-> NoPair, r |-> NoPair] /\ opening' = NoPair
      /\ status' \in Statuses /\ loop' \in {"backoff", "none"} /\ reconnecting' \in BOOLEAN
      /\ running => loop' = "backoff" /\ reconnecting' = reconnecting
      /\ UNCHANGED <<running, relaySlot>>
  BY DEF Caught, BridgeTypeOK, Statuses
<1> QED
  BY <1>1, <1>2, <1>3

(* The attempts that fail. *)
LEMMA FailuresStep ==
  ASSUME BridgeInv, IssueFails \/ IdentityFails \/ OpenFails
  PROVE  BridgeInv'
<1>1. sock \in [Pairs -> SocketPairs]
  BY DEF BridgeInv, BridgeTypeOK, SocketPairs
<1>2. /\ Quiet /\ cur' = [d |-> NoPair, r |-> NoPair] /\ opening' = NoPair
      /\ status' \in Statuses /\ loop' \in {"backoff", "none"} /\ reconnecting' \in BOOLEAN
      /\ running => loop' = "backoff" /\ reconnecting' = reconnecting
      /\ UNCHANGED <<running, relaySlot>> /\ bridgeFaults' \in 0..MaxBridgeFaults
      /\ loop \in {"issue", "daemon", "relay"}
  <2>1. CASE IssueFails \/ IdentityFails
    BY <1>1, <2>1, CaughtIs DEF IssueFails, IdentityFails, BridgeInv
  <2>2. CASE OpenFails /\ loop = "daemon"
    <3>1. opening \in Pairs
      BY <2>2 DEF BridgeInv, BridgeTypeOK
    <3> DEFINE s == [sock EXCEPT ![opening].d = "idle"]
    <3>2. s \in [Pairs -> SocketPairs] /\ \A p \in Pairs : s[p].r = sock[p].r
      <4>1. "idle" \in SocketStates
        BY DEF SocketStates
      <4>2. /\ s \in [Pairs -> SocketPairs] /\ \A q \in Pairs \ {opening} : s[q] = sock[q]
            /\ s[opening].r = sock[opening].r
        BY <1>1, <3>1, <4>1, LocalSet
      <4> QED
        BY <4>2
    <3>3. Caught(s)
      BY <2>2 DEF OpenFails
    <3> HIDE DEF s
    <3> QED
      BY <2>2, <3>2, <3>3, CaughtIs DEF BridgeInv
  <2>3. CASE OpenFails /\ loop = "relay"
    <3>1. opening \in Pairs
      BY <2>3 DEF BridgeInv, BridgeTypeOK
    <3>2. PICK after \in {"idle", "late"} : Caught([sock EXCEPT ![opening].r = after])
      BY <2>3 DEF OpenFails
    <3> DEFINE s == [sock EXCEPT ![opening].r = after]
    <3>3. s \in [Pairs -> SocketPairs] /\ \A p \in Pairs : s[p].r \in {sock[p].r, after}
      <4>1. after \in SocketStates
        BY DEF SocketStates
      <4>2. /\ s \in [Pairs -> SocketPairs] /\ \A q \in Pairs \ {opening} : s[q] = sock[q]
            /\ s[opening].r = after
        BY <1>1, <3>1, <4>1, RelaySet
      <4> QED
        BY <4>2
    <3>4. Caught(s)
      BY <3>2
    <3> HIDE DEF s
    <3>5. \A p \in Pairs : s[p].r = "open" => sock[p].r = "open"
      BY <3>3
    <3> QED
      BY <2>3, <3>3, <3>4, <3>5, CaughtIs DEF BridgeInv
  <2> QED
    BY <2>1, <2>2, <2>3 DEF OpenFails
<1>3. identity' \in BOOLEAN /\ failures' \in 0..Threshold /\ circuit' \in BOOLEAN
  <2>1. identity \in BOOLEAN /\ failures \in 0..Threshold /\ circuit \in BOOLEAN
    BY DEF BridgeInv, BridgeTypeOK
  <2>2. failures' \in 0..Threshold
    BY <2>1, BridgeAssumption DEF IssueFails, IdentityFails, OpenFails
  <2>3. identity' \in BOOLEAN
    BY <2>1 DEF IssueFails, IdentityFails, OpenFails
  <2>4. circuit' \in BOOLEAN
    BY <2>1 DEF IssueFails, IdentityFails, OpenFails
  <2> QED
    BY <2>2, <2>3, <2>4
<1>4. BridgeTypeOK'
  <2>1. running' \in BOOLEAN /\ relaySlot' \in Pairs \cup {NoPair}
    BY <1>2 DEF BridgeInv, BridgeTypeOK
  <2> QED
    BY <1>2, <1>3, <2>1 DEF BridgeTypeOK, Quiet, SocketPairs, Places
<1>5. OpenHasSlot'
  BY <1>2 DEF Quiet, OpenHasSlot, BridgeInv
<1>6. LoopIsReconnecting' /\ NeverStranded'
  BY <1>2 DEF LoopIsReconnecting, NeverStranded, BridgeInv
<1> QED
  BY <1>4, <1>5, <1>6 DEF BridgeInv

(* The steps of the reconnection loop. *)
LEMMA LoopStep ==
  ASSUME BridgeInv, CircuitWaited \/ BackoffWaited \/ Issued \/ DaemonOpens \/ RelayOpens
  PROVE  BridgeInv'
<1>1. sock \in [Pairs -> SocketPairs] /\ {"opening", "open", "closed"} \subseteq SocketStates
  BY DEF BridgeInv, BridgeTypeOK, SocketPairs, SocketStates
<1>2. CASE CircuitWaited \/ BackoffWaited
  <2>1. /\ UNCHANGED <<running, opening, cur, sock, relaySlot, identity, failures, bridgeFaults>>
        /\ status' \in Statuses /\ loop' \in Places \ {"daemon", "relay"}
         /\ loop \in {"circuit", "backoff"}
        /\ reconnecting' \in BOOLEAN /\ circuit' \in BOOLEAN
        /\ running => loop' # "none" /\ reconnecting' = TRUE
    BY <1>2 DEF CircuitWaited, BackoffWaited, EnterLoop, BridgeInv, BridgeTypeOK, Statuses, Places,
                LoopIsReconnecting
  <2>2. BridgeTypeOK'
    BY <2>1 DEF BridgeInv, BridgeTypeOK
  <2>3. OpenHasSlot' /\ LoopIsReconnecting' /\ NeverStranded'
    BY <2>1 DEF BridgeInv, OpenHasSlot, LoopIsReconnecting, NeverStranded
  <2> QED
    BY <2>2, <2>3 DEF BridgeInv
<1>3. CASE Issued
  <2>1. /\ loop = "issue" /\ identity' = TRUE /\ failures' = 0 /\ circuit' = FALSE
        /\ opening' = (CHOOSE p \in FreeNames : TRUE) /\ FreeNames # {}
        /\ sock' = [sock EXCEPT ![opening'].d = "opening"] /\ loop' = "daemon"
        /\ UNCHANGED <<running, reconnecting, status, cur, relaySlot, bridgeFaults>>
    BY <1>3 DEF Issued
  <2>2. opening' \in Pairs
    BY <2>1 DEF FreeNames
  <2>3. sock' \in [Pairs -> SocketPairs] /\ \A p \in Pairs : sock'[p].r = sock[p].r
    <3>1. /\ sock' \in [Pairs -> SocketPairs] /\ \A q \in Pairs \ {opening'} : sock'[q] = sock[q]
          /\ sock'[opening'].r = sock[opening'].r
      BY <1>1, <2>1, <2>2, LocalSet
    <3> QED
      BY <3>1
  <2>4. BridgeTypeOK'
    <3>1. identity' \in BOOLEAN /\ circuit' \in BOOLEAN /\ failures' \in 0..Threshold
      <4>1. failures' \in 0..Threshold
        BY <2>1, BridgeAssumption
      <4>2. identity' \in BOOLEAN /\ circuit' \in BOOLEAN
        BY <2>1
      <4> QED
        BY <4>1, <4>2
    <3>2. (loop' \in {"daemon", "relay"}) = (opening' # NoPair)
      BY <2>1, <2>2, BridgeAssumption
    <3>3. loop' \in Places /\ opening' \in Pairs \cup {NoPair}
      BY <2>1, <2>2 DEF Places
    <3> QED
      BY <2>1, <2>3, <3>1, <3>2, <3>3 DEF BridgeInv, BridgeTypeOK, SocketPairs
  <2>5. OpenHasSlot' /\ LoopIsReconnecting' /\ NeverStranded'
    BY <2>1, <2>3 DEF BridgeInv, OpenHasSlot, LoopIsReconnecting, NeverStranded
  <2> QED
    BY <2>4, <2>5 DEF BridgeInv
<1>4. CASE DaemonOpens
  <2>1. /\ loop = "daemon" /\ loop' = "relay" /\ cur' = [cur EXCEPT !.d = opening]
        /\ sock' = [sock EXCEPT ![opening].d = "open", ![opening].r = "opening"]
        /\ UNCHANGED <<running, reconnecting, status, opening, identity, failures, circuit>>
        /\ UNCHANGED <<relaySlot, bridgeFaults>>
    BY <1>4 DEF DaemonOpens
  <2>2. opening \in Pairs
    BY <2>1 DEF BridgeInv, BridgeTypeOK
  <2> DEFINE s == [sock EXCEPT ![opening].d = "open"]
  <2>3. s \in [Pairs -> SocketPairs] /\ \A p \in Pairs \ {opening} : s[p] = sock[p]
    BY <1>1, <2>2, LocalSet
  <2>4. sock' = [s EXCEPT ![opening].r = "opening"]
    BY <2>1
  <2> HIDE DEF s
  <2>5. /\ sock' \in [Pairs -> SocketPairs] /\ \A p \in Pairs \ {opening} : sock'[p] = s[p]
        /\ sock'[opening].r = "opening"
    BY <1>1, <2>2, <2>3, <2>4, RelaySet
  <2>6. cur' \in [{"d", "r"} -> Pairs \cup {NoPair}] /\ cur'.d = opening
    BY <2>1, <2>2 DEF BridgeInv, BridgeTypeOK
  <2>7. BridgeTypeOK'
    BY <2>1, <2>2, <2>5, <2>6, BridgeAssumption DEF BridgeInv, BridgeTypeOK, SocketPairs, Places
  <2>8. OpenHasSlot' /\ LoopIsReconnecting' /\ NeverStranded'
    BY <2>1, <2>3, <2>5, <2>6 DEF BridgeInv, OpenHasSlot, LoopIsReconnecting, NeverStranded
  <2> QED
    BY <2>7, <2>8 DEF BridgeInv
<1>5. CASE RelayOpens
  <2> DEFINE o == opening
             x == IF Admission(o) = o THEN "open" ELSE "closed"
  <2>1. /\ loop = "relay" /\ loop' = "none" /\ opening' = NoPair /\ cur' = [cur EXCEPT !.r = o]
        /\ sock' = [sock EXCEPT ![o].handlers = TRUE, ![o].r = x]
        /\ relaySlot' = Admission(o) /\ status' = "connected" /\ reconnecting' = FALSE
        /\ UNCHANGED <<running, identity, failures, circuit, bridgeFaults>>
    BY <1>5 DEF RelayOpens
  <2>2. o \in Pairs /\ o # NoPair
    BY <2>1, BridgeAssumption DEF BridgeInv, BridgeTypeOK
  <2>3. x \in SocketStates /\ x \in {"open", "closed"} /\ (x = "open" => relaySlot' = o)
    BY <1>1, <2>1
  <2>4. relaySlot' \in Pairs \cup {NoPair} /\ (relaySlot # NoPair => relaySlot' = relaySlot)
    BY <2>1, <2>2 DEF Admission, BridgeInv, BridgeTypeOK
  <2> HIDE DEF x, o
  <2>5. ASSUME NEW v \in SocketPairs
        PROVE  /\ [v EXCEPT !.handlers = TRUE, !.r = x] \in SocketPairs
               /\ [v EXCEPT !.handlers = TRUE, !.r = x].r = x
               /\ [v EXCEPT !.handlers = TRUE, !.r = x].handlers
    BY <2>3 DEF SocketPairs
  <2>6. /\ sock' \in [Pairs -> SocketPairs] /\ \A p \in Pairs \ {o} : sock'[p] = sock[p]
        /\ sock'[o].r = x /\ sock'[o].handlers
    <3> DEFINE v == [sock[o] EXCEPT !.handlers = TRUE, !.r = x]
    <3>1. v \in SocketPairs /\ v.r = x /\ v.handlers
      BY <1>1, <2>2, <2>5
    <3>2. sock' = [sock EXCEPT ![o] = v]
      BY <1>1, <2>1, <2>2
    <3> HIDE DEF v
    <3> QED
      BY <1>1, <2>2, <3>1, <3>2
  <2>7. cur' \in [{"d", "r"} -> Pairs \cup {NoPair}] /\ cur'.r = o /\ cur'.d = cur.d
    BY <2>1, <2>2 DEF BridgeInv, BridgeTypeOK
  <2>8. BridgeTypeOK'
    <3>1. reconnecting' \in BOOLEAN
      BY <2>1
    <3>2. (loop' \in {"daemon", "relay"}) = (opening' # NoPair)
      BY <2>1
    <3>3. loop' \in Places /\ opening' \in Pairs \cup {NoPair} /\ status' \in Statuses
      BY <2>1 DEF Places, Statuses
    <3> QED
      BY <2>1, <2>4, <2>6, <2>7, <3>1, <3>2, <3>3 DEF BridgeInv, BridgeTypeOK, SocketPairs
  <2>9. OpenHasSlot'
    <3> SUFFICES ASSUME NEW p \in Pairs, sock'[p].r = "open" PROVE relaySlot' = p
      BY DEF OpenHasSlot
    <3>1. CASE p = o
      BY <2>3, <2>6, <3>1
    <3>2. CASE p # o
      BY <2>4, <2>6, <3>2, BridgeAssumption DEF BridgeInv, OpenHasSlot
    <3> QED
      BY <3>1, <3>2
  <2>10. LoopIsReconnecting' /\ NeverStranded'
    BY <2>1, <2>2, <2>3, <2>6, <2>7 DEF BridgeInv, LoopIsReconnecting, NeverStranded, o
  <2> QED
    BY <2>8, <2>9, <2>10 DEF BridgeInv
<1> QED
  BY <1>2, <1>3, <1>4, <1>5

(* Stopping, the daemon's crash and the relay's view of a closed socket. *)
LEMMA StopStep == ASSUME BridgeInv, Stop \/ Crash \/ RelaySeesClose PROVE BridgeInv'
<1>1. sock \in [Pairs -> SocketPairs]
  BY DEF BridgeInv, BridgeTypeOK, SocketPairs
<1>2. CASE Stop
  <2>1. /\ running' = FALSE /\ reconnecting' = FALSE /\ status' = "stopped"
        /\ sock' = Close(sock, cur.d, cur.r) /\ cur' = [d |-> NoPair, r |-> NoPair]
        /\ UNCHANGED <<loop, opening, identity, failures, circuit, relaySlot, bridgeFaults>>
    BY <1>2 DEF Stop
  <2>2. Quiet
    BY <1>1, <2>1, CloseIs DEF Quiet
  <2>3. BridgeTypeOK'
    <3>1. running' \in BOOLEAN /\ reconnecting' \in BOOLEAN
      BY <2>1
    <3> QED
      BY <2>1, <2>2, <3>1 DEF BridgeInv, BridgeTypeOK, Quiet, SocketPairs, Statuses
  <2>4. OpenHasSlot'
    BY <2>1, <2>2 DEF BridgeInv, OpenHasSlot, Quiet
  <2> QED
    BY <2>1, <2>3, <2>4 DEF BridgeInv, LoopIsReconnecting, NeverStranded
<1>3. CASE Crash
  <2>1. /\ reconnecting' = TRUE /\ status' = "connecting" /\ loop' = "issue"
        /\ opening' = NoPair /\ cur' = [d |-> NoPair, r |-> NoPair]
        /\ sock' = [p \in Pairs |-> Forgotten]
        /\ identity' = FALSE /\ failures' = 0 /\ circuit' = FALSE
        /\ UNCHANGED <<running, relaySlot>>
    BY <1>3 DEF Crash
  <2>2. bridgeFaults' \in 0..MaxBridgeFaults
    BY <1>3, BridgeAssumption DEF Crash, BridgeInv, BridgeTypeOK
  <2>3. failures' \in 0..Threshold
    BY <2>1, BridgeAssumption
  <2>4. reconnecting' \in BOOLEAN /\ identity' \in BOOLEAN /\ circuit' \in BOOLEAN
    BY <2>1
  <2>5. sock' \in [Pairs -> SocketPairs] /\ \A p \in Pairs : sock'[p].r = "idle"
    BY <2>1, StatesMade
  <2>6. /\ status' \in Statuses /\ loop' \in Places /\ opening' \in Pairs \cup {NoPair}
        /\ (loop' \in {"daemon", "relay"}) = (opening' # NoPair)
    BY <2>1 DEF Statuses, Places
  <2>7. BridgeTypeOK'
    BY <2>1, <2>2, <2>3, <2>4, <2>5, <2>6 DEF BridgeInv, BridgeTypeOK, SocketPairs
  <2>8. OpenHasSlot' /\ LoopIsReconnecting' /\ NeverStranded'
    BY <2>1, <2>5 DEF OpenHasSlot, LoopIsReconnecting, NeverStranded
  <2> QED
    BY <2>7, <2>8 DEF BridgeInv
<1>4. CASE RelaySeesClose
  <2>1. /\ relaySlot' = NoPair /\ relaySlot # NoPair /\ sock[relaySlot].r # "open"
        /\ UNCHANGED <<running, reconnecting, status, loop, opening, cur, identity, failures>>
        /\ UNCHANGED <<circuit, sock, bridgeFaults>>
    BY <1>4 DEF RelaySeesClose, own
  <2>2. BridgeTypeOK'
    BY <2>1 DEF BridgeInv, BridgeTypeOK
  <2> QED
    BY <2>1, <2>2 DEF BridgeInv, OpenHasSlot, LoopIsReconnecting, NeverStranded
<1> QED
  BY <1>2, <1>3, <1>4

(* The close handlers. *)
LEMMA CloseEventStep ==
  ASSUME BridgeInv, NEW p \in Pairs, NEW side \in {"d", "r"}, CloseEvent(p, side)
  PROVE  BridgeInv'
<1> DEFINE s == [sock EXCEPT ![p][side] = "idle"]
<1>1. sock \in [Pairs -> SocketPairs]
  BY DEF BridgeInv, BridgeTypeOK, SocketPairs
<1>2. /\ s \in [Pairs -> SocketPairs] /\ \A q \in Pairs \ {p} : s[q] = sock[q]
      /\ s[p].handlers = sock[p].handlers /\ s[p].r \in {sock[p].r, "idle"}
  <2>1. "idle" \in SocketStates
    BY DEF SocketStates
  <2>2. CASE side = "d"
    <3>1. s = [sock EXCEPT ![p].d = "idle"]
      BY <2>2
    <3> HIDE DEF s
    <3> QED
      BY <1>1, <2>1, <3>1, LocalSet
  <2>3. CASE side = "r"
    <3>1. s = [sock EXCEPT ![p].r = "idle"]
      BY <2>3
    <3> HIDE DEF s
    <3> QED
      BY <1>1, <2>1, <3>1, RelaySet
  <2> QED
    BY <2>2, <2>3
<1>3. CASE running /\ ~reconnecting
  <2>1. sock' = Close(s, p, p) /\ cur' = [d |-> NoPair, r |-> NoPair] /\ EnterLoop
    BY <1>3 DEF CloseEvent
  <2>2. UNCHANGED <<running, opening, identity, failures, circuit, relaySlot, bridgeFaults>>
    BY DEF CloseEvent
  <2> HIDE DEF s
  <2>3. Quiet
    <3>1. \A q \in Pairs : s[q].r = "open" => sock[q].r = "open"
      BY <1>2
    <3> QED
      BY <1>2, <2>1, <3>1, CloseIs DEF Quiet
  <2>4. /\ reconnecting' \in BOOLEAN /\ status' \in Statuses /\ loop' \in Places
        /\ loop' \notin {"daemon", "relay", "none"} /\ reconnecting'
    BY <2>1 DEF EnterLoop, Statuses, Places
  <2>5. loop = "none"
    BY <1>3 DEF BridgeInv, LoopIsReconnecting
  <2>6. BridgeTypeOK'
    BY <2>1, <2>2, <2>3, <2>4, <2>5 DEF BridgeInv, BridgeTypeOK, Quiet, SocketPairs
  <2>7. OpenHasSlot'
    BY <2>2, <2>3 DEF BridgeInv, OpenHasSlot, Quiet
  <2>8. LoopIsReconnecting' /\ NeverStranded'
    BY <2>4 DEF LoopIsReconnecting, NeverStranded
  <2> QED
    BY <2>6, <2>7, <2>8 DEF BridgeInv
<1>4. CASE ~(running /\ ~reconnecting)
  <2>1. /\ sock' = Tidy(s)
        /\ UNCHANGED <<running, opening, identity, failures, circuit, relaySlot, bridgeFaults>>
        /\ UNCHANGED <<cur, reconnecting, status, loop>>
    BY <1>4 DEF CloseEvent
  <2> HIDE DEF s
  <2>2. Quiet
    BY <1>2, <2>1, TidyIs DEF Quiet
  <2>3. ~running \/ loop # "none"
    BY <1>4 DEF BridgeInv, LoopIsReconnecting
  <2>4. BridgeTypeOK'
    BY <2>1, <2>2 DEF BridgeInv, BridgeTypeOK, Quiet, SocketPairs
  <2>5. OpenHasSlot'
    BY <2>1, <2>2 DEF BridgeInv, OpenHasSlot, Quiet
  <2>6. LoopIsReconnecting' /\ NeverStranded'
    BY <2>1, <2>3 DEF BridgeInv, LoopIsReconnecting, NeverStranded
  <2> QED
    BY <2>4, <2>5, <2>6 DEF BridgeInv
<1> QED
  BY <1>3, <1>4

(* Late opens, redirects and broken sockets. *)
LEMMA SocketsStep ==
  ASSUME BridgeInv, NEW p \in Pairs,
         LateOpen(p) \/ Redirect(p) \/ \E side \in {"d", "r"} : Breaks(p, side)
  PROVE  BridgeInv'
<1>1. sock \in [Pairs -> SocketPairs] /\ {"idle", "open"} \subseteq SocketStates
  BY DEF BridgeInv, BridgeTypeOK, SocketPairs, SocketStates
<1>2. UNCHANGED <<running, reconnecting, status, loop, opening, cur, identity, failures, circuit>>
  BY DEF LateOpen, Redirect, Breaks, own
<1>3. ASSUME sock' \in [Pairs -> SocketPairs], OpenHasSlot', Heard,
             relaySlot' \in Pairs \cup {NoPair}, bridgeFaults' \in 0..MaxBridgeFaults
      PROVE  BridgeInv'
  <2>1. BridgeTypeOK'
    BY <1>2, <1>3 DEF BridgeInv, BridgeTypeOK, SocketPairs
  <2>2. cur \in [{"d", "r"} -> Pairs \cup {NoPair}]
    BY DEF BridgeInv, BridgeTypeOK
  <2>3. LoopIsReconnecting' /\ NeverStranded'
    BY <1>2, <1>3, <2>2 DEF BridgeInv, LoopIsReconnecting, NeverStranded, Heard, Alive
  <2> QED
    BY <1>3, <2>1, <2>3 DEF BridgeInv
<1>4. bridgeFaults' \in 0..MaxBridgeFaults
  BY BridgeAssumption DEF LateOpen, Redirect, Breaks, BridgeInv, BridgeTypeOK
<1>5. CASE LateOpen(p)
  <2>1. CASE Admission(p) = p
    <3>1. sock' = [sock EXCEPT ![p].r = "open"] /\ relaySlot' = p /\ sock[p].r = "late"
      BY <1>5, <2>1 DEF LateOpen
    <3>2. /\ sock' \in [Pairs -> SocketPairs] /\ \A q \in Pairs \ {p} : sock'[q] = sock[q]
          /\ sock'[p].r = "open"
      BY <1>1, <3>1, RelaySet
    <3>3. relaySlot \in {p, NoPair}
      BY <2>1 DEF Admission
    <3>4. OpenHasSlot'
      BY <3>1, <3>2, <3>3, BridgeAssumption DEF BridgeInv, OpenHasSlot
    <3>5. Heard
      BY <3>1, <3>2 DEF Heard, Alive
    <3> QED
      BY <1>3, <1>4, <3>1, <3>2, <3>4, <3>5
  <2>2. CASE Admission(p) # p
    <3> DEFINE s == [sock EXCEPT ![p].r = "idle"]
    <3>1. sock' = Tidy(s) /\ relaySlot' = relaySlot /\ sock[p].r = "late"
      BY <1>5, <2>2 DEF LateOpen
    <3>2. /\ s \in [Pairs -> SocketPairs] /\ \A q \in Pairs \ {p} : s[q] = sock[q]
          /\ s[p].r = "idle"
      BY <1>1, RelaySet
    <3> HIDE DEF s
    <3>3. /\ sock' \in [Pairs -> SocketPairs]
          /\ \A q \in Pairs : sock'[q].r = s[q].r /\ (s[q].r # "idle" => sock'[q] = s[q])
      BY <3>1, <3>2, TidyIs
    <3>4. OpenHasSlot'
      BY <3>1, <3>2, <3>3 DEF BridgeInv, OpenHasSlot
    <3>5. Heard
      BY <3>1, <3>2, <3>3 DEF Heard, Alive
    <3>6. relaySlot' \in Pairs \cup {NoPair}
      BY <3>1 DEF BridgeInv, BridgeTypeOK
    <3> QED
      BY <1>3, <1>4, <3>3, <3>4, <3>5, <3>6
  <2> QED
    BY <2>1, <2>2
<1>6. CASE Redirect(p)
  <2>1. sock' = Close(sock, p, p) /\ relaySlot' = relaySlot
    BY <1>6 DEF Redirect
  <2>2. /\ sock' \in [Pairs -> SocketPairs] /\ Heard
        /\ \A q \in Pairs : sock'[q].r = "open" => sock[q].r = "open"
    BY <1>1, <2>1, CloseIs DEF Heard, Alive
  <2>3. OpenHasSlot' /\ relaySlot' \in Pairs \cup {NoPair}
    BY <2>1, <2>2 DEF BridgeInv, OpenHasSlot, BridgeTypeOK
  <2> QED
    BY <1>3, <1>4, <2>2, <2>3
<1>7. ASSUME NEW side \in {"d", "r"}, Breaks(p, side) PROVE BridgeInv'
  <2> DEFINE x == CloseSide(sock[p][side], sock[p].handlers)
             s == [sock EXCEPT ![p][side] = x]
  <2>1. sock' = Tidy(s) /\ relaySlot' = relaySlot /\ sock[p][side] = "open"
    BY <1>7 DEF Breaks
  <2>2. sock[p].handlers \in BOOLEAN
    BY <1>1 DEF SocketPairs
  <2>3. x \in SocketStates /\ x # "open" /\ (sock[p].handlers => x = "closed")
    BY <1>1, <2>1, <2>2, StatesMade
  <2> HIDE DEF x
  <2>4. /\ s \in [Pairs -> SocketPairs] /\ \A q \in Pairs \ {p} : s[q] = sock[q]
        /\ s[p].handlers = sock[p].handlers
        /\ s[p].r = sock[p].r \/ s[p].r = x
    <3>1. CASE side = "d"
      <4>1. s = [sock EXCEPT ![p].d = x]
        BY <3>1
      <4> HIDE DEF s
      <4> QED
        BY <1>1, <2>3, <4>1, LocalSet
    <3>2. CASE side = "r"
      <4>1. s = [sock EXCEPT ![p].r = x]
        BY <3>2
      <4> HIDE DEF s
      <4> QED
        BY <1>1, <2>3, <4>1, RelaySet
    <3> QED
      BY <3>1, <3>2
  <2> HIDE DEF s
  <2>5. /\ sock' \in [Pairs -> SocketPairs]
        /\ \A q \in Pairs : sock'[q].r = s[q].r /\ (s[q].r # "idle" => sock'[q] = s[q])
    BY <2>1, <2>4, TidyIs
  <2>6. OpenHasSlot' /\ relaySlot' \in Pairs \cup {NoPair}
    BY <2>1, <2>3, <2>4, <2>5 DEF BridgeInv, OpenHasSlot, BridgeTypeOK
  <2>7. Heard
    BY <2>3, <2>4, <2>5 DEF Heard, Alive
  <2> QED
    BY <1>3, <1>4, <2>5, <2>6, <2>7
<1> QED
  BY <1>5, <1>6, <1>7

(* The bridge is never stranded, without a socket or a loop that makes one, and
   it has one socket open with the relay at most (NeverStranded and OneRelaySocket
   of RelayBridge), whatever the pairs, the threshold and the faults. *)
THEOREM BridgeStaysWhole == BridgeInit /\ [][BridgeNext]_bridgeVars => []BridgeHolds
<1>1. BridgeInit => BridgeInv
  <2> SUFFICES ASSUME BridgeInit PROVE BridgeInv
    OBVIOUS
  <2>1. sock \in [Pairs -> SocketPairs] /\ \A p \in Pairs : sock[p].r = "idle"
    BY StatesMade DEF BridgeInit
  <2>2. failures \in 0..Threshold /\ bridgeFaults \in 0..MaxBridgeFaults
    BY BridgeAssumption DEF BridgeInit
  <2>3. /\ running \in BOOLEAN /\ reconnecting \in BOOLEAN
        /\ identity \in BOOLEAN /\ circuit \in BOOLEAN
    BY DEF BridgeInit
  <2>4. BridgeTypeOK
    BY <2>1, <2>2, <2>3 DEF BridgeInit, BridgeTypeOK, SocketPairs, Statuses, Places
  <2> QED
    BY <2>1, <2>4 DEF BridgeInit, BridgeInv, OpenHasSlot, LoopIsReconnecting, NeverStranded
<1>2. BridgeInv /\ [BridgeNext]_bridgeVars => BridgeInv'
  <2>1. ASSUME BridgeInv, UNCHANGED bridgeVars PROVE BridgeInv'
    BY <2>1 DEF bridgeVars, own, BridgeInv, BridgeTypeOK, OpenHasSlot, LoopIsReconnecting,
                NeverStranded
  <2> QED
    BY <2>1, FailuresStep, LoopStep, StopStep, CloseEventStep, SocketsStep DEF BridgeNext
<1>3. BridgeInv => BridgeHolds
  <2> SUFFICES ASSUME BridgeInv PROVE OneRelaySocket
    BY DEF BridgeInv, BridgeHolds
  <2> DEFINE Open == {p \in Pairs : sock[p].r = "open"}
  <2>1. Open \subseteq {relaySlot}
    BY DEF BridgeInv, OpenHasSlot
  <2> HIDE DEF Open
  <2>2. Cardinality({relaySlot}) = 1 /\ IsFiniteSet({relaySlot})
    BY FS_Singleton
  <2>3. Cardinality(Open) <= 1
    BY <2>1, <2>2, FS_Subset
  <2> QED
    BY <2>3 DEF OneRelaySocket, Open
<1> QED
  BY <1>1, <1>2, <1>3, PTL

-----------------------------------------------------------------------------
(* Both ends *)

(* The bridge and the relay agree on one socket in the run of both ends too,
   where only the end that is chosen takes steps (BridgeHolds of MCRelay). *)
THEOREM RelayKeepsBridge == RelaySpec => []BridgeHolds
<1>1. RelayInit => BridgeInit
  BY DEF RelayInit
<1>2. [RelayNext]_relayVars => [BridgeNext]_bridgeVars
  <2> USE DEF bridgeVars
  <2> QED
    BY DEF RelayNext, relayVars
<1> QED
  BY <1>1, <1>2, BridgeStaysWhole, PTL DEF RelaySpec
=============================================================================
