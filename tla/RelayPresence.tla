---------------------------- MODULE RelayPresence ----------------------------
(***************************************************************************)
(* The shared entry that names the relay a runtime target's daemon is      *)
(* connected to (services/relay/src/redis-backplane.ts).  Every relay      *)
(* writes it on its own connection: when its daemon comes and goes, and on *)
(* a timer; writes of two relays may take effect in either order.          *)
(***************************************************************************)
EXTENDS RelaySlots, Sequences

CONSTANT MaxPresenceFaults  \* bound: lost sockets and failed writes

VARIABLES
  target,    \* per relay: the scope's runtimeTargetId is set
  presence,  \* the relay the entry names, or None
  updates,   \* per relay: writes under way, oldest first; TRUE: online
  presenceFaults  \* faults so far

presenceVars == <<slotVars, target, presence, updates, presenceFaults>>

PresenceInit ==
  /\ SlotInit /\ target = [r \in Relays |-> FALSE]
  /\ presence = None /\ updates = [r \in Relays |-> <<>>] /\ presenceFaults = 0

Updates(r, online) == updates' = [updates EXCEPT ![r] = Append(@, online)]

PresenceConnect(r, g) ==
  /\ SlotConnect(r, g)
  /\ target' = [target EXCEPT ![r] = TRUE]
  /\ IF Admitted(r, g) THEN Updates(r, TRUE) ELSE UNCHANGED updates
  /\ UNCHANGED <<presence, presenceFaults>>

PresenceDrops ==
  /\ presenceFaults < MaxPresenceFaults /\ presenceFaults' = presenceFaults + 1
  /\ SlotDrop /\ UNCHANGED <<target, presence, updates>>

RelayNotices(r) ==
  SlotNotices(r) /\ UNCHANGED <<target, presence, updates, presenceFaults>>

\* The close handler: presence goes offline only with the current daemon.
DaemonCloseEvent(r, g) ==
  /\ SlotClosed(r, g)
  /\ IF Clears(r, g) THEN Updates(r, FALSE) ELSE UNCHANGED updates
  /\ UNCHANGED <<target, presence, presenceFaults>>

PruneEmpty(r) ==
  /\ SlotForgotten(r) /\ target' = [target EXCEPT ![r] = FALSE]
  /\ UNCHANGED <<presence, updates, presenceFaults>>

\* A client connects, or a frame comes over the bus, with the target; an
\* answer, an envelope or a session event is routed, which erases it.
ScopeTouched(r) ==
  /\ slot[r] # 0 /\ target' = [target EXCEPT ![r] = ~@]
  /\ UNCHANGED <<slotVars, presence, updates, presenceFaults>>

\* Variant for mutation testing: presence is refreshed only where it is named.
PresenceSyncIfNamed(r) ==
  /\ DaemonOpen(r) /\ target[r] /\ updates[r] = <<>> /\ presence = r
  /\ Updates(r, TRUE) /\ UNCHANGED <<slotVars, target, presence, presenceFaults>>

\* presenceSyncInterval; for a scope without its runtime target it refreshes
\* another key.
PresenceSync(r) ==
  /\ DaemonOpen(r) /\ target[r] /\ updates[r] = <<>>
  /\ Updates(r, TRUE) /\ UNCHANGED <<slotVars, target, presence, presenceFaults>>

\* upsertPresence takes effect: going offline deletes the entry, whichever
\* relay it names.
PresenceApplied(r) ==
  /\ updates[r] # <<>>
  /\ presence' = IF Head(updates[r]) THEN r ELSE None
  /\ updates' = [updates EXCEPT ![r] = Tail(@)]
  /\ UNCHANGED <<slotVars, target, presenceFaults>>

\* upsertPresence fails: the error is logged and the write forgotten.
PresenceFails(r) ==
  /\ presenceFaults < MaxPresenceFaults /\ presenceFaults' = presenceFaults + 1
  /\ updates[r] # <<>>
  /\ updates' = [updates EXCEPT ![r] = Tail(@)]
  /\ UNCHANGED <<slotVars, target, presence>>

\* The entry's time to live ends unless the relay it names refreshes it.
PresenceExpires ==
  /\ presence # None /\ ~(DaemonOpen(presence) /\ target[presence])
  /\ presence' = None
  /\ UNCHANGED <<slotVars, target, updates, presenceFaults>>

PresenceNext ==
  \/ PresenceDrops \/ PresenceExpires
  \/ \E r \in Relays :
       \/ \E g \in Generations : PresenceConnect(r, g) \/ DaemonCloseEvent(r, g)
       \/ RelayNotices(r) \/ PruneEmpty(r) \/ ScopeTouched(r)
       \/ PresenceSync(r) \/ PresenceApplied(r) \/ PresenceFails(r)

(* Closed sockets are noticed, close events arrive, writes are carried out,
   the entry expires, and the timer fires again and again. *)
PresenceFairness ==
  /\ WF_presenceVars(PresenceExpires)
  /\ \A r \in Relays :
       /\ WF_presenceVars(RelayNotices(r)) /\ WF_presenceVars(PresenceApplied(r))
       /\ WF_presenceVars(PresenceSync(r))
       /\ \A g \in Generations : WF_presenceVars(DaemonCloseEvent(r, g))

PresenceTypeOK ==
  /\ SlotTypeOK /\ target \in [Relays -> BOOLEAN]
  /\ presence \in Relays \cup {None} /\ presenceFaults \in 0..MaxPresenceFaults
  /\ \A r \in Relays : updates[r] \in Seq(BOOLEAN)

(* Once the daemon stays connected to a relay, presence settles on it, and
   once it stays away the entry goes, although writes of two relays overtake
   each other and a late "offline" deletes the other relay's entry.  It takes
   a scope that keeps its runtime target: without it the timer refreshes
   another entry. *)
PresenceSettles ==
  /\ <>[](daemon = Offline) => <>[](presence = None)
  /\ \A r \in Relays :
       <>[](daemon.at = r /\ target[r]) => <>[](presence = r)
=============================================================================
