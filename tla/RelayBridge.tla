----------------------------- MODULE RelayBridge -----------------------------
(***************************************************************************)
(* The daemon's relay bridge (packages/daemon/src/relay): a loop that gets *)
(* a relay token from the control plane, opens a socket to the local       *)
(* daemon and one to the relay, and starts again when either closes; and   *)
(* the one place the relay service has for a daemon's socket, which        *)
(* refuses a second socket while it believes the first to be open.         *)
(*                                                                         *)
(* start() is called once per process, before anything here, and stop()    *)
(* precedes its orderly end: at most one activation of connectLoop exists. *)
(* A pair is the daemon socket and the relay socket of one connection.     *)
(***************************************************************************)
EXTENDS Integers, FiniteSets

CONSTANTS
  Pairs,           \* names of socket pairs, reused once a pair is forgotten
  NoPair,          \* null
  Threshold,       \* ISSUE_FAILURE_THRESHOLD
  MaxBridgeFaults        \* bound: refusals, timeouts and dropped connections

ASSUME BridgeAssumption ==
  /\ IsFiniteSet(Pairs) /\ Pairs # {} /\ NoPair \notin Pairs
  /\ Threshold \in Nat \ {0} /\ MaxBridgeFaults \in Nat

VARIABLES
  running,       \* between start() and stop()
  reconnecting,  \* a connectLoop is under way
  status,        \* state, as getStatus() shows it
  loop,          \* where the connectLoop awaits; "none" without one
  opening,       \* the pair the loop is opening
  cur,           \* daemonWs and relayWs
  sock,          \* the two sockets of each pair, and whether it has handlers
  identity,      \* daemonIdentity has been loaded
  failures,      \* consecutiveIssueFailures
  circuit,       \* circuitOpenUntilMs lies ahead
  relaySlot,     \* relay service: state.daemon, while the relay sees it open
  bridgeFaults   \* faults of the environment so far

own == <<running, reconnecting, status, loop, opening, cur, identity, failures,
         circuit>>
bridgeVars == <<own, sock, relaySlot, bridgeFaults>>

(* A socket is idle (not made), being opened, open, closed with its close
   event still to be handled, or "late": the loop has given up waiting for
   it but nothing has closed it. *)
SocketStates == {"idle", "opening", "open", "closed", "late"}
Forgotten == [d |-> "idle", r |-> "idle", handlers |-> FALSE]
Statuses == {"stopped", "connecting", "connected", "waiting_retry", "circuit_open"}
Places == {"none", "circuit", "issue", "daemon", "relay", "backoff"}

\* start() up to the first await of connectLoop.
BridgeInit ==
  /\ running = TRUE /\ reconnecting = TRUE /\ status = "connecting"
  /\ loop = "issue" /\ opening = NoPair
  /\ cur = [d |-> NoPair, r |-> NoPair]
  /\ sock = [p \in Pairs |-> Forgotten]
  /\ identity = FALSE /\ failures = 0 /\ circuit = FALSE
  /\ relaySlot = NoPair /\ bridgeFaults = 0

-----------------------------------------------------------------------------
(* Closing.  The close event of a socket without handlers does nothing.    *)

CloseSide(state, handlers) ==
  CASE state \in {"idle", "closed"} -> state
    [] state \in {"opening", "late"} -> "idle"
    [] OTHER -> IF handlers THEN "closed" ELSE "idle"

\* A pair whose sockets are both over is forgotten, and its name free again.
Tidy(socks) ==
  [p \in Pairs |-> IF socks[p].d = "idle" /\ socks[p].r = "idle"
                   THEN Forgotten ELSE socks[p]]

\* closeQuietly of the sockets d and r (of possibly different pairs).
Close(socks, d, r) ==
  Tidy([p \in Pairs |->
     [socks[p] EXCEPT
        !.d = IF p = d THEN CloseSide(@, socks[p].handlers) ELSE @,
        !.r = IF p = r THEN CloseSide(@, socks[p].handlers) ELSE @]])

-----------------------------------------------------------------------------
(* connectLoop.                                                            *)

\* The head of connectLoop up to its first await; the callers see to it that
\* running holds and reconnecting does not.
EnterLoop ==
  /\ reconnecting' = TRUE
  /\ status' = IF circuit THEN "circuit_open" ELSE "connecting"
  /\ loop' = IF circuit THEN "circuit" ELSE "issue"

\* The sleep that ends when the circuit does.
CircuitWaited ==
  /\ loop = "circuit"
  /\ loop' = "issue" /\ circuit' = FALSE
  /\ UNCHANGED <<running, reconnecting, status, opening, cur, sock, identity,
                 failures, relaySlot, bridgeFaults>>

\* Which name a new pair gets is of no account.
FreeNames == {p \in Pairs : sock[p] = Forgotten /\ relaySlot # p}

\* The key is registered and a token issued; the daemon socket is begun.
Issued ==
  /\ loop = "issue"
  /\ identity' = TRUE /\ failures' = 0 /\ circuit' = FALSE
  /\ FreeNames # {}
  /\ opening' = CHOOSE p \in FreeNames : TRUE
  /\ sock' = [sock EXCEPT ![opening'].d = "opening"]
  /\ loop' = "daemon"
  /\ UNCHANGED <<running, reconnecting, status, cur, relaySlot, bridgeFaults>>

DaemonOpens ==
  /\ loop = "daemon"
  /\ sock' = [sock EXCEPT ![opening].d = "open", ![opening].r = "opening"]
  /\ cur' = [cur EXCEPT !.d = opening]
  /\ loop' = "relay"
  /\ UNCHANGED <<running, reconnecting, status, opening, identity, failures,
                 circuit, relaySlot, bridgeFaults>>

\* Variant for mutation testing: the relay lets a new socket replace the old.
AdmissionOfNewest(p) == p

\* The relay admits the socket into an empty slot and closes any other.
Admission(p) == IF relaySlot = NoPair THEN p ELSE relaySlot

\* Variant for mutation testing: the flag is left set when the loop ends.
RelayOpensStillReconnecting ==
  /\ loop = "relay"
  /\ sock' = [sock EXCEPT ![opening].handlers = TRUE,
                ![opening].r = IF Admission(opening) = opening
                                  THEN "open" ELSE "closed"]
  /\ relaySlot' = Admission(opening)
  /\ cur' = [cur EXCEPT !.r = opening]
  /\ status' = "connected" /\ UNCHANGED reconnecting
  /\ loop' = "none" /\ opening' = NoPair
  /\ UNCHANGED <<running, identity, failures, circuit, bridgeFaults>>

\* The relay socket opens: handlers are installed, what was kept is sent to
\* the sessions (there are none), and the loop ends.  A refusal is a close of
\* the open socket.  running is not looked at.
RelayOpens ==
  /\ loop = "relay"
  /\ sock' = [sock EXCEPT ![opening].handlers = TRUE,
                ![opening].r = IF Admission(opening) = opening
                                  THEN "open" ELSE "closed"]
  /\ relaySlot' = Admission(opening)
  /\ cur' = [cur EXCEPT !.r = opening]
  /\ status' = "connected" /\ reconnecting' = FALSE
  /\ loop' = "none" /\ opening' = NoPair
  /\ UNCHANGED <<running, identity, failures, circuit, bridgeFaults>>

(* The catch clause.  What the loop was waiting for is given up, not
   closed: only this.relayWs and this.daemonWs are. *)
Caught(socks) ==
  /\ sock' = Close(socks, cur.d, cur.r)
  /\ cur' = [d |-> NoPair, r |-> NoPair]
  /\ opening' = NoPair
  /\ IF running
     THEN /\ status' = "waiting_retry" /\ loop' = "backoff"
          /\ UNCHANGED reconnecting
     ELSE /\ reconnecting' = FALSE /\ loop' = "none" /\ UNCHANGED status
  /\ bridgeFaults < MaxBridgeFaults /\ bridgeFaults' = bridgeFaults + 1
  /\ UNCHANGED <<running, relaySlot>>

\* The control plane refuses or cannot be reached.
IssueFails ==
  /\ loop = "issue" /\ identity' = TRUE
  /\ failures' = IF failures < Threshold THEN failures + 1 ELSE failures
  /\ circuit' = (circuit \/ failures + 1 >= Threshold)
  /\ Caught(sock)

\* The daemon's identity can be neither read nor written: no control-plane
\* error, and no request has been made yet.
IdentityFails ==
  /\ loop = "issue" /\ ~identity
  /\ Caught(sock)
  /\ UNCHANGED <<identity, failures, circuit>>

\* wsOpen rejects: on an error the socket is gone, on a timeout it is left
\* to open later; a local socket that does so affects nothing.
OpenFails ==
  /\ \/ loop = "daemon" /\ Caught([sock EXCEPT ![opening].d = "idle"])
     \/ /\ loop = "relay"
        /\ \E after \in {"idle", "late"} :
             Caught([sock EXCEPT ![opening].r = after])
  /\ UNCHANGED <<identity, failures, circuit>>

BackoffWaited ==
  /\ loop = "backoff"
  /\ IF running THEN EnterLoop
     ELSE /\ reconnecting' = FALSE /\ loop' = "none" /\ UNCHANGED status
  /\ UNCHANGED <<running, opening, cur, sock, identity,
                 failures, circuit, relaySlot, bridgeFaults>>

Stop ==
  /\ running
  /\ running' = FALSE /\ reconnecting' = FALSE /\ status' = "stopped"
  /\ sock' = Close(sock, cur.d, cur.r)
  /\ cur' = [d |-> NoPair, r |-> NoPair]
  /\ UNCHANGED <<loop, opening, identity, failures, circuit, relaySlot, bridgeFaults>>

-----------------------------------------------------------------------------
(* The sockets' events.                                                    *)

\* The handler `reconnect' of the pair's two close events.
CloseEvent(p, side) ==
  /\ sock[p][side] = "closed" /\ sock[p].handlers
  /\ IF running /\ ~reconnecting
     THEN /\ sock' = Close([sock EXCEPT ![p][side] = "idle"], p, p)
          /\ cur' = [d |-> NoPair, r |-> NoPair]
          /\ EnterLoop
     ELSE /\ sock' = Tidy([sock EXCEPT ![p][side] = "idle"])
          /\ UNCHANGED <<cur, reconnecting, status, loop>>
  /\ UNCHANGED <<running, opening, identity, failures, circuit, relaySlot, bridgeFaults>>

\* A connection breaks, or the other side closes it; also the local one of a
\* pair whose relay socket is still being opened, which has no handler yet.
Breaks(p, side) ==
  /\ sock[p][side] = "open"
  /\ bridgeFaults < MaxBridgeFaults /\ bridgeFaults' = bridgeFaults + 1
  /\ sock' = Tidy([sock EXCEPT ![p][side] = CloseSide(@, sock[p].handlers)])
  /\ UNCHANGED <<own, relaySlot>>

\* A socket the loop gave up opens after all; the relay may close it again.
\* Nobody listens to it.
LateOpen(p) ==
  /\ sock[p].r = "late"
  /\ IF Admission(p) = p
     THEN sock' = [sock EXCEPT ![p].r = "open"] /\ relaySlot' = p
     ELSE sock' = Tidy([sock EXCEPT ![p].r = "idle"]) /\ UNCHANGED relaySlot
  /\ UNCHANGED <<own, bridgeFaults>>

\* The daemon's process dies (the error event of a socket nobody listens to
\* is enough, and that is how a late open fails) and is started again; the
\* relay has yet to notice.
Crash ==
  /\ running /\ bridgeFaults < MaxBridgeFaults /\ bridgeFaults' = bridgeFaults + 1
  /\ reconnecting' = TRUE /\ status' = "connecting" /\ loop' = "issue"
  /\ opening' = NoPair /\ cur' = [d |-> NoPair, r |-> NoPair]
  /\ sock' = [p \in Pairs |-> Forgotten]
  /\ identity' = FALSE /\ failures' = 0 /\ circuit' = FALSE
  /\ UNCHANGED <<running, relaySlot>>

\* Variant for mutation testing: no heartbeat, the relay notices a close only
\* while the bridge's socket still waits for its own close event.
RelaySeesOrderlyClose ==
  /\ relaySlot # NoPair /\ sock[relaySlot].r = "closed"
  /\ relaySlot' = NoPair
  /\ UNCHANGED <<own, sock, bridgeFaults>>

\* The relay's close handler, or its heartbeat: clearDaemon.
RelaySeesClose ==
  /\ relaySlot # NoPair /\ sock[relaySlot].r # "open"
  /\ relaySlot' = NoPair
  /\ UNCHANGED <<own, sock, bridgeFaults>>

\* RELAY_REDIRECT: the new endpoint is kept for the next attempt.
Redirect(p) ==
  /\ sock[p].handlers /\ sock[p].r = "open"
  /\ bridgeFaults < MaxBridgeFaults /\ bridgeFaults' = bridgeFaults + 1
  /\ sock' = Close(sock, p, p)
  /\ UNCHANGED <<own, relaySlot>>

BridgeNext ==
  \/ CircuitWaited \/ Issued \/ DaemonOpens \/ RelayOpens
  \/ IssueFails \/ IdentityFails \/ OpenFails \/ BackoffWaited \/ Stop
  \/ RelaySeesClose \/ Crash
  \/ \E p \in Pairs :
       \/ \E side \in {"d", "r"} : CloseEvent(p, side) \/ Breaks(p, side)
       \/ LateOpen(p) \/ Redirect(p)

(* Every await of the loop ends: requests and sockets have timeouts, sleeps
   are bounded.  A close is eventually reported, to the bridge by the close
   timeout of its sockets and to the relay by its heartbeat. *)
BridgeFairness ==
  /\ WF_bridgeVars(CircuitWaited) /\ WF_bridgeVars(BackoffWaited)
  /\ WF_bridgeVars(Issued \/ IssueFails \/ IdentityFails)
  /\ WF_bridgeVars(DaemonOpens \/ RelayOpens \/ OpenFails)
  /\ WF_bridgeVars(RelaySeesClose)
  /\ \A p \in Pairs :
       /\ WF_bridgeVars(\E side \in {"d", "r"} : CloseEvent(p, side))
       /\ WF_bridgeVars(LateOpen(p))

BridgeSpec == BridgeInit /\ [][BridgeNext]_bridgeVars /\ BridgeFairness

-----------------------------------------------------------------------------
BridgeTypeOK ==
  /\ running \in BOOLEAN /\ reconnecting \in BOOLEAN
  /\ status \in Statuses /\ loop \in Places
  /\ opening \in Pairs \cup {NoPair}
  /\ (loop \in {"daemon", "relay"}) = (opening # NoPair)
  /\ cur \in [{"d", "r"} -> Pairs \cup {NoPair}]
  /\ sock \in [Pairs -> [d : SocketStates, r : SocketStates, handlers : BOOLEAN]]
  /\ identity \in BOOLEAN /\ failures \in 0..Threshold /\ circuit \in BOOLEAN
  /\ relaySlot \in Pairs \cup {NoPair} /\ bridgeFaults \in 0..MaxBridgeFaults

(* While the bridge is meant to run, either a connectLoop is under way or
   the current relay socket has its handlers and its close has not been
   handled: whatever order close events, failures and late opens come in, no
   path leaves a running bridge that nothing will reconnect. *)
NeverStranded ==
  running /\ loop = "none" =>
    /\ cur.r # NoPair /\ cur.d = cur.r
    /\ sock[cur.r].handlers /\ sock[cur.r].r \in {"open", "closed"}

(* Two relay sockets of this daemon are never open at once: the relay's one
   slot keeps a client's frames from being answered over two connections,
   also while the bridge has lost track of an older pair. *)
OneRelaySocket ==
  Cardinality({p \in Pairs : sock[p].r = "open"}) <= 1

Usable ==
  /\ cur.r # NoPair /\ relaySlot = cur.r
  /\ sock[cur.r].d = "open" /\ sock[cur.r].r = "open"

(* The two ways the code can stall: a socket the bridge no longer refers to
   occupies the relay's slot, so that every new one is refused; or the local
   socket closed before its handler was installed. *)
SlotOrphaned == relaySlot # NoPair /\ relaySlot # cur.r /\ sock[relaySlot].r = "open"
Deaf ==
  cur.r # NoPair /\ sock[cur.r].r = "open" /\ sock[cur.r].d = "idle"

(* Once connections stop breaking the bridge settles: it is stopped, or has a
   working pair in the relay's slot, or is in one of the two stalls above; no
   other interleaving keeps it from reconnecting. *)
EventuallySettles == <>[](~running \/ Usable \/ SlotOrphaned \/ Deaf)
=============================================================================
