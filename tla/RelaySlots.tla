----------------------------- MODULE RelaySlots -----------------------------
(***************************************************************************)
(* Where a runtime target's daemon is connected: per relay the slot        *)
(* state.daemon of services/relay/src/registry.ts, and the sockets whose   *)
(* close events are still to come.  A socket has the generation of its     *)
(* token.  RelayRouting and RelayPresence build on it.                     *)
(***************************************************************************)
EXTENDS Integers

CONSTANTS Relays, None, MaxTokens  \* bound: tokens issued to the daemon

ASSUME SlotsAssumption == MaxTokens \in Nat

VARIABLES
  slot,     \* per relay: state.daemon, the generation of its socket, 0: null
  latest,   \* per relay: daemonIssueGeneration, 0: null
  closing,  \* sockets <<relay, generation>> closed, close event to come
  tokens,   \* the generations of tokens not yet used
  daemon    \* where the daemon's socket is connected: relay and generation

slotVars == <<slot, latest, closing, tokens, daemon>>

Generations == 1..MaxTokens
Offline == [at |-> None, gen |-> 0]

SlotInit ==
  /\ slot = [r \in Relays |-> 0] /\ latest = [r \in Relays |-> 0]
  /\ closing = {} /\ tokens = Generations /\ daemon = Offline

\* state.daemon is set and its socket open.
DaemonOpen(r) == slot[r] # 0 /\ <<r, slot[r]>> \notin closing

\* The relay's socket is the one the daemon has.
Reaches(r) == daemon = [at |-> r, gen |-> slot[r]]

\* registerConnection: a stale generation and a second daemon are refused.
Admitted(r, g) == g >= latest[r] /\ ~DaemonOpen(r)

\* The daemon connects with a token, admitted or not.
SlotConnect(r, g) ==
  /\ g \in tokens /\ daemon = Offline
  /\ tokens' = tokens \ {g}
  /\ IF Admitted(r, g)
     THEN /\ slot' = [slot EXCEPT ![r] = g]
          /\ latest' = [latest EXCEPT ![r] = g]
          /\ daemon' = [at |-> r, gen |-> g]
     ELSE UNCHANGED <<slot, latest, daemon>>
  /\ UNCHANGED closing

\* The daemon's socket is lost, or its bridge closes it.
SlotDrop ==
  /\ daemon # Offline /\ daemon' = Offline
  /\ UNCHANGED <<slot, latest, closing, tokens>>

\* The relay finds the socket closed, at once or by its heartbeat.
SlotNotices(r) ==
  /\ DaemonOpen(r) /\ ~Reaches(r)
  /\ closing' = closing \cup {<<r, slot[r]>>}
  /\ UNCHANGED <<slot, latest, tokens, daemon>>

\* Variant for mutation testing: the close event of any socket does.
ClearsAlways(r, g) == TRUE

\* clearDaemon: does the close event of this socket empty the slot?
Clears(r, g) == slot[r] = g

\* The close event of a daemon's socket.
SlotClosed(r, g) ==
  /\ <<r, g>> \in closing /\ closing' = closing \ {<<r, g>>}
  /\ slot' = [slot EXCEPT ![r] = IF Clears(r, g) THEN 0 ELSE @]
  /\ UNCHANGED <<latest, tokens, daemon>>

\* pruneEmpty: the scope is forgotten, with its generation.
SlotForgotten(r) ==
  /\ slot[r] = 0 /\ latest[r] # 0
  /\ latest' = [latest EXCEPT ![r] = 0]
  /\ UNCHANGED <<slot, closing, tokens, daemon>>

SlotNext ==
  \/ \E r \in Relays :
       \/ \E g \in Generations : SlotConnect(r, g) \/ SlotClosed(r, g)
       \/ SlotNotices(r) \/ SlotForgotten(r)
  \/ SlotDrop

SlotSpec == SlotInit /\ [][SlotNext]_slotVars

SlotTypeOK ==
  /\ slot \in [Relays -> 0..MaxTokens] /\ latest \in [Relays -> 0..MaxTokens]
  /\ closing \subseteq Relays \X Generations /\ tokens \subseteq Generations
  /\ daemon \in [at : Relays \cup {None}, gen : 0..MaxTokens]

(* The slot of the relay the daemon is connected to is the daemon's: neither
   the late close event of an older socket nor an older token takes it away
   ("does not mark presence offline when a stale daemon socket closes after
   replacement"). *)
SlotIsDaemons == daemon # Offline => slot[daemon.at] = daemon.gen
=============================================================================
