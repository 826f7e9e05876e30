------------------------------ MODULE MCRelay -------------------------------
(***************************************************************************)
(* The two ends of a daemon's connection to the relay, checked in one run: *)
(* the daemon's bridge with a relay reduced to one place for its socket,   *)
(* and the relays with a daemon reduced to its session keys.  They share   *)
(* no state; the initial state chooses which of them takes steps.          *)
(***************************************************************************)
EXTENDS RelayRouting, RelayBridge

CONSTANTS r1, r2, c1, c2

VARIABLE end  \* "bridge" or "relays"

\* One client behind each relay.
Apart == (c1 :> r1) @@ (c2 :> r2)

relayVars == <<end, vars, bridgeVars>>

RelayInit == end \in {"bridge", "relays"} /\ Init /\ BridgeInit

RelayNext ==
  /\ UNCHANGED end
  /\ \/ end = "bridge" /\ BridgeNext /\ UNCHANGED vars
     \/ end = "relays" /\ Next /\ UNCHANGED bridgeVars

(* BridgeFairness, asked of the bridge while it takes steps. *)
BridgeMoves == end = "bridge"
RelayFairness ==
  /\ WF_bridgeVars(BridgeMoves /\ CircuitWaited) /\ WF_bridgeVars(BridgeMoves /\ BackoffWaited)
  /\ WF_bridgeVars(BridgeMoves /\ (Issued \/ IssueFails \/ IdentityFails))
  /\ WF_bridgeVars(BridgeMoves /\ (DaemonOpens \/ RelayOpens \/ OpenFails))
  /\ WF_bridgeVars(BridgeMoves /\ RelaySeesClose)
  /\ \A p \in Pairs :
       /\ WF_bridgeVars(BridgeMoves /\ \E side \in {"d", "r"} : CloseEvent(p, side))
       /\ WF_bridgeVars(BridgeMoves /\ LateOpen(p))

RelaySpec == RelayInit /\ [][RelayNext]_relayVars /\ RelayFairness

(* The bridge and the relay agree on one socket: a pair that is up is known
   to the bridge, and it has at most one socket with the relay. *)
BridgeHolds == NeverStranded /\ OneRelaySocket

(* EventuallySettles, of the behaviours in which the bridge takes steps: once
   connections stop breaking it is stopped, has a working pair in the relay's
   slot, or is in one of the two stalls that are named there. *)
BridgeSettles == BridgeMoves => EventuallySettles
=============================================================================
