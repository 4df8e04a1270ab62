----------------------------- MODULE MCSession ------------------------------
(***************************************************************************)
(* The path of a seat's call, for TLC: three stories that do not mix, each *)
(* with the rest of the path at rest.                                      *)
(*   relay: one relay process, its client and the adapter's connection;    *)
(*   life:  two instances of the plugin start, stop, crash and recover;    *)
(*   calls: one instance and everything a seat does with it.               *)
(***************************************************************************)
EXTENDS Relay, Bridge, TLC

CONSTANTS a, b
VARIABLE story
MCHost == a :> 1 @@ b :> 2
MCPin == a :> 1 @@ b :> 2

Init ==
    /\ story \in {"relay", "life", "calls"}
    /\ RelayInit /\ (mode = "exit" <=> story # "relay")
    /\ BridgeInit

Next ==
    /\ UNCHANGED story
    /\ \/ story = "relay" /\ RelayNext /\ UNCHANGED bridgeVars
       \/ story = "life" /\ BridgeNext /\ UNCHANGED <<seatVars, relayVars>>
       \/ story = "calls" /\ BridgeNext /\ at'[b] = "off" /\ UNCHANGED <<stopped[b], relayVars>>

Spec == Init /\ [][Next]_<<story, relayVars, bridgeVars>> /\ RelayFairness /\ BridgeFairness
=============================================================================
