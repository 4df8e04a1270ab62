------------------------------ MODULE MCAlerts ------------------------------
(* One Peer turn and one Lead turn that answers it. *)
EXTENDS Alerts, TLC
CONSTANTS s, r, h, t

MCSends ==  t :> [to |-> Peer, accepted |-> TRUE]
MCAnchors == t :> {h}
MCRoutes == [mode : {"notify"}, to : {s, r}] \cup {[mode |-> "shadow", to |-> s]}
MCInit == Init /\ config = [mode |-> "notify", to |-> s]
MCFairSpec == MCInit /\ [][Next]_vars /\ Fairness
=============================================================================
