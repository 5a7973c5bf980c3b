------------------------------- MODULE MCFlood -------------------------------
(* Relay 2 in range of the source; relays 3 and 4 behind it, 3 in range of *)
(* both others, so that copies come back and overtake each other; the UAV, *)
(* node 5, in range of relay 4.                                            *)
EXTENDS Flood, TLC

Ranges == 1 :> {2} @@ 2 :> {3, 4} @@ 3 :> {2, 4} @@ 4 :> {3, 5} @@ 5 :> {}
=============================================================================
