------------------------------ MODULE MCMission ------------------------------
(* The states in which the properties of Mission still say something.      *)
EXTENDS Mission

(* Nothing bounds the missions under way once network_control has started  *)
(* another one for a UAV that was sent off: TLC stops there.               *)
InScope == ~(interrupted /\ restarted)
=============================================================================
