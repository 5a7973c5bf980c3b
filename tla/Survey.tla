------------------------------- MODULE Survey -------------------------------
(***************************************************************************)
(* What the UAV and the gateway promise each other: the gateway's network  *)
(* mission runs only while the UAV holds at a point, and the UAV leaves a  *)
(* point only after the mission there has ended.  Mission implements it.   *)
(***************************************************************************)
VARIABLES
  holding,  \* the UAV holds at a point
  session,  \* the gateway runs a network mission
  served    \* the mission at this point has ended

vars == <<holding, session, served>>

TypeOK == {holding, session, served} \subseteq BOOLEAN

Init == holding = FALSE /\ session = FALSE /\ served = FALSE

Arrive == /\ ~holding /\ ~session
          /\ holding' = TRUE /\ served' = FALSE
          /\ UNCHANGED session

Open == /\ holding /\ ~session /\ ~served
        /\ session' = TRUE
        /\ UNCHANGED <<holding, served>>

Close == /\ session
         /\ session' = FALSE /\ served' = TRUE
         /\ UNCHANGED holding

(* The gateway loses its mission: it restarts.                             *)
Abort == /\ session
         /\ session' = FALSE
         /\ UNCHANGED <<holding, served>>

Leave == /\ holding /\ served /\ ~session
         /\ holding' = FALSE
         /\ UNCHANGED <<session, served>>

Next == Arrive \/ Open \/ Close \/ Abort \/ Leave

Spec == Init /\ [][Next]_vars
=============================================================================
