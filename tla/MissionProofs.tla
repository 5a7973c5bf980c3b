---------------------------- MODULE MissionProofs ----------------------------
(***************************************************************************)
(* Proofs about Mission for every number of waypoints, samples and queue   *)
(* places, with loss, restarts and take-offs that wait inside one another: *)
(* types, that one mission runs at a time, that Mission implements Survey, *)
(* and that the UAV brakes only where it was in bounds long enough.        *)
(***************************************************************************)
EXTENDS Mission, SequenceTheorems, FiniteSetTheorems, TLAPS

-----------------------------------------------------------------------------
(* Lemmas about queues.                                                    *)

(* A queue stays within its bound and its type.                            *)
LEMMA PublishType ==
  ASSUME NEW T, NEW topic \in Seq(T), NEW m \in T, Len(topic) <= TopicLen
  PROVE  Publish(topic, m) \in Seq(T) /\ Len(Publish(topic, m)) <= TopicLen
<1> USE CountsAssumption
<1>1. CASE Len(topic) < TopicLen
  BY <1>1 DEF Publish
<1>2. CASE ~(Len(topic) < TopicLen)
  <2>1. topic # <<>>
    BY <1>2
  <2> DEFINE rest == Tail(topic)
  <2>2. rest \in Seq(T) /\ Len(rest) = Len(topic) - 1
    BY <2>1, HeadTailProperties
  <2>3. Publish(topic, m) = Append(rest, m)
    BY <1>2 DEF Publish
  <2> HIDE DEF rest
  <2> QED
    BY <2>2, <2>3
<1> QED
  BY <1>1, <1>2

(* What is published comes last; all the others were in the queue before.  *)
LEMMA PublishLast ==
  ASSUME NEW T, NEW topic \in Seq(T), NEW m \in T
  PROVE  Publish(topic, m) # <<>> /\ Publish(topic, m)[Len(Publish(topic, m))] = m
<1> DEFINE rest == IF Len(topic) < TopicLen THEN topic ELSE Tail(topic)
<1>1. rest \in Seq(T)
  <2>1. topic = <<>> => Len(topic) < TopicLen
    BY CountsAssumption
  <2>2. topic # <<>> => Tail(topic) \in Seq(T)
    BY HeadTailProperties
  <2> QED
    BY <2>1, <2>2
<1>2. Publish(topic, m) = Append(rest, m)
  BY DEF Publish
<1> HIDE DEF rest
<1>3. Append(rest, m) \in Seq(T) /\ Len(Append(rest, m)) = Len(rest) + 1
  BY <1>1
<1> QED
  BY <1>1, <1>2, <1>3

(* A message that is not in the queue yet can only come last in it.        *)
LEMMA PublishNew ==
  ASSUME NEW T, NEW topic \in Seq(T), NEW m \in T,
         NEW x, \A i \in 1..Len(topic) : topic[i] # x
  PROVE  /\ m # x => \A i \in 1..Len(Publish(topic, m)) : Publish(topic, m)[i] # x
         /\ \A i \in 1..Len(Publish(topic, m)) :
              Publish(topic, m)[i] = x => i = Len(Publish(topic, m))
<1> DEFINE rest == IF Len(topic) < TopicLen THEN topic ELSE Tail(topic)
<1>1. rest \in Seq(T) /\ \A i \in 1..Len(rest) : rest[i] # x
  <2>1. topic = <<>> => Len(topic) < TopicLen
    BY CountsAssumption
  <2>2. topic # <<>> => /\ Tail(topic) \in Seq(T) /\ Len(Tail(topic)) = Len(topic) - 1
                        /\ \A i \in 1..Len(Tail(topic)) : Tail(topic)[i] = topic[i + 1]
    BY HeadTailProperties
  <2>3. topic # <<>> => \A i \in 1..Len(Tail(topic)) : Tail(topic)[i] # x
    BY <2>2
  <2> QED
    BY <2>1, <2>2, <2>3
<1>2. Publish(topic, m) = Append(rest, m)
  BY DEF Publish
<1> HIDE DEF rest
<1>3. /\ Len(Append(rest, m)) = Len(rest) + 1 /\ Append(rest, m)[Len(rest) + 1] = m
      /\ \A i \in 1..Len(rest) : Append(rest, m)[i] = rest[i]
  BY <1>1
<1> QED
  BY <1>1, <1>2, <1>3

(* The head and the tail of a queue that is not empty.                     *)
LEMMA HeadTail ==
  ASSUME NEW T, NEW q \in Seq(T), q # <<>>
  PROVE  /\ Head(q) \in T /\ Head(q) = q[1] /\ Tail(q) \in Seq(T)
         /\ Len(q) > 0 /\ Len(Tail(q)) = Len(q) - 1
         /\ \A i \in 1..Len(q)-1 : Tail(q)[i] = q[i + 1]
         /\ Tail(q) = SubSeq(q, 2, Len(q))
<1>1. Len(q) > 0 /\ Head(q) = q[1]
  BY EmptySeq
<1> QED
  BY <1>1, HeadTailProperties, TailIsSubSeq

(* A queue without its first k messages, without its last one, and the     *)
(* window of samples.                                                      *)
LEMMA Shorter ==
  ASSUME NEW T, NEW q \in Seq(T), NEW m \in Nat \ {0}, NEW n \in 0..Len(q)
  PROVE  SubSeq(q, m, n) \in Seq(T) /\ Len(SubSeq(q, m, n)) = IF m <= n THEN n - m + 1 ELSE 0
<1>1. \A i \in m..n : q[i] \in T
  OBVIOUS
<1> QED
  BY <1>1, SubSeqProperties

(* The window of samples after one more sample.                            *)
LEMMA WindowType ==
  ASSUME NEW w \in Seq(BOOLEAN), NEW within \in BOOLEAN
  PROVE  LastSeen(Append(w, within)) \in Seq(BOOLEAN)
<1> DEFINE a == Append(w, within)
<1>1. a \in Seq(BOOLEAN)
  OBVIOUS
<1> HIDE DEF a
<1>2. \A m \in {1, 2} : SubSeq(a, m, Len(a)) \in Seq(BOOLEAN)
  BY <1>1, Shorter
<1>3. LastSeen(a) = SubSeq(a, 1, Len(a)) \/ LastSeen(a) = SubSeq(a, 2, Len(a))
  BY DEF LastSeen
<1> QED
  BY <1>2, <1>3 DEF a

-----------------------------------------------------------------------------
(* Types.                                                                  *)

(* The samples that count for a target start at 0 and are spent when the   *)
(* UAV starts to brake.                                                    *)
Counting == break_counter = 0 => inbound_counter <= IN_BOUNDS

(* TypeOK by the shape of the types.                                       *)
TypeFlags == /\ finished \in BOOLEAN /\ menu \in BOOLEAN /\ ok \in BOOLEAN
             /\ starting \in BOOLEAN
             /\ served \in BOOLEAN /\ interrupted \in BOOLEAN /\ restarted \in BOOLEAN
TypeScalars ==
  /\ fly_mode \in {"TEST", "MISSION"} /\ running_state \in System_state
  /\ waypoint_count \in 0..WAYPOINT_NUM
  /\ inbound_counter \in 0..IN_BOUNDS+1 /\ outbound_counter \in 0..OUT_OF_BOUNDS
  /\ break_counter \in 0..BRAKE+1
  /\ flight \in {"ground", "air", "finished_landing"}
  /\ network_msg \in Network_state /\ net_state \in Network_state \ {"UNSTART"}
  /\ uav_state \in Flight_state
  /\ NET_cmd \in NET_CMD \cup {None} /\ UAV_cmd \in NET_CMD \cup {None}
  /\ serialEvents \in Nat /\ gate_state \in {"SLEEP", "MISSION"}
TypeQueues ==
  /\ seen \in Seq(BOOLEAN)
  /\ takeoffs \in Seq(BOOLEAN) /\ Len(takeoffs) <= MaxPending
  /\ stateTopic \in Seq(Flight_state) /\ Len(stateTopic) <= TopicLen
  /\ networkTopic \in Seq(Network_state) /\ Len(networkTopic) <= TopicLen
  /\ toGateway \in Seq({"START_MISSION"}) /\ toUav \in Seq({"START_FLY"})

(* TypeOK is the conjunction of the three.                                 *)
LEMMA TypeParts == TypeOK <=> TypeFlags /\ TypeScalars /\ TypeQueues
<1>1. ASSUME TypeOK PROVE TypeFlags /\ TypeScalars /\ TypeQueues
  <2>1. TypeFlags
    BY <1>1, Zenon DEF TypeOK, TypeFlags
  <2>2. TypeScalars
    BY <1>1, Zenon DEF TypeOK, TypeScalars
  <2>3. TypeQueues
    BY <1>1, Zenon DEF TypeOK, TypeQueues
  <2> QED
    BY <2>1, <2>2, <2>3
<1>2. ASSUME TypeFlags, TypeScalars, TypeQueues PROVE TypeOK
  <2>1. /\ finished \in BOOLEAN /\ menu \in BOOLEAN /\ ok \in BOOLEAN
        /\ starting \in BOOLEAN
        /\ served \in BOOLEAN /\ interrupted \in BOOLEAN /\ restarted \in BOOLEAN
    BY <1>2, Zenon DEF TypeFlags
  <2>2. /\ fly_mode \in {"TEST", "MISSION"} /\ running_state \in System_state
        /\ waypoint_count \in 0..WAYPOINT_NUM
        /\ inbound_counter \in 0..IN_BOUNDS+1 /\ outbound_counter \in 0..OUT_OF_BOUNDS
        /\ break_counter \in 0..BRAKE+1
    BY <1>2, Zenon DEF TypeScalars
  <2>3. /\ flight \in {"ground", "air", "finished_landing"}
        /\ network_msg \in Network_state /\ net_state \in Network_state \ {"UNSTART"}
        /\ uav_state \in Flight_state
        /\ NET_cmd \in NET_CMD \cup {None} /\ UAV_cmd \in NET_CMD \cup {None}
        /\ serialEvents \in Nat /\ gate_state \in {"SLEEP", "MISSION"}
    BY <1>2, Zenon DEF TypeScalars
  <2>4. /\ seen \in Seq(BOOLEAN)
        /\ takeoffs \in Seq(BOOLEAN) /\ Len(takeoffs) <= MaxPending
        /\ stateTopic \in Seq(Flight_state) /\ Len(stateTopic) <= TopicLen
        /\ networkTopic \in Seq(Network_state) /\ Len(networkTopic) <= TopicLen
        /\ toGateway \in Seq({"START_MISSION"}) /\ toUav \in Seq({"START_FLY"})
    BY <1>2, Zenon DEF TypeQueues
  <2> QED
    BY <2>1, <2>2, <2>3, <2>4, Zenon DEF TypeOK
<1> QED
  BY <1>1, <1>2

(* The actions of a step.                                                  *)
LEMMA NextCases ==
  ASSUME [Next]_vars
  PROVE  \/ NetworkStateCallback \/ MainMenu \/ TakeoffReturns \/ Rise \/ TouchDown
         \/ (\E within \in BOOLEAN : Sample(within)) \/ Brake \/ Arrive \/ Depart \/ TaskMenu
         \/ StartMission \/ WaitMission \/ NextPoint \/ SpinOnce \/ read_thread \/ NetRestart
         \/ GatewayReads \/ GatewaySerialEvent \/ MissionTimer \/ GatewayRestart \/ LoseFrame
         \/ UNCHANGED vars
BY Zenon DEF Next, UavStep, ContinueFlying, NetStep, GatewayStep

(* What the operator types.                                                *)
LEMMA MenuTypes ==
  ASSUME TypeOK, test_menu
  PROVE  /\ (finished' = finished \/ finished' = FALSE) /\ (ok' = ok \/ ok' = FALSE)
         /\ running_state' \in {running_state, "LANDING"}
         /\ \/ takeoffs' = takeoffs
            \/ Len(takeoffs) < MaxPending /\ takeoffs' = Append(takeoffs, flight # "air")
         /\ UNCHANGED missionVars \/ Reset
<1>1. CASE TypeTakeoff
  BY <1>1 DEF TypeTakeoff, missionVars
<1>2. CASE TypeGoPoint
  BY <1>2 DEF TypeGoPoint, Reset
<1>3. CASE TypeLand
  BY <1>3 DEF TypeLand, missionVars
<1>4. CASE TypeQuit
  BY <1>4 DEF TypeQuit, missionVars
<1>5. CASE TypeOther
  BY <1>5 DEF TypeOther, missionVars
<1> QED
  BY <1>1, <1>2, <1>3, <1>4, <1>5 DEF test_menu

(* Every step keeps the flags Boolean.                                     *)
LEMMA FlagsStep ==
  ASSUME TypeOK, [Next]_vars
  PROVE  TypeFlags'
<1> USE DEF TypeOK, TypeFlags, vars, uavVars, missionVars, netVars, topicVars, lineVars, gateVars,
           history
<1>1. CASE NetworkStateCallback
  BY <1>1, Zenon DEF NetworkStateCallback
<1>2. CASE MainMenu
  <2>1. (finished' = finished \/ finished' = FALSE) /\ (ok' = ok \/ ok' = FALSE)
    BY <1>2, MenuTypes DEF MainMenu
  <2>2. UNCHANGED <<starting, served, interrupted, restarted>> /\ menu' \in BOOLEAN
    BY <1>2, Zenon DEF MainMenu
  <2> QED
    BY <2>1, <2>2, Zenon
<1>3. CASE TakeoffReturns
  <2>1. UNCHANGED <<ok, starting, served, restarted>> /\ menu' \in BOOLEAN
    BY <1>3, Zenon DEF TakeoffReturns
  <2>2. finished' = finished \/ finished' = FALSE
    BY <1>3, Zenon DEF TakeoffReturns, Reset
  <2>3. interrupted' \in BOOLEAN
    BY <1>3, Zenon DEF TakeoffReturns
  <2> QED
    BY <2>1, <2>2, <2>3, Zenon
<1>4. CASE Rise
  BY <1>4, Zenon DEF Rise
<1>5. CASE TouchDown
  BY <1>5, Zenon DEF TouchDown
<1>6. CASE \E within \in BOOLEAN : Sample(within)
  BY <1>6, Zenon DEF Sample
<1>7. CASE Brake
  BY <1>7, Zenon DEF Brake
<1>8. CASE Arrive
  BY <1>8, Zenon DEF Arrive
<1>9. CASE Depart
  BY <1>9, Zenon DEF Depart, Reset
<1>10. CASE TaskMenu
  <2>1. (finished' = finished \/ finished' = FALSE) /\ (ok' = ok \/ ok' = FALSE)
    BY <1>10, MenuTypes DEF TaskMenu
  <2>2. UNCHANGED <<menu, starting, served, interrupted, restarted>>
    BY <1>10, Zenon DEF TaskMenu
  <2> QED
    BY <2>1, <2>2, Zenon
<1>11. CASE StartMission
  BY <1>11, Zenon DEF StartMission
<1>12. CASE WaitMission
  BY <1>12, Zenon DEF WaitMission
<1>13. CASE NextPoint
  BY <1>13, Zenon DEF NextPoint
<1>14. CASE SpinOnce
  BY <1>14, Zenon DEF SpinOnce
<1>15. CASE read_thread
  BY <1>15, Zenon DEF read_thread
<1>16. CASE NetRestart
  BY <1>16, Zenon DEF NetRestart
<1>17. CASE GatewayReads
  BY <1>17, Zenon DEF GatewayReads
<1>18. CASE GatewaySerialEvent
  BY <1>18, Zenon DEF GatewaySerialEvent
<1>19. CASE MissionTimer
  BY <1>19, Zenon DEF MissionTimer
<1>20. CASE GatewayRestart
  BY <1>20, Zenon DEF GatewayRestart
<1>21. CASE LoseFrame
  BY <1>21, Zenon DEF LoseFrame
<1>22. CASE UNCHANGED vars
  BY <1>22, Zenon
<1> QED
  BY <1>1, <1>2, <1>3, <1>4, <1>5, <1>6, <1>7, <1>8, <1>9, <1>10, <1>11, <1>12, <1>13, <1>14,
     <1>15, <1>16, <1>17, <1>18, <1>19, <1>20, <1>21, <1>22, NextCases, Zenon

(* Every step keeps states, counters and commands in their ranges.         *)
LEMMA ScalarsStep ==
  ASSUME TypeOK, Counting, [Next]_vars
  PROVE  TypeScalars' /\ Counting'
<1> USE CountsAssumption
    DEF TypeScalars, Counting, System_state, Network_state, Flight_state, NET_CMD,
        vars, uavVars, missionVars, netVars, topicVars, lineVars, gateVars
<1>types. TypeScalars /\ TypeQueues
  BY TypeParts
<1>1. CASE NetworkStateCallback
  <2>1. network_msg' \in Network_state
    BY <1>1, <1>types, HeadTail DEF NetworkStateCallback, TypeQueues
  <2> QED
    BY <1>1, <1>types, <2>1 DEF NetworkStateCallback
<1>2. CASE MainMenu
  <2>1. /\ UNCHANGED missionVars \/ Reset
        /\ running_state' \in {running_state, "LANDING"}
    BY <1>2, MenuTypes DEF MainMenu
  <2> QED
    BY <1>2, <1>types, <2>1 DEF MainMenu, Reset
<1>3. CASE TakeoffReturns
  <2>1. /\ UNCHANGED missionVars \/ Reset
        /\ running_state' \in {running_state, "FLY_NEXT_POINT"}
    BY <1>3, Zenon DEF TakeoffReturns
  <2> QED
    BY <1>3, <1>types, <2>1 DEF TakeoffReturns, Reset
<1>4. CASE Rise
  BY <1>4, <1>types DEF Rise
<1>5. CASE TouchDown
  BY <1>5, <1>types DEF TouchDown
<1>6. CASE \E within \in BOOLEAN : Sample(within)
  <2>1. PICK within \in BOOLEAN : Sample(within)
    BY <1>6
  <2> QED
    BY <2>1, <1>types DEF Sample
<1>7. CASE Brake
  BY <1>7, <1>types DEF Brake
<1>8. CASE Arrive
  BY <1>8, <1>types DEF Arrive
<1>9. CASE Depart
  BY <1>9, <1>types DEF Depart, Reset
<1>10. CASE TaskMenu
  <2>1. /\ UNCHANGED missionVars \/ Reset
        /\ running_state' \in {running_state, "LANDING"}
    BY <1>10, MenuTypes DEF TaskMenu
  <2> QED
    BY <1>10, <1>types, <2>1 DEF TaskMenu, Reset
<1>spun. Spun \in Flight_state
  BY <1>types DEF Spun, TypeQueues
<1>11. CASE StartMission
  BY <1>11, <1>types, <1>spun DEF StartMission
<1>12. CASE WaitMission
  BY <1>12, <1>types DEF WaitMission
<1>13. CASE NextPoint
  BY <1>13, <1>types DEF NextPoint
<1>14. CASE SpinOnce
  BY <1>14, <1>types, <1>spun DEF SpinOnce
<1>15. CASE read_thread
  <2>1. NET_cmd' \in {"START_FLY"}
    BY <1>15, <1>types, HeadTail DEF read_thread, TypeQueues
  <2> QED
    BY <1>15, <1>types, <2>1 DEF read_thread
<1>16. CASE NetRestart
  BY <1>16, <1>types DEF NetRestart
<1>17. CASE GatewayReads
  <2>1. UAV_cmd' \in {"START_MISSION"}
    BY <1>17, <1>types, HeadTail DEF GatewayReads, TypeQueues
  <2> QED
    BY <1>17, <1>types, <2>1 DEF GatewayReads
<1>18. CASE GatewaySerialEvent
  BY <1>18, <1>types DEF GatewaySerialEvent
<1>19. CASE MissionTimer
  BY <1>19, <1>types DEF MissionTimer
<1>20. CASE GatewayRestart
  BY <1>20, <1>types DEF GatewayRestart
<1>21. CASE LoseFrame
  BY <1>21, <1>types DEF LoseFrame
<1>22. CASE UNCHANGED vars
  BY <1>22, <1>types
<1> QED
  BY <1>1, <1>2, <1>3, <1>4, <1>5, <1>6, <1>7, <1>8, <1>9, <1>10, <1>11, <1>12, <1>13, <1>14,
     <1>15, <1>16, <1>17, <1>18, <1>19, <1>20, <1>21, <1>22, NextCases, Zenon

(* The queues that a step leaves alone, and those it takes a message from  *)
(* or adds one to.                                                         *)
LEMMA QueuesStep ==
  ASSUME TypeOK, [Next]_vars
  PROVE  TypeQueues'
<1> USE CountsAssumption
    DEF vars, uavVars, missionVars, netVars, topicVars, lineVars, gateVars
<1>types. TypeQueues
  BY TypeParts
<1>blank. <<>> \in Seq(BOOLEAN)
  OBVIOUS
<1> DEFINE Sight  == seen \in Seq(BOOLEAN)
           Stack  == takeoffs \in Seq(BOOLEAN) /\ Len(takeoffs) <= MaxPending
           StateQ == stateTopic \in Seq(Flight_state) /\ Len(stateTopic) <= TopicLen
           NetQ   == networkTopic \in Seq(Network_state) /\ Len(networkTopic) <= TopicLen
           Lines  == toGateway \in Seq({"START_MISSION"}) /\ toUav \in Seq({"START_FLY"})
<1>now. Sight /\ Stack /\ StateQ /\ NetQ /\ Lines
  BY <1>types DEF TypeQueues
<1>goal. SUFFICES Sight' /\ Stack' /\ StateQ' /\ NetQ' /\ Lines'
  BY DEF TypeQueues
<1>state. \A m \in Flight_state :
       Publish(stateTopic, m) \in Seq(Flight_state) /\ Len(Publish(stateTopic, m)) <= TopicLen
  BY <1>now, PublishType, Zenon
<1>net. \A m \in Network_state :
       Publish(networkTopic, m) \in Seq(Network_state) /\ Len(Publish(networkTopic, m)) <= TopicLen
  BY <1>now, PublishType, Zenon
<1>push. ASSUME Len(takeoffs) < MaxPending, takeoffs' = Append(takeoffs, flight # "air")
     PROVE  Stack'
  <2>1. (flight # "air") \in BOOLEAN
    BY Zenon
  <2> DEFINE b == flight # "air"
  <2> HIDE DEF b
  <2>2. takeoffs' = Append(takeoffs, b)
    BY <1>push DEF b
  <2>3. b \in BOOLEAN
    BY <2>1 DEF b
  <2> QED
    BY <1>now, <1>push, <2>2, <2>3
<1>1. CASE NetworkStateCallback
  <2>1. Tail(networkTopic) \in Seq(Network_state) /\ Len(Tail(networkTopic)) <= TopicLen
    BY <1>1, <1>now, HeadTail DEF NetworkStateCallback
  <2> QED
    BY <1>1, <1>now, <2>1 DEF NetworkStateCallback
<1>2. CASE MainMenu
  <2>1. Sight'
    <3>1. UNCHANGED missionVars \/ Reset
      BY <1>2, MenuTypes DEF MainMenu
    <3> QED
      BY <1>now, <1>blank, <3>1, Zenon DEF Reset
  <2>2. Stack'
    BY <1>2, <1>now, <1>push, MenuTypes DEF MainMenu
  <2> QED
    BY <1>2, <1>now, <2>1, <2>2 DEF MainMenu
<1>3. CASE TakeoffReturns
  <2>1. Sight'
    BY <1>3, <1>now DEF TakeoffReturns, Reset
  <2>2. takeoffs' = SubSeq(takeoffs, 1, Len(takeoffs) - 1) /\ takeoffs # <<>>
    BY <1>3 DEF TakeoffReturns
  <2>3. Len(takeoffs) > 0
    BY <1>now, <2>2, EmptySeq
  <2>4. Stack'
    BY <1>now, <2>2, <2>3, Shorter
  <2> QED
    BY <1>3, <1>now, <2>1, <2>4 DEF TakeoffReturns
<1>4. CASE Rise
  BY <1>4, <1>now DEF Rise
<1>5. CASE TouchDown
  BY <1>5, <1>now DEF TouchDown
<1>6. CASE \E within \in BOOLEAN : Sample(within)
  BY <1>6, <1>now, WindowType DEF Sample
<1>7. CASE Brake
  BY <1>7, <1>now DEF Brake
<1>8. CASE Arrive
  BY <1>8, <1>now, <1>state DEF Arrive, Flight_state
<1>9. CASE Depart
  <2>1. Sight'
    BY <1>9 DEF Depart, Reset
  <2> QED
    BY <1>9, <1>now, <1>state, <2>1 DEF Depart, Flight_state
<1>10. CASE TaskMenu
  <2>1. Sight'
    <3>1. UNCHANGED missionVars \/ Reset
      BY <1>10, MenuTypes DEF TaskMenu
    <3> QED
      BY <1>now, <1>blank, <3>1, Zenon DEF Reset
  <2>2. Stack'
    BY <1>10, <1>now, <1>push, MenuTypes DEF TaskMenu
  <2> QED
    BY <1>10, <1>now, <2>1, <2>2 DEF TaskMenu
<1>none. <<>> \in Seq(Flight_state) /\ Len(<<>>) <= TopicLen /\ <<>> \in Seq({"START_FLY"})
         /\ <<>> \in Seq({"START_MISSION"})
  OBVIOUS
<1>11. CASE StartMission
  <2>1. Lines'
    BY <1>11, <1>now DEF StartMission
  <2> QED
    BY <1>11, <1>now, <1>none, <2>1 DEF StartMission
<1>12. CASE WaitMission
  BY <1>12, <1>now, <1>net DEF WaitMission, Network_state
<1>13. CASE NextPoint
  BY <1>13, <1>now, <1>none, <1>net DEF NextPoint, Network_state
<1>14. CASE SpinOnce
  BY <1>14, <1>now, <1>none DEF SpinOnce
<1>15. CASE read_thread
  <2>1. Tail(toUav) \in Seq({"START_FLY"})
    BY <1>15, <1>now, HeadTail DEF read_thread
  <2> QED
    BY <1>15, <1>now, <2>1 DEF read_thread
<1>16. CASE NetRestart
  BY <1>16, <1>now, <1>none DEF NetRestart
<1>17. CASE GatewayReads
  <2>1. Tail(toGateway) \in Seq({"START_MISSION"})
    BY <1>17, <1>now, HeadTail DEF GatewayReads
  <2> QED
    BY <1>17, <1>now, <2>1 DEF GatewayReads
<1>18. CASE GatewaySerialEvent
  BY <1>18, <1>now DEF GatewaySerialEvent
<1>19. CASE MissionTimer
  <2>1. Lines'
    BY <1>19, <1>now DEF MissionTimer
  <2> QED
    BY <1>19, <1>now, <2>1 DEF MissionTimer
<1>20. CASE GatewayRestart
  BY <1>20, <1>now, <1>none DEF GatewayRestart
<1>21. CASE LoseFrame
  <2>1. toGateway # <<>> => Tail(toGateway) \in Seq({"START_MISSION"})
    BY <1>now, HeadTail
  <2>2. toUav # <<>> => Tail(toUav) \in Seq({"START_FLY"})
    BY <1>now, HeadTail
  <2> QED
    BY <1>21, <1>now, <2>1, <2>2 DEF LoseFrame
<1>22. CASE UNCHANGED vars
  BY <1>22, <1>now
<1> QED
  BY <1>1, <1>2, <1>3, <1>4, <1>5, <1>6, <1>7, <1>8, <1>9, <1>10, <1>11, <1>12, <1>13, <1>14,
     <1>15, <1>16, <1>17, <1>18, <1>19, <1>20, <1>21, <1>22, NextCases, Zenon

(* TypeOK and Counting hold at the start.                                  *)
LEMMA TypeInit ==
  ASSUME Init
  PROVE  TypeOK /\ Counting
<1> USE CountsAssumption
<1>1. TypeFlags
  BY Zenon DEF Init, TypeFlags
<1>2. TypeScalars /\ Counting
  BY DEF Init, TypeScalars, Counting, System_state, Network_state, Flight_state, NET_CMD
<1>3. TypeQueues
  BY DEF Init, TypeQueues
<1> QED
  BY <1>1, <1>2, <1>3, TypeParts

(* Every step keeps TypeOK and Counting.                                   *)
LEMMA TypeStep ==
  ASSUME TypeOK, Counting, [Next]_vars
  PROVE  TypeOK' /\ Counting'
<1>1. TypeFlags' /\ TypeScalars' /\ TypeQueues' /\ Counting'
  BY FlagsStep, ScalarsStep, QueuesStep
<1>2. TypeFlags' /\ TypeScalars' /\ TypeQueues' => TypeOK'
  BY TypeParts, PTL
<1> QED
  BY <1>1, <1>2

(* Every variable keeps its type, whatever is lost and however often       *)
(* network_control and the gateway restart.                                *)
THEOREM TypeCorrect == Spec => []TypeOK
<1>1. Init => TypeOK /\ Counting
  BY TypeInit
<1>2. TypeOK /\ Counting /\ [Next]_vars => TypeOK' /\ Counting'
  BY TypeStep
<1> QED
  BY <1>1, <1>2, PTL DEF Spec

-----------------------------------------------------------------------------
(* Whose turn it is, until a take-off that waited sends the UAV off from a *)
(* point, in the middle of a mission.                                      *)

(* Nothing is under way and network_control waits for the next arrival.    *)
Quiet == UnderWay = 0 /\ ~starting /\ net_state = "SLEEPING" /\ Spun = "FLYING"

(* Before main has called its test_menu the UAV has not moved.             *)
Menus == menu /\ takeoffs = <<>> => running_state = "INIT"

(* Unless the UAV holds at a point, all is quiet.                          *)
TurnOfUav == running_state # "DOING_MISSION" => Quiet /\ networkTopic = <<>>

(* SLEEPING is said last, when all is quiet and the mission was flown.     *)
TurnOver ==
  /\ \A i \in 1..Len(networkTopic) :
       networkTopic[i] = "SLEEPING" => i = Len(networkTopic) /\ Quiet /\ served
  /\ network_msg = "SLEEPING" => networkTopic = <<>> /\ Quiet
  /\ running_state = "DOING_MISSION" /\ network_msg = "SLEEPING" => served

(* One thing is under way at a time, and served tells on which side of the *)
(* mission it is.                                                          *)
TurnOfGateway ==
  /\ UnderWay <= 1
  /\ net_state = "WORKING" => ~starting
  /\ Spun = "ARRIVE_POINT" /\ net_state = "SLEEPING" /\ ~starting => UnderWay = 0 /\ ~served
  /\ net_state = "WORKING" /\ NET_cmd = "START_FLY" => UnderWay = 0 /\ served
  /\ toUav # <<>> => served
  /\ (toGateway # <<>> \/ serialEvents > 0) => ~served

TurnInv == Menus /\ TurnOfUav /\ TurnOver /\ TurnOfGateway

(* A queue has length 0 when it is empty, only then.                       *)
LEMMA EmptyLength ==
  ASSUME NEW T, NEW q \in Seq(T)
  PROVE  Len(q) \in Nat /\ (q = <<>> <=> Len(q) = 0)
BY EmptySeq

(* What is under way, in numbers.                                          *)
LEMMA UnderWayParts ==
  ASSUME TypeOK
  PROVE  /\ UnderWay = Len(toGateway) + serialEvents
                         + (IF gate_state = "MISSION" THEN 1 ELSE 0) + Len(toUav)
         /\ Len(toGateway) \in Nat /\ serialEvents \in Nat /\ Len(toUav) \in Nat
         /\ toGateway = <<>> <=> Len(toGateway) = 0
         /\ toUav = <<>> <=> Len(toUav) = 0
<1>1. toGateway \in Seq({"START_MISSION"}) /\ toUav \in Seq({"START_FLY"}) /\ serialEvents \in Nat
  BY DEF TypeOK
<1> QED
  BY <1>1, EmptyLength DEF UnderWay

(* What happens elsewhere than in uav_control happens during a stop.       *)
LEMMA BusyStop ==
  ASSUME TurnInv, ~Quiet
  PROVE  /\ running_state = "DOING_MISSION" /\ network_msg # "SLEEPING"
         /\ \A i \in 1..Len(networkTopic) : networkTopic[i] # "SLEEPING"
BY DEF TurnInv, TurnOfUav, TurnOver

(* Steps of the others that say nothing to uav_control.                    *)
LEMMA OthersBusy ==
  ASSUME TurnInv, ~Quiet, UNCHANGED <<uavVars, networkTopic>>, TurnOfGateway'
  PROVE  TurnInv'
<1>1. /\ running_state = "DOING_MISSION" /\ network_msg # "SLEEPING"
      /\ \A i \in 1..Len(networkTopic) : networkTopic[i] # "SLEEPING"
  BY BusyStop
<1>2. UNCHANGED <<running_state, network_msg, menu, takeoffs, flight, networkTopic>>
  BY DEF uavVars
<1>3. Menus'
  BY <1>2 DEF Menus, TurnInv
<1> QED
  BY <1>1, <1>2, <1>3 DEF TurnInv, TurnOfUav, TurnOver

(* Steps of the others that keep quiet what was quiet.                     *)
LEMMA OthersQuiet ==
  ASSUME TurnInv, UNCHANGED <<uavVars, networkTopic, served>>, Quiet => Quiet', TurnOfGateway'
  PROVE  TurnInv'
<1>2. UNCHANGED <<running_state, network_msg, menu, takeoffs, flight, networkTopic, served>>
  BY DEF uavVars
<1>3. Menus'
  BY <1>2 DEF Menus, TurnInv
<1>4. TurnOfUav'
  BY <1>2 DEF TurnInv, TurnOfUav
<1>5. TurnOver'
  <2> DEFINE Q == Quiet
             R == Quiet'
  <2>1. Q => R
    OBVIOUS
  <2>2. TurnOver
    BY DEF TurnInv
  <2> HIDE DEF Q, R
  <2>3. /\ \A i \in 1..Len(networkTopic) :
             networkTopic[i] = "SLEEPING" => i = Len(networkTopic) /\ R /\ served
        /\ network_msg = "SLEEPING" => networkTopic = <<>> /\ R
        /\ running_state = "DOING_MISSION" /\ network_msg = "SLEEPING" => served
    BY <2>1, <2>2 DEF TurnOver, Q
  <2> QED
    BY <1>2, <2>3 DEF TurnOver, R
<1> QED
  BY <1>3, <1>4, <1>5 DEF TurnInv

(* Steps of uav_control that publish nothing.                              *)
LEMMA UavAlone ==
  ASSUME UNCHANGED <<netVars, stateTopic, lineVars, gateVars, served>>
  PROVE  (Quiet' <=> Quiet) /\ (TurnOfGateway' <=> TurnOfGateway)
<1>1. UNCHANGED <<net_state, uav_state, starting, NET_cmd, stateTopic, toGateway, toUav,
                  serialEvents, gate_state, served>>
  BY DEF netVars, lineVars, gateVars
<1>2. UnderWay' = UnderWay /\ Spun' = Spun
  BY <1>1 DEF UnderWay, Spun
<1> QED
  BY <1>1, <1>2 DEF Quiet, TurnOfGateway

(* The steps of network_control, the gateway and the line keep the turns.  *)
LEMMA OthersStep ==
  ASSUME TypeOK, TypeOK', TurnInv, NetStep \/ GatewayStep \/ LoseFrame
  PROVE  TurnInv'
<1> USE DEF netVars, topicVars, lineVars, gateVars, history
<1> DEFINE g == Len(toGateway)
           u == Len(toUav)
           b == IF gate_state = "MISSION" THEN 1 ELSE 0
<1>now. /\ UnderWay = g + serialEvents + b + u
        /\ g \in Nat /\ serialEvents \in Nat /\ u \in Nat /\ b \in {0, 1}
        /\ (toGateway = <<>> <=> g = 0) /\ (toUav = <<>> <=> u = 0)
  BY UnderWayParts
<1>then. /\ UnderWay' = g' + serialEvents' + b' + u'
         /\ g' \in Nat /\ serialEvents' \in Nat /\ u' \in Nat /\ b' \in {0, 1}
         /\ (toGateway' = <<>> <=> g' = 0) /\ (toUav' = <<>> <=> u' = 0)
  <2>1. /\ toGateway' \in Seq({"START_MISSION"}) /\ toUav' \in Seq({"START_FLY"})
        /\ serialEvents' \in Nat
    BY DEF TypeOK
  <2> QED
    BY <2>1, EmptyLength DEF UnderWay
<1>turn. TurnOfGateway
  BY DEF TurnInv
<1>types. /\ net_state \in {"SLEEPING", "WORKING"} /\ gate_state \in {"SLEEP", "MISSION"}
          /\ toGateway \in Seq({"START_MISSION"}) /\ toUav \in Seq({"START_FLY"})
          /\ networkTopic \in Seq(Network_state)
  <2>1. TypeScalars /\ TypeQueues
    BY TypeParts
  <2> QED
    BY <2>1 DEF TypeScalars, TypeQueues, Network_state
<1>1. CASE StartMission
  <2>1. ~Quiet
    BY <1>1 DEF StartMission, Quiet
  <2>2. /\ starting' /\ net_state' = "SLEEPING"
        /\ g' = g + 1 /\ UNCHANGED <<toUav, serialEvents, gate_state, served>>
    BY <1>1, <1>types DEF StartMission
  <2>3. UnderWay = 0 /\ ~served
    BY <1>1, <1>turn DEF StartMission, TurnOfGateway
  <2>4. u' = 0 /\ UnderWay' = 1
    BY <1>now, <1>then, <2>2, <2>3
  <2>5. TurnOfGateway'
    BY <1>then, <2>2, <2>3, <2>4 DEF TurnOfGateway
  <2> QED
    BY <1>1, <2>1, <2>5, OthersBusy DEF StartMission
<1>2. CASE WaitMission
  <2>1. ~Quiet
    BY <1>2 DEF WaitMission, Quiet
  <2>2. /\ running_state = "DOING_MISSION" /\ network_msg # "SLEEPING"
        /\ \A i \in 1..Len(networkTopic) : networkTopic[i] # "SLEEPING"
    BY <2>1, BusyStop
  <2>3. networkTopic' = Publish(networkTopic, "WORKING") /\ "WORKING" \in Network_state
    BY <1>2 DEF WaitMission, Network_state
  <2>4. \A i \in 1..Len(networkTopic') : networkTopic'[i] # "SLEEPING"
    BY <1>types, <2>2, <2>3, PublishNew
  <2>5. UNCHANGED <<running_state, network_msg, menu, takeoffs, flight>>
    BY <1>2 DEF WaitMission, uavVars
  <2>6. Menus'
    BY <2>5 DEF TurnInv, Menus
  <2>7. TurnOfUav' /\ TurnOver'
    BY <2>2, <2>4, <2>5 DEF TurnOfUav, TurnOver
  <2>8. /\ net_state' = "WORKING" /\ ~starting' /\ NET_cmd' = None
        /\ UNCHANGED <<toGateway, toUav, serialEvents, gate_state, served>>
    BY <1>2 DEF WaitMission
  <2>9. TurnOfGateway'
    BY <1>now, <1>then, <1>turn, <2>8 DEF TurnOfGateway, None
  <2> QED
    BY <2>6, <2>7, <2>9 DEF TurnInv
<1>3. CASE NextPoint
  <2>1. ~Quiet
    BY <1>3 DEF NextPoint, Quiet
  <2>2. /\ running_state = "DOING_MISSION" /\ network_msg # "SLEEPING"
        /\ \A i \in 1..Len(networkTopic) : networkTopic[i] # "SLEEPING"
    BY <2>1, BusyStop
  <2>3. networkTopic' = Publish(networkTopic, "SLEEPING") /\ "SLEEPING" \in Network_state
    BY <1>3 DEF NextPoint, Network_state
  <2>4. \A i \in 1..Len(networkTopic') : networkTopic'[i] = "SLEEPING" => i = Len(networkTopic')
    BY <1>types, <2>2, <2>3, PublishNew
  <2>5. UNCHANGED <<running_state, network_msg, menu, takeoffs, flight>>
    BY <1>3 DEF NextPoint, uavVars
  <2>6. Menus'
    BY <2>5 DEF TurnInv, Menus
  <2>7. /\ uav_state' = "FLYING" /\ stateTopic' = <<>> /\ net_state' = "SLEEPING"
        /\ UNCHANGED <<starting, toGateway, toUav, serialEvents, gate_state, served>>
    BY <1>3 DEF NextPoint
  <2>8. UnderWay = 0 /\ served /\ ~starting
    BY <1>3, <1>turn DEF NextPoint, TurnOfGateway
  <2>9. Quiet' /\ Spun' = "FLYING" /\ UnderWay' = 0
    BY <1>now, <1>then, <2>7, <2>8 DEF Quiet, Spun
  <2>10. TurnOfUav' /\ TurnOver'
    BY <2>2, <2>4, <2>5, <2>7, <2>8, <2>9 DEF TurnOfUav, TurnOver
  <2>11. TurnOfGateway'
    BY <1>then, <2>7, <2>8, <2>9 DEF TurnOfGateway
  <2> QED
    BY <2>6, <2>10, <2>11 DEF TurnInv
<1>4. CASE SpinOnce
  <2>1. /\ Spun' = Spun
        /\ UNCHANGED <<net_state, starting, NET_cmd, toGateway, toUav, serialEvents, gate_state,
                       served>>
    BY <1>4 DEF SpinOnce, Spun
  <2>2. (Quiet => Quiet') /\ TurnOfGateway'
    BY <1>now, <1>then, <1>turn, <2>1 DEF Quiet, TurnOfGateway
  <2> QED
    BY <1>4, <2>2, OthersQuiet DEF SpinOnce
<1>5. CASE read_thread
  <2>1. /\ u > 0 /\ u' = u - 1
        /\ UNCHANGED <<net_state, starting, toGateway, serialEvents, gate_state, served>>
    BY <1>5, <1>types, <1>now, HeadTail DEF read_thread
  <2>2. UnderWay = 1 /\ UnderWay' = 0 /\ served
    BY <1>now, <1>then, <1>turn, <2>1 DEF TurnOfGateway
  <2>3. ~Quiet
    BY <2>2 DEF Quiet
  <2>4. Spun' = Spun
    BY <1>5 DEF read_thread, Spun
  <2>5. TurnOfGateway'
    BY <1>now, <1>then, <1>turn, <2>1, <2>2, <2>4 DEF TurnOfGateway
  <2> QED
    BY <1>5, <2>3, <2>5, OthersBusy DEF read_thread
<1>6. CASE NetRestart
  <2>1. /\ uav_state' = "FLYING" /\ net_state' = "SLEEPING" /\ starting' = FALSE
        /\ stateTopic' = <<>> /\ toUav' = <<>>
        /\ UNCHANGED <<toGateway, serialEvents, gate_state, served>>
    BY <1>6 DEF NetRestart
  <2>2. Spun' = "FLYING" /\ UnderWay' <= UnderWay /\ ~starting'
    BY <1>now, <1>then, <2>1 DEF Spun
  <2>3. (Quiet => Quiet') /\ TurnOfGateway'
    BY <1>now, <1>then, <1>turn, <2>1, <2>2 DEF Quiet, TurnOfGateway
  <2> QED
    BY <1>6, <2>3, OthersQuiet DEF NetRestart
<1>7. CASE GatewayReads
  <2>1. /\ g > 0 /\ g' = g - 1 /\ serialEvents' \in {serialEvents, serialEvents + 1}
        /\ UNCHANGED <<net_state, starting, NET_cmd, toUav, gate_state, served>>
    BY <1>7, <1>types, <1>now, HeadTail DEF GatewayReads
  <2>2. UnderWay = 1 /\ UnderWay' <= 1 /\ ~served
    BY <1>now, <1>then, <1>turn, <2>1 DEF TurnOfGateway
  <2>3. ~Quiet
    BY <2>2 DEF Quiet
  <2>4. Spun' = Spun
    BY <1>7 DEF GatewayReads, Spun
  <2>5. TurnOfGateway'
    BY <1>now, <1>then, <1>turn, <2>1, <2>2, <2>4 DEF TurnOfGateway
  <2> QED
    BY <1>7, <2>3, <2>5, OthersBusy DEF GatewayReads
<1>8. CASE GatewaySerialEvent
  <2>1. /\ serialEvents > 0 /\ serialEvents' = serialEvents - 1
        /\ UNCHANGED <<net_state, starting, NET_cmd, toGateway, toUav, served>>
    BY <1>8 DEF GatewaySerialEvent
  <2>2. UnderWay = 1 /\ UnderWay' <= 1
    BY <1>now, <1>then, <1>turn, <2>1 DEF TurnOfGateway
  <2>3. ~Quiet
    BY <2>2 DEF Quiet
  <2>4. Spun' = Spun
    BY <1>8 DEF GatewaySerialEvent, Spun
  <2>5. TurnOfGateway'
    BY <1>now, <1>then, <1>turn, <2>1, <2>2, <2>4 DEF TurnOfGateway
  <2> QED
    BY <1>8, <2>3, <2>5, OthersBusy DEF GatewaySerialEvent
<1>9. CASE MissionTimer
  <2>1. /\ gate_state = "MISSION" /\ gate_state' = "SLEEP" /\ served' = TRUE
        /\ u' = u + 1
        /\ UNCHANGED <<net_state, starting, NET_cmd, toGateway, serialEvents>>
    BY <1>9, <1>types DEF MissionTimer
  <2>2. UnderWay = 1 /\ UnderWay' = 1 /\ g = 0 /\ serialEvents = 0
    BY <1>now, <1>then, <1>turn, <2>1 DEF TurnOfGateway
  <2>3. ~Quiet
    BY <2>2 DEF Quiet
  <2>4. Spun' = Spun
    BY <1>9 DEF MissionTimer, Spun
  <2>5. TurnOfGateway'
    BY <1>now, <1>then, <1>turn, <2>1, <2>2, <2>4 DEF TurnOfGateway
  <2> QED
    BY <1>9, <2>3, <2>5, OthersBusy DEF MissionTimer
<1>10. CASE GatewayRestart
  <2>1. /\ serialEvents' = 0 /\ gate_state' = "SLEEP" /\ toGateway' = <<>>
        /\ UNCHANGED <<net_state, starting, NET_cmd, toUav, served>>
    BY <1>10 DEF GatewayRestart
  <2>2. Spun' = Spun
    BY <1>10 DEF GatewayRestart, Spun
  <2>3. UnderWay' <= UnderWay
    BY <1>now, <1>then, <2>1
  <2>4. (Quiet => Quiet') /\ TurnOfGateway'
    BY <1>now, <1>then, <1>turn, <2>1, <2>2, <2>3 DEF Quiet, TurnOfGateway
  <2> QED
    BY <1>10, <2>4, OthersQuiet DEF GatewayRestart
<1>11. CASE LoseFrame
  <2>1. /\ toGateway # <<>> => Len(Tail(toGateway)) = g - 1
        /\ toUav # <<>> => Len(Tail(toUav)) = u - 1
    BY <1>types, HeadTail
  <2>2. /\ g' <= g /\ u' <= u
        /\ UNCHANGED <<net_state, starting, NET_cmd, serialEvents, gate_state, served>>
    BY <1>11, <1>now, <2>1 DEF LoseFrame
  <2>3. Spun' = Spun
    BY <1>11 DEF LoseFrame, Spun
  <2>4. UnderWay' <= UnderWay
    BY <1>now, <1>then, <2>2
  <2>5. (Quiet => Quiet') /\ TurnOfGateway'
    BY <1>now, <1>then, <1>turn, <2>2, <2>3, <2>4 DEF Quiet, TurnOfGateway
  <2> QED
    BY <1>11, <2>5, OthersQuiet DEF LoseFrame
<1> QED
  BY <1>1, <1>2, <1>3, <1>4, <1>5, <1>6, <1>7, <1>8, <1>9, <1>10, <1>11, Zenon
  DEF NetStep, GatewayStep

(* The steps of uav_control keep the turns.                                *)
LEMMA UavTurns ==
  ASSUME TypeOK, TurnInv, UavStep, ~interrupted'
  PROVE  TurnInv'
<1>inv. Menus /\ TurnOfUav /\ TurnOver /\ TurnOfGateway
  BY DEF TurnInv
<1>types. /\ networkTopic \in Seq(Network_state) /\ stateTopic \in Seq(Flight_state)
          /\ takeoffs \in Seq(BOOLEAN) /\ Len(takeoffs) \in Nat
          /\ running_state \in System_state /\ Len(networkTopic) \in Nat
  <2>1. TypeScalars /\ TypeQueues
    BY TypeParts
  <2> QED
    BY <2>1, EmptyLength DEF TypeScalars, TypeQueues
<1>depth. takeoffs = <<>> <=> Len(takeoffs) = 0
  BY <1>types, EmptyLength
<1>1. CASE NetworkStateCallback
  <2>1. /\ networkTopic # <<>>
        /\ network_msg' = networkTopic[1] /\ Len(networkTopic) > 0
        /\ Len(networkTopic') = Len(networkTopic) - 1
        /\ networkTopic' \in Seq(Network_state)
        /\ \A i \in 1..Len(networkTopic)-1 : networkTopic'[i] = networkTopic[i + 1]
    BY <1>1, <1>types, HeadTail DEF NetworkStateCallback
  <2>2. /\ UNCHANGED <<running_state, flight, menu, takeoffs, served>>
        /\ UNCHANGED <<netVars, stateTopic, lineVars, gateVars, served>>
    BY <1>1 DEF NetworkStateCallback, history
  <2>3. (Quiet' <=> Quiet) /\ TurnOfGateway'
    BY <1>inv, <2>2, UavAlone
  <2>4. running_state = "DOING_MISSION"
    BY <1>inv, <2>1 DEF TurnOfUav
  <2>5. ASSUME network_msg' = "SLEEPING"
        PROVE  networkTopic' = <<>> /\ Quiet /\ served
    <3>1. 1 \in 1..Len(networkTopic) /\ networkTopic[1] = "SLEEPING"
      BY <1>types, <2>1, <2>5
    <3>2. 1 = Len(networkTopic) /\ Quiet /\ served
      BY <1>inv, <3>1 DEF TurnOver
    <3>3. Len(networkTopic') = 0
      <4>1. Len(networkTopic') = Len(networkTopic) - 1 /\ Len(networkTopic) = 1
        BY <2>1, <3>2, Zenon
      <4> QED
        BY <4>1
    <3>4. networkTopic' = <<>>
      <4>1. networkTopic' \in Seq(Network_state)
        BY <2>1
      <4> QED
        BY <3>3, <4>1, EmptyLength
    <3> QED
      BY <3>2, <3>4
  <2>6. ASSUME NEW i \in 1..Len(networkTopic'), networkTopic'[i] = "SLEEPING"
        PROVE  i = Len(networkTopic') /\ Quiet /\ served
    <3>1. i + 1 \in 1..Len(networkTopic) /\ networkTopic[i + 1] = "SLEEPING"
      BY <1>types, <2>1, <2>6
    <3>2. i + 1 = Len(networkTopic) /\ Quiet /\ served
      BY <1>inv, <3>1 DEF TurnOver
    <3> QED
      BY <1>types, <2>1, <3>2
  <2>7. Menus'
    BY <1>inv, <2>2 DEF Menus
  <2>8. TurnOfUav'
    BY <2>2, <2>4 DEF TurnOfUav
  <2>9. TurnOver'
    BY <2>2, <2>3, <2>5, <2>6 DEF TurnOver
  <2> QED
    BY <2>3, <2>7, <2>8, <2>9 DEF TurnInv
<1>2. CASE MainMenu
  <2>1. /\ test_menu /\ UNCHANGED <<flight, network_msg, networkTopic, served>>
        /\ menu /\ takeoffs = <<>>
        /\ UNCHANGED <<netVars, stateTopic, lineVars, gateVars, served>>
    BY <1>2 DEF MainMenu, topicVars, history
  <2>2. menu' => takeoffs' # <<>>
    BY <1>2, Zenon DEF MainMenu
  <2>3. Menus'
    BY <2>2 DEF Menus
  <2>4. (Quiet' <=> Quiet) /\ TurnOfGateway'
    BY <1>inv, <2>1, UavAlone
  <2>5. running_state = "INIT" /\ running_state' \in {"INIT", "LANDING"}
    BY <1>inv, <2>1, MenuTypes DEF Menus
  <2>6. TurnOfUav' /\ TurnOver'
    BY <1>inv, <2>1, <2>4, <2>5 DEF TurnOfUav, TurnOver
  <2> QED
    BY <2>3, <2>4, <2>6 DEF TurnInv
<1>3. CASE TakeoffReturns
  <2>1. /\ UNCHANGED <<network_msg, networkTopic, served>>
        /\ takeoffs # <<>> /\ takeoffs' = SubSeq(takeoffs, 1, Len(takeoffs) - 1)
        /\ menu' = (menu /\ ~(Len(takeoffs) = 1 /\ menu))
        /\ UNCHANGED <<netVars, stateTopic, lineVars, gateVars, served>>
    BY <1>3, Zenon DEF TakeoffReturns, topicVars
  <2>2. (Quiet' <=> Quiet) /\ TurnOfGateway'
    BY <1>inv, <2>1, UavAlone
  <2>3. Menus'
    <3>1. ASSUME takeoffs' = <<>> PROVE Len(takeoffs) = 1
      <4>1. PICK n \in Nat \ {0} : n = Len(takeoffs)
        BY <1>types, <1>depth, <2>1
      <4>2. Len(SubSeq(takeoffs, 1, n - 1)) = IF 1 <= n - 1 THEN n - 1 - 1 + 1 ELSE 0
        <5>1. n - 1 \in 0..Len(takeoffs) /\ 1 \in Nat \ {0}
          BY <4>1
        <5> QED
          BY <1>types, <5>1, Shorter
      <4>3. SubSeq(takeoffs, 1, n - 1) = <<>>
        BY <2>1, <3>1, <4>1, Zenon
      <4>4. Len(SubSeq(takeoffs, 1, n - 1)) = 0
        <5>1. Len(<<>>) = 0
          OBVIOUS
        <5> QED
          BY <4>3, <5>1, Zenon
      <4>5. n = 1
        BY <4>2, <4>4
      <4> QED
        BY <4>1, <4>5
    <3> QED
      BY <2>1, <3>1 DEF Menus
  <2>4. CASE running_state' = running_state
    BY <1>inv, <2>1, <2>2, <2>3, <2>4 DEF TurnInv, TurnOfUav, TurnOver
  <2>5. CASE running_state' # running_state
    <3>1. running_state' = "FLY_NEXT_POINT" /\ running_state # "DOING_MISSION"
      BY <1>3, <2>5, Zenon DEF TakeoffReturns
    <3>2. TurnOfUav' /\ TurnOver'
      BY <1>inv, <2>1, <2>2, <3>1 DEF TurnOfUav, TurnOver
    <3> QED
      BY <2>2, <2>3, <3>2 DEF TurnInv
  <2> QED
    BY <2>4, <2>5
<1>4. CASE Rise \/ TouchDown
  <2>1. /\ UNCHANGED <<running_state, network_msg, menu, takeoffs, networkTopic, served>>
        /\ UNCHANGED <<netVars, stateTopic, lineVars, gateVars, served>>
        /\ flight' = "air" \/ running_state = "LANDING"
    BY <1>4 DEF Rise, TouchDown, topicVars, history
  <2>2. (Quiet' <=> Quiet) /\ TurnOfGateway'
    BY <1>inv, <2>1, UavAlone
  <2>3. Menus'
    BY <1>inv, <2>1 DEF Menus
  <2>4. TurnOfUav' /\ TurnOver'
    BY <1>inv, <2>1, <2>2 DEF TurnOfUav, TurnOver
  <2> QED
    BY <2>2, <2>3, <2>4 DEF TurnInv
<1>5. CASE ContinueFlying
  <2>1. /\ UNCHANGED <<running_state, network_msg, menu, takeoffs, flight, networkTopic, served>>
        /\ UNCHANGED <<netVars, stateTopic, lineVars, gateVars, served>>
    BY <1>5 DEF ContinueFlying, Sample, Brake, topicVars, history
  <2>2. (Quiet' <=> Quiet) /\ TurnOfGateway'
    BY <1>inv, <2>1, UavAlone
  <2>3. Menus'
    BY <1>inv, <2>1 DEF Menus
  <2>4. TurnOfUav' /\ TurnOver'
    BY <1>inv, <2>1, <2>2 DEF TurnOfUav, TurnOver
  <2> QED
    BY <2>2, <2>3, <2>4 DEF TurnInv
<1>6. CASE Arrive
  <2>1. /\ running_state = "FLY_NEXT_POINT" /\ running_state' = "DOING_MISSION"
        /\ network_msg' = "WORKING" /\ served' = FALSE
        /\ stateTopic' = Publish(stateTopic, "ARRIVE_POINT")
        /\ UNCHANGED <<menu, takeoffs, flight, networkTopic, toGateway, toUav, serialEvents,
                       gate_state, uav_state, net_state, starting, NET_cmd>>
    BY <1>6 DEF Arrive, netVars, lineVars, gateVars
  <2>2. Quiet /\ networkTopic = <<>>
    BY <1>inv, <2>1 DEF TurnOfUav
  <2>3. Spun' = "ARRIVE_POINT"
    <3>1. "ARRIVE_POINT" \in Flight_state
      BY DEF Flight_state
    <3> QED
      BY <1>types, <2>1, <3>1, PublishLast DEF Spun
  <2>4. UnderWay' = 0 /\ ~starting' /\ net_state' = "SLEEPING"
    BY <2>1, <2>2 DEF UnderWay, Quiet
  <2>5. toUav' = <<>> /\ ~served'
    BY <2>1, <2>2, UnderWayParts DEF Quiet
  <2>6. Menus'
    BY <1>inv, <2>1 DEF Menus
  <2>7. TurnOfUav' /\ TurnOver'
    BY <2>1, <2>2 DEF TurnOfUav, TurnOver
  <2>8. TurnOfGateway'
    BY <2>3, <2>4, <2>5 DEF TurnOfGateway
  <2> QED
    BY <2>6, <2>7, <2>8 DEF TurnInv
<1>7. CASE Depart
  <2>1. /\ running_state = "DOING_MISSION" /\ running_state' = "FLY_NEXT_POINT"
        /\ network_msg = "SLEEPING"
        /\ stateTopic' = Publish(stateTopic, "FLYING")
        /\ UNCHANGED <<network_msg, menu, takeoffs, flight, networkTopic, toGateway, toUav,
                       serialEvents, gate_state, uav_state, net_state, starting, NET_cmd, served>>
    BY <1>7 DEF Depart, netVars, lineVars, gateVars, history
  <2>2. Quiet /\ networkTopic = <<>>
    BY <1>inv, <2>1 DEF TurnOver
  <2>3. Spun' = "FLYING"
    <3>1. "FLYING" \in Flight_state
      BY DEF Flight_state
    <3> QED
      BY <1>types, <2>1, <3>1, PublishLast DEF Spun
  <2>4. UnderWay' = 0 /\ ~starting' /\ net_state' = "SLEEPING" /\ Quiet'
    BY <2>1, <2>2, <2>3 DEF UnderWay, Quiet
  <2>5. Menus'
    BY <1>inv, <2>1 DEF Menus
  <2>6. TurnOfUav' /\ TurnOver'
    BY <2>1, <2>2, <2>4 DEF TurnOfUav, TurnOver
  <2>7. TurnOfGateway'
    BY <1>inv, <2>1, <2>3, <2>4 DEF TurnOfGateway
  <2> QED
    BY <2>5, <2>6, <2>7 DEF TurnInv
<1>8. CASE TaskMenu
  <2>1. /\ test_menu /\ Prompts
        /\ UNCHANGED <<flight, network_msg, menu, networkTopic, served>>
        /\ UNCHANGED <<netVars, stateTopic, lineVars, gateVars, served>>
    BY <1>8 DEF TaskMenu, topicVars, history
  <2>2. /\ running_state' \in {running_state, "LANDING"}
        /\ \/ takeoffs' = takeoffs
           \/ Len(takeoffs) < MaxPending /\ takeoffs' = Append(takeoffs, flight # "air")
    BY <2>1, MenuTypes
  <2>3. menu' => takeoffs' # <<>>
    <3>1. menu => takeoffs # <<>>
      BY <1>8, Zenon DEF TaskMenu, Callbacks
    <3>2. ASSUME takeoffs' = Append(takeoffs, flight # "air") PROVE takeoffs' # <<>>
      <4> DEFINE c == flight # "air"
      <4> HIDE DEF c
      <4>1. takeoffs' = Append(takeoffs, c)
        BY <3>2 DEF c
      <4>2. Len(Append(takeoffs, c)) = Len(takeoffs) + 1
        BY <1>types
      <4> QED
        BY <1>types, <4>1, <4>2
    <3> QED
      BY <2>1, <2>2, <3>1, <3>2
  <2>4. Menus'
    BY <2>3 DEF Menus
  <2>5. (Quiet' <=> Quiet) /\ TurnOfGateway'
    BY <1>inv, <2>1, UavAlone
  <2>6. running_state' # "DOING_MISSION" => Quiet /\ networkTopic = <<>>
    <3>1. CASE running_state # "DOING_MISSION"
      BY <1>inv, <3>1 DEF TurnOfUav
    <3>2. CASE running_state = "DOING_MISSION"
      BY <1>inv, <2>1, <3>2 DEF Prompts, TurnOver
    <3> QED
      BY <3>1, <3>2
  <2>7. TurnOfUav' /\ TurnOver'
    <3>1. TurnOfUav'
      BY <2>1, <2>5, <2>6 DEF TurnOfUav
    <3>2. running_state' = "DOING_MISSION" => running_state = "DOING_MISSION"
      BY <2>2
    <3>3. TurnOver'
      BY <1>inv, <2>1, <2>5, <3>2 DEF TurnOver
    <3> QED
      BY <3>1, <3>3
  <2> QED
    BY <2>4, <2>5, <2>7 DEF TurnInv
<1> QED
  BY <1>1, <1>2, <1>3, <1>4, <1>5, <1>6, <1>7, <1>8, Zenon DEF UavStep

(* At the start it is the UAV's turn.                                      *)
LEMMA TurnInit ==
  ASSUME Init
  PROVE  TurnInv
<1>1. UnderWay = 0 /\ Spun = "FLYING"
  BY DEF Init, UnderWay, Spun
<1>2. Menus /\ TurnOfUav
  BY <1>1 DEF Init, Menus, TurnOfUav, Quiet
<1>3. TurnOver /\ TurnOfGateway
  BY <1>1 DEF Init, TurnOver, TurnOfGateway, Quiet
<1> QED
  BY <1>2, <1>3 DEF TurnInv

(* Every step keeps the turns.                                             *)
LEMMA TurnStep ==
  ASSUME TypeOK, TypeOK', TurnInv, [Next]_vars, ~interrupted'
  PROVE  TurnInv'
<1>1. CASE UavStep
  BY <1>1, UavTurns
<1>2. CASE NetStep \/ GatewayStep \/ LoseFrame
  BY <1>2, OthersStep
<1>3. CASE UNCHANGED vars
  <2>1. /\ UNCHANGED <<uavVars, networkTopic, served>>
        /\ UNCHANGED <<netVars, stateTopic, lineVars, gateVars, served>>
    BY <1>3 DEF vars, topicVars, history
  <2>2. (Quiet' <=> Quiet) /\ TurnOfGateway'
    BY <2>1, UavAlone DEF TurnInv
  <2> QED
    BY <2>1, <2>2, OthersQuiet
<1> QED
  BY <1>1, <1>2, <1>3 DEF Next

(* Once a take-off has sent the UAV off from a point, that is remembered.  *)
LEMMA StillInterrupted ==
  ASSUME [Next]_vars, interrupted
  PROVE  interrupted'
<1>1. CASE TakeoffReturns
  BY <1>1 DEF TakeoffReturns
<1>2. CASE \/ NetworkStateCallback \/ MainMenu \/ Rise \/ TouchDown \/ Brake \/ Arrive \/ Depart
           \/ TaskMenu \/ \E within \in BOOLEAN : Sample(within)
  BY <1>2 DEF NetworkStateCallback, MainMenu, Rise, TouchDown, Brake, Arrive, Depart, TaskMenu,
     Sample, history
<1>3. CASE \/ StartMission \/ WaitMission \/ NextPoint \/ SpinOnce \/ read_thread \/ NetRestart
           \/ GatewayReads \/ GatewaySerialEvent \/ MissionTimer \/ GatewayRestart \/ LoseFrame
           \/ UNCHANGED vars
  BY <1>3 DEF StartMission, WaitMission, NextPoint, SpinOnce, read_thread, NetRestart,
     GatewayReads, GatewaySerialEvent, MissionTimer, GatewayRestart, LoseFrame, vars, history
<1> QED
  BY <1>1, <1>2, <1>3, NextCases, Zenon

(* Until a take-off that waited sends the UAV off from a point, its turn,  *)
(* network_control's and the gateway's follow one another, with lost       *)
(* commands, restarts and take-offs inside one another.                    *)
THEOREM Turns == Spec => [](interrupted \/ TurnInv)
<1>1. Init => TypeOK /\ Counting /\ (interrupted \/ TurnInv)
  BY TypeInit, TurnInit
<1>2. TypeOK /\ Counting /\ (interrupted \/ TurnInv) /\ [Next]_vars
        => TypeOK' /\ Counting' /\ (interrupted' \/ TurnInv')
  BY TypeStep, TurnStep, StillInterrupted
<1> QED
  BY <1>1, <1>2, PTL DEF Spec

(* Until network_control restarts it alone keeps the missions apart,       *)
(* whatever uav_control tells it, since it sends the next command only     *)
(* when the answer to the last one has come.                               *)
Answered ==
  /\ UnderWay <= 1
  /\ net_state = "WORKING" => ~starting
  /\ ~starting /\ (net_state = "SLEEPING" \/ NET_cmd = "START_FLY") => UnderWay = 0

LEMMA AnsweredStep ==
  ASSUME TypeOK, TypeOK', Answered, [Next /\ ~NetRestart]_vars
  PROVE  Answered'
<1> USE DEF netVars, topicVars, lineVars, gateVars, history
<1> DEFINE g == Len(toGateway)
           u == Len(toUav)
           b == IF gate_state = "MISSION" THEN 1 ELSE 0
<1>now. /\ UnderWay = g + serialEvents + b + u
        /\ g \in Nat /\ serialEvents \in Nat /\ u \in Nat /\ b \in {0, 1}
        /\ (toGateway = <<>> <=> g = 0) /\ (toUav = <<>> <=> u = 0)
  BY UnderWayParts
<1>then. /\ UnderWay' = g' + serialEvents' + b' + u'
         /\ g' \in Nat /\ serialEvents' \in Nat /\ u' \in Nat /\ b' \in {0, 1}
  <2>1. /\ toGateway' \in Seq({"START_MISSION"}) /\ toUav' \in Seq({"START_FLY"})
        /\ serialEvents' \in Nat
    BY DEF TypeOK
  <2> QED
    BY <2>1, EmptyLength DEF UnderWay
<1>types. /\ net_state \in {"SLEEPING", "WORKING"} /\ gate_state \in {"SLEEP", "MISSION"}
          /\ toGateway \in Seq({"START_MISSION"}) /\ toUav \in Seq({"START_FLY"})
  <2>1. TypeScalars /\ TypeQueues
    BY TypeParts
  <2> QED
    BY <2>1 DEF TypeScalars, TypeQueues, Network_state
<1>1. CASE UNCHANGED <<netVars, lineVars, gateVars>>
  <2>1. UNCHANGED <<net_state, starting, NET_cmd, toGateway, toUav, serialEvents, gate_state>>
    BY <1>1
  <2> QED
    BY <2>1 DEF Answered, UnderWay
<1>2. CASE StartMission
  <2>1. /\ starting' /\ net_state' = "SLEEPING" /\ ~starting /\ net_state = "SLEEPING"
        /\ g' = g + 1 /\ UNCHANGED <<toUav, serialEvents, gate_state>>
    BY <1>2, <1>types DEF StartMission
  <2> QED
    BY <1>now, <1>then, <2>1 DEF Answered
<1>3. CASE WaitMission
  <2>1. /\ net_state' = "WORKING" /\ ~starting' /\ NET_cmd' = None
        /\ UNCHANGED <<toGateway, toUav, serialEvents, gate_state>>
    BY <1>3 DEF WaitMission
  <2> QED
    BY <1>now, <1>then, <2>1 DEF Answered, None
<1>4. CASE NextPoint
  <2>1. /\ net_state = "WORKING" /\ NET_cmd = "START_FLY"
        /\ UNCHANGED <<starting, toGateway, toUav, serialEvents, gate_state>>
    BY <1>4 DEF NextPoint
  <2> QED
    BY <1>now, <1>then, <2>1 DEF Answered
<1>5. CASE SpinOnce
  <2>1. UNCHANGED <<net_state, starting, NET_cmd, toGateway, toUav, serialEvents, gate_state>>
    BY <1>5 DEF SpinOnce
  <2> QED
    BY <2>1 DEF Answered, UnderWay
<1>6. CASE read_thread
  <2>1. /\ u > 0 /\ u' = u - 1
        /\ UNCHANGED <<net_state, starting, toGateway, serialEvents, gate_state>>
    BY <1>6, <1>types, <1>now, HeadTail DEF read_thread
  <2> QED
    BY <1>now, <1>then, <2>1 DEF Answered
<1>7. CASE GatewayReads
  <2>1. /\ g > 0 /\ g' = g - 1 /\ serialEvents' \in {serialEvents, serialEvents + 1}
        /\ UNCHANGED <<net_state, starting, NET_cmd, toUav, gate_state>>
    BY <1>7, <1>types, <1>now, HeadTail DEF GatewayReads
  <2>2. UnderWay # 0 /\ UnderWay' <= UnderWay
    BY <1>now, <1>then, <2>1
  <2>3. UnderWay' <= 1
    BY <1>now, <1>then, <2>2 DEF Answered
  <2> QED
    BY <2>1, <2>2, <2>3 DEF Answered
<1>8. CASE GatewaySerialEvent
  <2>1. /\ serialEvents > 0 /\ serialEvents' = serialEvents - 1
        /\ UNCHANGED <<net_state, starting, NET_cmd, toGateway, toUav>>
    BY <1>8 DEF GatewaySerialEvent
  <2> QED
    BY <1>now, <1>then, <2>1 DEF Answered
<1>9. CASE MissionTimer
  <2>1. /\ gate_state = "MISSION" /\ gate_state' = "SLEEP" /\ u' = u + 1
        /\ UNCHANGED <<net_state, starting, NET_cmd, toGateway, serialEvents>>
    BY <1>9, <1>types DEF MissionTimer
  <2> QED
    BY <1>now, <1>then, <2>1 DEF Answered
<1>10. CASE GatewayRestart
  <2>1. /\ serialEvents' = 0 /\ gate_state' = "SLEEP" /\ toGateway' = <<>>
        /\ UNCHANGED <<net_state, starting, NET_cmd, toUav>>
    BY <1>10 DEF GatewayRestart
  <2>2. g' = 0
    BY <2>1
  <2> QED
    BY <1>now, <1>then, <2>1, <2>2 DEF Answered
<1>11. CASE LoseFrame
  <2>1. /\ \/ g > 0 /\ g' = g - 1 /\ UNCHANGED toUav
           \/ u > 0 /\ u' = u - 1 /\ UNCHANGED toGateway
        /\ UNCHANGED <<net_state, starting, NET_cmd, serialEvents, gate_state>>
    BY <1>11, <1>types, <1>now, HeadTail DEF LoseFrame
  <2> QED
    BY <1>now, <1>then, <2>1 DEF Answered
<1>12. CASE UavStep
  <2>1. UNCHANGED <<netVars, lineVars, gateVars>>
    BY <1>12 DEF UavStep, NetworkStateCallback, MainMenu, TakeoffReturns, Rise, TouchDown,
       ContinueFlying, Brake, Sample, Arrive, Depart, TaskMenu
  <2> QED
    BY <1>1, <2>1
<1>13. CASE UNCHANGED vars
  <2>1. UNCHANGED <<netVars, lineVars, gateVars>>
    BY <1>13 DEF vars
  <2> QED
    BY <1>1, <2>1
<1> QED
  BY <1>2, <1>3, <1>4, <1>5, <1>6, <1>7, <1>8, <1>9, <1>10, <1>11, <1>12, <1>13
  DEF Next, NetStep, GatewayStep

(* A restart of network_control is remembered.                             *)
LEMMA StillRestarted ==
  ASSUME [Next]_vars
  PROVE  (restarted => restarted') /\ (~restarted' => [Next /\ ~NetRestart]_vars)
<1>1. CASE NetRestart
  BY <1>1 DEF NetRestart
<1>2. CASE ~NetRestart
  <2>1. [Next /\ ~NetRestart]_vars
    BY <1>2
  <2>2. CASE UavStep
    <3>1. restarted' = restarted
      BY <2>2 DEF UavStep, NetworkStateCallback, MainMenu, TakeoffReturns, Rise, TouchDown,
         ContinueFlying, Brake, Sample, Arrive, Depart, TaskMenu, history
    <3> QED
      BY <2>1, <3>1
  <2>3. CASE StartMission \/ WaitMission \/ NextPoint \/ SpinOnce \/ read_thread
    <3>1. restarted' = restarted
      BY <2>3 DEF StartMission, WaitMission, NextPoint, SpinOnce, read_thread, history
    <3> QED
      BY <2>1, <3>1
  <2>4. CASE GatewayStep \/ LoseFrame \/ UNCHANGED vars
    <3>1. restarted' = restarted
      BY <2>4 DEF GatewayStep, GatewayReads, GatewaySerialEvent, MissionTimer, GatewayRestart,
         LoseFrame, vars, history
    <3> QED
      BY <2>1, <3>1
  <2> QED
    BY <1>2, <2>2, <2>3, <2>4 DEF Next, NetStep
<1> QED
  BY <1>1, <1>2

(* One mission at a time: at most one of the command to start it, the      *)
(* gateway's reaction, the mission and the answer is under way, however    *)
(* many waypoints there are and take-offs wait inside one another, with    *)
(* lost commands and restarts.  It takes both a restart of network_control *)
(* and a take-off that sends the UAV off from a point to break it.         *)
THEOREM OneTurnAtATime == Spec => []OneTurn
<1>1. Init => TypeOK /\ Counting /\ (restarted \/ Answered)
  <2>1. Init => Answered
    BY DEF Init, Answered, UnderWay
  <2> QED
    BY <2>1, TypeInit
<1>2. TypeOK /\ Counting /\ (restarted \/ Answered) /\ [Next]_vars
        => TypeOK' /\ Counting' /\ (restarted' \/ Answered')
  BY TypeStep, AnsweredStep, StillRestarted
<1>3. (interrupted \/ TurnInv) /\ (restarted \/ Answered) => OneTurn
  BY DEF TurnInv, TurnOfGateway, Answered, OneTurn
<1> QED
  BY <1>1, <1>2, <1>3, Turns, PTL DEF Spec

-----------------------------------------------------------------------------
(* The abstract tour.                                                      *)

(* A step of uav_control arrives, leaves, or is none of the tour's.        *)
LEMMA UavTours ==
  ASSUME TypeOK, TurnInv, UavStep, ~interrupted'
  PROVE  [Tour!Next]_(Tour!vars)
<1> DEFINE holding == running_state = "DOING_MISSION"
<1>same. UNCHANGED <<toGateway, toUav, serialEvents, gate_state>>
  BY DEF UavStep, NetworkStateCallback, MainMenu, TakeoffReturns, Rise, TouchDown,
         ContinueFlying, Sample, Brake, Arrive, Depart, TaskMenu, lineVars, gateVars
<1>closed. Quiet => gate_state # "MISSION"
  BY UnderWayParts DEF Quiet
<1>leave. ASSUME holding, ~holding', network_msg = "SLEEPING", served' = served
          PROVE  Tour!Leave
  <2>1. Quiet /\ served
    BY <1>leave DEF TurnInv, TurnOver
  <2> QED
    BY <1>same, <1>closed, <1>leave, <2>1 DEF Tour!Leave
<1>1. CASE Arrive
  <2>1. /\ ~holding /\ holding' /\ served' = FALSE
    BY <1>1 DEF Arrive
  <2>2. gate_state # "MISSION"
    BY <1>closed, <2>1 DEF TurnInv, TurnOfUav
  <2> QED
    BY <1>same, <2>1, <2>2 DEF Tour!Arrive, Tour!Next
<1>2. CASE Depart
  BY <1>2, <1>leave DEF Depart, history, Tour!Next
<1>3. CASE NetworkStateCallback \/ Rise \/ TouchDown \/ ContinueFlying
  <2>1. UNCHANGED <<running_state, served>>
    BY <1>3 DEF NetworkStateCallback, Rise, TouchDown, ContinueFlying, Sample, Brake, history
  <2> QED
    BY <1>same, <2>1 DEF Tour!vars
<1>4. CASE MainMenu \/ TaskMenu
  <2>1. /\ running_state' \in {running_state, "LANDING"} /\ served' = served
    BY <1>4, MenuTypes DEF MainMenu, TaskMenu, history
  <2>2. CASE holding' = holding
    BY <1>same, <2>1, <2>2 DEF Tour!vars
  <2>3. CASE holding' # holding
    <3>1. holding /\ ~holding'
      BY <2>1, <2>3
    <3>2. network_msg = "SLEEPING"
      BY <1>4, <3>1 DEF MainMenu, TaskMenu, Prompts, TurnInv, Menus
    <3> QED
      BY <1>leave, <2>1, <3>1, <3>2 DEF Tour!Next
  <2> QED
    BY <2>2, <2>3
<1>5. CASE TakeoffReturns
  <2>1. served' = served
    BY <1>5 DEF TakeoffReturns
  <2>2. CASE running_state' = running_state
    BY <1>same, <2>1, <2>2 DEF Tour!vars
  <2>3. CASE running_state' # running_state
    <3>1. running_state' = "FLY_NEXT_POINT" /\ ~holding
      BY <1>5, <2>3, Zenon DEF TakeoffReturns
    <3> QED
      BY <1>same, <2>1, <3>1 DEF Tour!vars
  <2> QED
    BY <2>2, <2>3
<1> QED
  BY <1>1, <1>2, <1>3, <1>4, <1>5, Zenon DEF UavStep

(* A step of the gateway opens, closes or aborts the session; the other    *)
(* programs' steps are none of the tour's.                                 *)
LEMMA OthersTour ==
  ASSUME TypeOK, TurnInv, NetStep \/ GatewayStep \/ LoseFrame
  PROVE  [Tour!Next]_(Tour!vars)
<1> USE DEF uavVars, history
<1>parts. /\ UnderWay = Len(toGateway) + serialEvents
                          + (IF gate_state = "MISSION" THEN 1 ELSE 0) + Len(toUav)
          /\ Len(toGateway) \in Nat /\ serialEvents \in Nat /\ Len(toUav) \in Nat
  BY UnderWayParts
<1>turn. TurnOfGateway
  BY DEF TurnInv
<1>1. CASE NetStep \/ GatewayReads \/ LoseFrame
  <2>1. UNCHANGED <<running_state, gate_state, served>>
    BY <1>1 DEF NetStep, StartMission, WaitMission, NextPoint, SpinOnce, read_thread, NetRestart,
                GatewayReads, LoseFrame, gateVars, history
  <2> QED
    BY <2>1 DEF Tour!vars
<1>2. CASE GatewaySerialEvent
  <2>1. serialEvents > 0 /\ UNCHANGED <<running_state, served>>
    BY <1>2 DEF GatewaySerialEvent
  <2>2. UnderWay = 1 /\ gate_state # "MISSION" /\ ~served
    BY <1>parts, <1>turn, <2>1 DEF TurnOfGateway
  <2>3. running_state = "DOING_MISSION"
    BY <2>2 DEF TurnInv, TurnOfUav, Quiet
  <2>4. CASE gate_state' = "MISSION"
    BY <2>1, <2>2, <2>3, <2>4 DEF Tour!Open, Tour!Next
  <2>5. CASE gate_state' # "MISSION"
    BY <2>1, <2>2, <2>5 DEF Tour!vars
  <2> QED
    BY <2>4, <2>5
<1>3. CASE MissionTimer
  BY <1>3 DEF MissionTimer, Tour!Close, Tour!Next
<1>4. CASE GatewayRestart
  <2>1. gate_state' = "SLEEP" /\ UNCHANGED <<running_state, served>>
    BY <1>4 DEF GatewayRestart
  <2>2. CASE gate_state = "MISSION"
    BY <2>1, <2>2 DEF Tour!Abort, Tour!Next
  <2>3. CASE gate_state # "MISSION"
    BY <2>1, <2>3 DEF Tour!vars
  <2> QED
    BY <2>2, <2>3
<1> QED
  BY <1>1, <1>2, <1>3, <1>4 DEF GatewayStep

(* Mission implements Survey: the gateway's mission runs only while the    *)
(* UAV holds, once per stop, and the UAV leaves only when it is over,      *)
(* until a take-off that waited sends it off from a point.                 *)
THEOREM SurveyKept == Spec => KeepsSurvey
<1>1. Init => Tour!Init
  BY DEF Init, Tour!Init
<1>2. TypeOK /\ (interrupted \/ TurnInv) /\ [Next]_vars
        => [interrupted' \/ Tour!Next]_(Tour!vars)
  <2>1. ASSUME TypeOK, TurnInv, UNCHANGED vars PROVE UNCHANGED Tour!vars
    BY <2>1 DEF vars, uavVars, gateVars, history, Tour!vars
  <2>2. ASSUME TypeOK, TurnInv, [Next]_vars, ~interrupted' PROVE [Tour!Next]_(Tour!vars)
    BY <2>1, <2>2, UavTours, OthersTour DEF Next
  <2> QED
    BY <2>2, StillInterrupted
<1> QED
  BY <1>1, <1>2, TypeCorrect, Turns, PTL DEF Spec, KeepsSurvey

-----------------------------------------------------------------------------
(* The samples for a target.                                               *)

(* Of the last k samples in w, those in bounds, by their distance from the *)
(* last one.                                                               *)
InSight(w, k) == {j \in 0..k-1 : w[Len(w) - j] = TRUE}

(* Not braking yet, the UAV was in bounds at as many of the samples it has *)
(* counted as its counter says: it counts from the first that was in       *)
(* bounds, and the window has room for all of them.                        *)
SightInv == break_counter = 0 =>
  /\ inbound_counter = 0 => outbound_counter = 0
  /\ inbound_counter + outbound_counter <= Len(seen)
  /\ inbound_counter <= Cardinality(InSight(seen, inbound_counter + outbound_counter))

(* There is a number of them.                                              *)
LEMMA InSightFinite ==
  ASSUME NEW w, NEW k \in Nat
  PROVE  IsFiniteSet(InSight(w, k)) /\ Cardinality(InSight(w, k)) \in Nat
<1>1. IsFiniteSet(0..k-1)
  BY FS_Interval
<1>2. InSight(w, k) \in SUBSET (0..k-1)
  BY DEF InSight
<1>3. IsFiniteSet(InSight(w, k))
  BY <1>1, <1>2, FS_Subset
<1> QED
  BY <1>3, FS_CardinalityType

(* One more sample is counted: the window keeps those before it, one place *)
(* further from its end, as many as it has room for.                       *)
LEMMA OneMore ==
  ASSUME NEW T, NEW w \in Seq(T), NEW x \in T, NEW k \in Nat, NEW n \in Nat,
         k <= Len(w), n <= Cardinality(InSight(w, k)), k <= IN_BOUNDS + OUT_OF_BOUNDS,
         NEW v, v = LastSeen(Append(w, x))
  PROVE  /\ v \in Seq(T) /\ Len(v) \in Nat /\ Len(w) \in Nat /\ Len(v) >= Len(w)
         /\ k + 1 <= Len(v)
         /\ n <= Cardinality(InSight(v, k + 1))
         /\ x = TRUE => n + 1 <= Cardinality(InSight(v, k + 1))
<1>c. IN_BOUNDS \in Nat /\ OUT_OF_BOUNDS \in Nat
  BY CountsAssumption
<1>1. /\ v \in Seq(T) /\ Len(v) \in Nat /\ Len(w) \in Nat
      /\ \/ Len(v) = Len(w) + 1
         \/ Len(v) = Len(w) /\ Len(w) >= IN_BOUNDS + OUT_OF_BOUNDS + 1
      /\ v[Len(v)] = x
      /\ \A j \in 0..Len(v)-2 : v[Len(v) - (j + 1)] = w[Len(w) - j]
  <2> DEFINE a == Append(w, x)
             m == Len(w)
             d == IF Len(a) > IN_BOUNDS + OUT_OF_BOUNDS + 1 THEN 1 ELSE 0
  <2>1. /\ a \in Seq(T) /\ Len(a) = m + 1 /\ m \in Nat
        /\ \A i \in 1..m : a[i] = w[i]
        /\ a[m + 1] = x
    BY AppendProperties
  <2>2. v = SubSeq(a, 1 + d, Len(a))
    BY DEF LastSeen
  <2> HIDE DEF a, m
  <2>3. d \in {0, 1} /\ (d = 1 => m >= IN_BOUNDS + OUT_OF_BOUNDS + 1)
    BY <2>1, <1>c
  <2> HIDE DEF d
  <2>4. /\ v \in Seq(T) /\ Len(v) = m + 1 - d
        /\ \A i \in 1..m + 1 - d : v[i] = a[d + i]
    <3>1. \A i \in 1 + d..m + 1 : a[i] \in T
      <4>1. \A i \in 1 + d..m + 1 : i \in 1..Len(a)
        BY <2>1, <2>3
      <4> QED
        BY <2>1, <4>1
    <3>2. /\ SubSeq(a, 1 + d, m + 1) \in Seq(T)
          /\ Len(SubSeq(a, 1 + d, m + 1)) = IF 1 + d <= m + 1 THEN (m + 1) - (1 + d) + 1 ELSE 0
          /\ \A i \in 1..(m + 1) - (1 + d) + 1 : SubSeq(a, 1 + d, m + 1)[i] = a[(1 + d) + i - 1]
      <4>1. 1 + d \in Int /\ m + 1 \in Int
        BY <2>1, <2>3
      <4> QED
        BY <3>1, <4>1, SubSeqProperties
    <3>3. 1 + d <= m + 1 /\ (m + 1) - (1 + d) + 1 = m + 1 - d
      BY <2>1, <2>3, <1>c
    <3>4. \A i \in 1..m + 1 - d : (1 + d) + i - 1 = d + i
      BY <2>1, <2>3
    <3> QED
      BY <2>1, <2>2, <3>2, <3>3, <3>4
  <2>5. /\ Len(v) \in Nat /\ Len(v) >= 1
        /\ Len(v) = m + 1 \/ (Len(v) = m /\ m >= IN_BOUNDS + OUT_OF_BOUNDS + 1)
    BY <2>1, <2>3, <2>4, <1>c
  <2>6. v[Len(v)] = x
    <3>1. Len(v) \in 1..m + 1 - d /\ d + Len(v) = m + 1
      BY <2>1, <2>3, <2>4, <2>5
    <3> QED
      BY <2>1, <2>4, <3>1
  <2>7. \A j \in 0..Len(v)-2 : v[Len(v) - (j + 1)] = w[m - j]
    <3>1. SUFFICES ASSUME NEW j \in 0..Len(v)-2 PROVE v[Len(v) - (j + 1)] = w[m - j]
      OBVIOUS
    <3>2. /\ Len(v) - (j + 1) \in 1..m + 1 - d /\ d + (Len(v) - (j + 1)) = m - j
          /\ m - j \in 1..m
      BY <2>1, <2>3, <2>4, <2>5
    <3> QED
      BY <2>1, <2>4, <3>2
  <2> QED
    BY <2>1, <2>4, <2>5, <2>6, <2>7 DEF m
<1>2. k + 1 <= Len(v)
  BY <1>1, <1>c
<1> DEFINE S == InSight(w, k)
           U == InSight(v, k + 1)
           f == [j \in S |-> j + 1]
<1>3. \A j \in S : j \in 0..k-1 /\ j + 1 \in U \ {0} /\ j \in Nat
  <2>1. SUFFICES ASSUME NEW j \in S PROVE j \in 0..k-1 /\ j + 1 \in U \ {0} /\ j \in Nat
    OBVIOUS
  <2>2. j \in 0..k-1 /\ w[Len(w) - j] = TRUE
    BY DEF InSight
  <2>3. j \in 0..Len(v)-2 /\ j + 1 \in 0..(k + 1)-1 /\ j + 1 # 0
    BY <1>1, <1>2, <2>2
  <2>4. v[Len(v) - (j + 1)] = TRUE
    BY <1>1, <2>2, <2>3
  <2> QED
    BY <2>2, <2>3, <2>4 DEF InSight
<1>4. IsFiniteSet(U) /\ IsFiniteSet(S) /\ Cardinality(S) \in Nat /\ Cardinality(U) \in Nat
  BY InSightFinite
<1>0. x = TRUE => 0 \in U
  <2>1. 0 \in 0..(k + 1)-1 /\ Len(v) - 0 = Len(v)
    BY <1>1
  <2> QED
    BY <1>1, <2>1 DEF InSight
<1> HIDE DEF S, U
<1>5. f \in Injection(S, U \ {0})
  <2>1. f \in [S -> U \ {0}]
    BY <1>3
  <2>2. \A a, b \in S : f[a] = f[b] => a = b
    BY <1>3
  <2> HIDE DEF f
  <2> QED
    BY <2>1, <2>2 DEF Injection, IsInjective
<1>6. /\ IsFiniteSet(U \ {0})
      /\ Cardinality(U \ {0}) = IF 0 \in U THEN Cardinality(U) - 1 ELSE Cardinality(U)
  BY <1>4, FS_RemoveElement
<1>7. Cardinality(S) <= Cardinality(U \ {0})
  BY <1>5, <1>6, FS_Injection
<1>8. n <= Cardinality(S)
  BY DEF S
<1>9. n <= Cardinality(U) /\ (x = TRUE => n + 1 <= Cardinality(U))
  <2>1. CASE x = TRUE
    BY <1>0, <1>4, <1>6, <1>7, <1>8, <2>1
  <2>2. CASE x # TRUE
    <3>1. Cardinality(U \ {0}) <= Cardinality(U) /\ Cardinality(U \ {0}) \in Nat
      BY <1>4, <1>6, FS_CardinalityType, FS_Subset
    <3>2. n <= Cardinality(U)
      BY <1>4, <1>7, <1>8, <3>1
    <3> QED
      BY <2>2, <3>2
  <2> QED
    BY <2>1, <2>2
<1> QED
  BY <1>1, <1>2, <1>9 DEF U

(* What happens to a target: a sample, a step of braking, or it is set.    *)
LEMMA TargetCases ==
  ASSUME TypeOK, [Next]_vars
  PROVE  \/ \E within \in BOOLEAN : Sample(within)
         \/ Brake \/ Reset \/ UNCHANGED missionVars
<1>1. CASE MainMenu \/ TaskMenu
  BY <1>1, MenuTypes DEF MainMenu, TaskMenu
<1>2. CASE TakeoffReturns
  BY <1>2, Zenon DEF TakeoffReturns
<1>3. CASE Depart
  BY <1>3 DEF Depart
<1>4. CASE NetworkStateCallback \/ Rise \/ TouchDown \/ Arrive
  BY <1>4 DEF NetworkStateCallback, Rise, TouchDown, Arrive
<1>5. CASE \/ StartMission \/ WaitMission \/ NextPoint \/ SpinOnce \/ read_thread \/ NetRestart
           \/ GatewayReads \/ GatewaySerialEvent \/ MissionTimer \/ GatewayRestart \/ LoseFrame
           \/ UNCHANGED vars
  BY <1>5 DEF StartMission, WaitMission, NextPoint, SpinOnce, read_thread, NetRestart,
     GatewayReads, GatewaySerialEvent, MissionTimer, GatewayRestart, LoseFrame, vars, uavVars
<1> QED
  BY <1>1, <1>2, <1>3, <1>4, <1>5, NextCases, Zenon

(* A sample keeps the counters true to the window, also the one that ends  *)
(* the count.                                                              *)
LEMMA SampleSees ==
  ASSUME TypeOK, Counting, SightInv, NEW within \in BOOLEAN, Sample(within)
  PROVE  /\ inbound_counter' = 0 => outbound_counter' = 0
         /\ inbound_counter' + outbound_counter' <= Len(seen')
         /\ inbound_counter' <= Cardinality(InSight(seen', inbound_counter' + outbound_counter'))
         /\ inbound_counter' \in Nat /\ outbound_counter' \in Nat /\ seen' \in Seq(BOOLEAN)
<1>c. IN_BOUNDS \in Nat /\ OUT_OF_BOUNDS \in Nat
  BY CountsAssumption
<1>t. /\ inbound_counter \in Nat /\ outbound_counter \in Nat /\ outbound_counter <= OUT_OF_BOUNDS
      /\ seen \in Seq(BOOLEAN)
  <2>1. TypeScalars /\ TypeQueues
    BY TypeParts
  <2> QED
    BY <1>c, <2>1 DEF TypeScalars, TypeQueues
<1> DEFINE inbound == inbound_counter + IF within THEN 1 ELSE 0
           outbound == outbound_counter + IF ~within /\ inbound_counter # 0 THEN 1 ELSE 0
           k == inbound_counter + outbound_counter
<1>1. /\ inbound_counter <= IN_BOUNDS
      /\ inbound_counter = 0 => outbound_counter = 0
      /\ k <= Len(seen) /\ inbound_counter <= Cardinality(InSight(seen, k))
      /\ inbound_counter'  = (IF outbound > OUT_OF_BOUNDS THEN 0 ELSE inbound)
      /\ outbound_counter' = (IF outbound > OUT_OF_BOUNDS THEN 0 ELSE outbound)
      /\ seen' = LastSeen(Append(seen, within))
  BY DEF Sample, Counting, SightInv
<1>2. PICK v : v = LastSeen(Append(seen, within))
  OBVIOUS
<1>3. /\ v \in Seq(BOOLEAN) /\ Len(v) \in Nat /\ Len(v) >= Len(seen) /\ Len(seen) \in Nat
      /\ k + 1 <= Len(v)
      /\ inbound_counter <= Cardinality(InSight(v, k + 1))
      /\ within = TRUE => inbound_counter + 1 <= Cardinality(InSight(v, k + 1))
  <2>2. k \in Nat /\ k <= IN_BOUNDS + OUT_OF_BOUNDS
    BY <1>c, <1>t, <1>1
  <2> HIDE DEF k
  <2>3. /\ v \in Seq(BOOLEAN) /\ Len(v) \in Nat /\ Len(v) >= Len(seen) /\ Len(seen) \in Nat
        /\ k + 1 <= Len(v)
        /\ inbound_counter <= Cardinality(InSight(v, k + 1))
        /\ within = TRUE => inbound_counter + 1 <= Cardinality(InSight(v, k + 1))
    BY <1>t, <1>1, <1>2, <2>2, OneMore
  <2> QED
    BY <2>3
<1>4. CASE outbound > OUT_OF_BOUNDS \/ (~within /\ inbound_counter = 0)
  <2>1. inbound_counter' = 0 /\ outbound_counter' = 0
    BY <1>c, <1>t, <1>1, <1>4
  <2>2. Cardinality(InSight(v, 0)) \in Nat
    BY InSightFinite
  <2> QED
    BY <1>1, <1>2, <1>3, <2>1, <2>2
<1>5. CASE ~(outbound > OUT_OF_BOUNDS) /\ (within \/ inbound_counter # 0)
  <2>1. inbound_counter' = inbound /\ outbound_counter' = outbound
    BY <1>1, <1>5
  <2>2. inbound + outbound = k + 1 /\ inbound \in Nat /\ outbound \in Nat /\ inbound # 0
    BY <1>t, <1>5
  <2>3. seen' = v
    BY <1>1, <1>2
  <2>4. inbound <= Cardinality(InSight(v, k + 1))
    <3>1. CASE within
      BY <1>t, <1>3, <3>1
    <3>2. CASE ~within
      BY <1>t, <1>3, <3>2
    <3> QED
      BY <3>1, <3>2
  <2> QED
    BY <1>3, <2>1, <2>2, <2>3, <2>4
<1> QED
  BY <1>4, <1>5

(* SightInv holds at the start, and every step keeps it.                   *)
LEMMA SightInit == Init => SightInv
<1>1. Cardinality(InSight(<<>>, 0)) \in Nat
  BY InSightFinite
<1> QED
  BY <1>1 DEF Init, SightInv

LEMMA SightStep ==
  ASSUME TypeOK, Counting, SightInv, [Next]_vars
  PROVE  SightInv'
<1>1. CASE \E within \in BOOLEAN : Sample(within)
  BY <1>1, SampleSees DEF SightInv
<1>2. CASE Brake
  <2>1. break_counter' # 0
    <3>1. break_counter \in Nat
      <4>1. TypeScalars
        BY TypeParts
      <4> QED
        BY <4>1, CountsAssumption DEF TypeScalars
    <3> QED
      BY <1>2, <3>1 DEF Brake
  <2> QED
    BY <2>1 DEF SightInv
<1>3. CASE Reset
  <2>1. Cardinality(InSight(<<>>, 0)) \in Nat
    BY InSightFinite
  <2>2. seen' = <<>> /\ inbound_counter' = 0 /\ outbound_counter' = 0
    BY <1>3 DEF Reset
  <2> QED
    BY <2>1, <2>2 DEF SightInv
<1>4. CASE UNCHANGED missionVars
  BY <1>4 DEF missionVars, SightInv
<1> QED
  BY <1>1, <1>2, <1>3, <1>4, TargetCases

(* A sample that ends the count leaves more than IN_BOUNDS in the window.  *)
LEMMA BrakesInSight ==
  ASSUME TypeOK, Counting, SightInv, [Next]_vars, break_counter = 0, break_counter' > 0
  PROVE  Cardinality({i \in DOMAIN seen' : seen'[i]}) > IN_BOUNDS
<1>c. IN_BOUNDS \in Nat
  BY CountsAssumption
<1>1. PICK within \in BOOLEAN : Sample(within)
  <2>1. ~Brake /\ ~Reset /\ ~(UNCHANGED missionVars)
    BY DEF Brake, Reset, missionVars
  <2> QED
    BY <2>1, TargetCases
<1>2. PICK v, n, k : v = seen' /\ n = inbound_counter' /\ k = inbound_counter' + outbound_counter'
  OBVIOUS
<1>3. /\ n > IN_BOUNDS /\ k \in Nat /\ v \in Seq(BOOLEAN)
      /\ k <= Len(v) /\ n <= Cardinality(InSight(v, k)) /\ n \in Nat
  <2>1. inbound_counter' > IN_BOUNDS
    BY <1>1 DEF Sample
  <2> QED
    BY <1>1, <1>2, <2>1, SampleSees
<1> DEFINE S == InSight(v, k)
           T == {i \in DOMAIN v : v[i]}
           f == [j \in S |-> Len(v) - j]
<1>4. \A j \in S : j \in Nat /\ Len(v) - j \in T
  <2>1. SUFFICES ASSUME NEW j \in S PROVE j \in Nat /\ Len(v) - j \in T
    OBVIOUS
  <2>2. j \in 0..k-1 /\ v[Len(v) - j] = TRUE
    BY DEF InSight
  <2>3. Len(v) - j \in DOMAIN v /\ j \in Nat
    BY <1>3, <2>2
  <2> QED
    BY <2>2, <2>3
<1>5. IsFiniteSet(T) /\ Cardinality(T) \in Nat
  <2>1. IsFiniteSet(1..Len(v))
    <3>1. 1 \in Int /\ Len(v) \in Int
      BY <1>3
    <3> QED
      BY <3>1, FS_Interval
  <2>0. T \in SUBSET (1..Len(v))
    BY <1>3 DEF T
  <2>2. IsFiniteSet(T)
    BY <2>0, <2>1, FS_Subset
  <2> QED
    BY <2>2, FS_CardinalityType
<1>6. Cardinality(S) \in Nat /\ n <= Cardinality(S) /\ Len(v) \in Nat
  BY <1>3, InSightFinite
<1>t. T = {i \in DOMAIN seen' : seen'[i]}
  BY <1>2
<1> HIDE DEF S, T
<1>7. f \in Injection(S, T)
  <2>1. f \in [S -> T]
    BY <1>4
  <2>2. \A a, b \in S : f[a] = f[b] => a = b
    BY <1>4, <1>6
  <2> HIDE DEF f
  <2> QED
    BY <2>1, <2>2 DEF Injection, IsInjective
<1>8. Cardinality(S) <= Cardinality(T)
  BY <1>5, <1>7, FS_Injection
<1>9. Cardinality(T) > IN_BOUNDS
  BY <1>c, <1>3, <1>5, <1>6, <1>8
<1> QED
  BY <1>9, <1>t

(* The UAV brakes only when it was in bounds at more than IN_BOUNDS of the *)
(* last IN_BOUNDS + OUT_OF_BOUNDS + 1 samples, all taken for this target.  *)
THEOREM BrakesInBounds == Spec => ArrivesInBounds
<1>1. Init => TypeOK /\ Counting /\ SightInv
  BY TypeInit, SightInit
<1>2. TypeOK /\ Counting /\ SightInv /\ [Next]_vars => TypeOK' /\ Counting' /\ SightInv'
  BY TypeStep, SightStep
<1>3. TypeOK /\ Counting /\ SightInv /\ [Next]_vars
        => [break_counter = 0 /\ break_counter' > 0
              => Cardinality({i \in DOMAIN seen' : seen'[i]}) > IN_BOUNDS]_vars
  BY BrakesInSight
<1> QED
  BY <1>1, <1>2, <1>3, PTL DEF Spec, ArrivesInBounds
=============================================================================
