------------------------------ MODULE Mission -------------------------------
(***************************************************************************)
(* The UAV's tour of the waypoints, three programs that only exchange      *)
(* messages:                                                               *)
(*   uav_control (uav_task.cpp, my_flight_control.cpp) flies to a point,   *)
(*     publishes that it arrived and waits;                                *)
(*   network_control (network_control.cpp, net_interface.cpp) then tells   *)
(*     the gateway to start its mission and waits for its START_FLY;       *)
(*   the gateway (gateway.c, serial_thread.c) runs a mission of 60 s.      *)
(* The first two are ROS nodes joined by two topics; network_control and   *)
(* the gateway are joined by a serial line.                                *)
(*                                                                         *)
(* uav_control runs its callbacks in one thread.  A callback may wait      *)
(* inside M100monitoredTakeoff, which calls ros::spinOnce: the callbacks   *)
(* run again, nested, before it returns.                                   *)
(***************************************************************************)
EXTENDS Integers, Sequences, FiniteSets

CONSTANTS
  WAYPOINT_NUM,  \* 5 in uav_task.cpp
  IN_BOUNDS, OUT_OF_BOUNDS, BRAKE,  \* samples that Mission::step counts: 50, 10, 50
  TopicLen,      \* queue length of a topic, 10
  MaxPending,    \* bound: take-offs waiting inside one another
  Loss,          \* BOOLEAN: may the serial line or a full event queue lose a command?
  Crashes        \* BOOLEAN: may network_control or the gateway restart?

ASSUME CountsAssumption == /\ WAYPOINT_NUM \in Nat /\ TopicLen \in Nat \ {0}
                           /\ MaxPending \in Nat \ {0}
                           /\ {IN_BOUNDS, OUT_OF_BOUNDS, BRAKE} \subseteq Nat
ASSUME FaultsAssumption == Loss \in BOOLEAN /\ Crashes \in BOOLEAN

System_state  == {"INIT", "FLY_NEXT_POINT", "DOING_MISSION", "LANDING"}
Network_state == {"UNSTART", "SLEEPING", "WORKING"}
Flight_state  == {"FLYING", "ARRIVE_POINT"}
None    == "none"                         \* 255 in NET_cmd and in UAV_cmd
NET_CMD == {"START_MISSION", "START_FLY"} \* the two commands that are ever sent

VARIABLES
  fly_mode,        \* "TEST" or "MISSION", chosen at start
  running_state,   \* uav_control's state
  waypoint_count,  \* waypoints taken so far
  finished,        \* square_mission.finished: the target is reached
  inbound_counter, outbound_counter, break_counter,  \* of square_mission
  seen,            \* history: was the UAV in bounds at the last samples before it brakes?
  flight,          \* flight_status: "ground", "air" or "finished_landing"
  network_msg,     \* the last network state uav_control heard
  menu,            \* main has not yet returned from its test_menu
  ok,              \* ros::ok: the operator has not quit
  takeoffs,        \* the take-offs that wait, innermost last: begun from the ground?
  stateTopic,      \* /uav_control/control
  networkTopic,    \* /network/control
  uav_state,       \* network_control's copy of the UAV's state
  net_state,       \* network_control's state
  starting,        \* network_control is between sent_cmd and reset_gateway_cmd
  NET_cmd,         \* the last command network_control read
  toGateway,       \* commands on the serial line
  toUav,
  UAV_cmd,         \* the last command the gateway read
  serialEvents,    \* serial_events posted to gateway_process and not yet run
  gate_state,      \* gateway_process's state
  served,          \* history: the gateway ended a mission since the UAV arrived
  interrupted,     \* history: a take-off that waited sent the UAV off from a point
  restarted        \* history: network_control restarted

missionVars == <<finished, inbound_counter, outbound_counter, break_counter, seen>>
uavVars   == <<fly_mode, running_state, waypoint_count, missionVars, flight, network_msg,
               menu, ok, takeoffs>>
netVars   == <<uav_state, net_state, starting, NET_cmd>>
topicVars == <<stateTopic, networkTopic>>
lineVars  == <<toGateway, toUav>>
gateVars  == <<UAV_cmd, serialEvents, gate_state>>
history   == <<served, interrupted, restarted>>
vars == <<uavVars, netVars, topicVars, lineVars, gateVars, history>>

Init ==
  /\ fly_mode \in {"TEST", "MISSION"}
  /\ running_state = "INIT" /\ waypoint_count = 0 /\ flight = "ground"
  /\ finished = FALSE /\ inbound_counter = 0 /\ outbound_counter = 0 /\ break_counter = 0
  /\ seen = <<>>
  /\ network_msg = "UNSTART" /\ menu = TRUE /\ ok = TRUE /\ takeoffs = <<>>
  /\ stateTopic = <<>> /\ networkTopic = <<>>
  /\ uav_state = "FLYING" /\ net_state = "SLEEPING" /\ starting = FALSE /\ NET_cmd = None
  /\ toGateway = <<>> /\ toUav = <<>>
  /\ UAV_cmd = None /\ serialEvents = 0 /\ gate_state = "SLEEP"
  /\ served = FALSE /\ interrupted = FALSE /\ restarted = FALSE

(* ros::Publisher::publish drops the oldest message of a full queue.       *)
Publish(topic, m) == IF Len(topic) < TopicLen THEN Append(topic, m) ELSE Append(Tail(topic), m)
-----------------------------------------------------------------------------
(* uav_control                                                             *)

(* While main is inside its own test_menu, callbacks run only in the        *)
(* spinOnce of a take-off; after ros::shutdown they do not run.            *)
Callbacks == ok /\ (menu => takeoffs # <<>>)

NetworkStateCallback ==
  /\ Callbacks /\ networkTopic # <<>>
  /\ network_msg' = Head(networkTopic)
  /\ networkTopic' = Tail(networkTopic)
  /\ UNCHANGED <<fly_mode, running_state, waypoint_count, missionVars, flight, menu, ok, takeoffs,
                 stateTopic, netVars, lineVars, gateVars, history>>

(* square_mission.reset(), and setTarget.                                  *)
ResetMut ==  \* mutation: the samples counted for the old target stay
  /\ finished' = FALSE /\ outbound_counter' = 0 /\ break_counter' = 0 /\ seen' = <<>>
  /\ UNCHANGED inbound_counter
Reset ==
  /\ finished' = FALSE
  /\ inbound_counter' = 0 /\ outbound_counter' = 0 /\ break_counter' = 0 /\ seen' = <<>>

(* test_menu: the operator types a letter.                                 *)
TypeTakeoff ==  \* 't', and the drone accepts the task
  /\ Len(takeoffs) < MaxPending
  /\ takeoffs' = Append(takeoffs, flight # "air")
  /\ UNCHANGED <<running_state, missionVars, ok>>
TypeGoPoint ==  \* 'g': uav_set_target resets the mission
  /\ Reset
  /\ UNCHANGED <<running_state, takeoffs, ok>>
TypeLand ==     \* 'l'
  /\ running_state' = "LANDING"
  /\ UNCHANGED <<missionVars, takeoffs, ok>>
TypeQuit ==     \* 'q'
  /\ ok' = FALSE
  /\ UNCHANGED <<running_state, missionVars, takeoffs>>
TypeOther ==    \* any other letter, or a take-off that the drone refuses
  UNCHANGED <<running_state, missionVars, takeoffs, ok>>
test_menu == TypeTakeoff \/ TypeGoPoint \/ TypeLand \/ TypeQuit \/ TypeOther

(* main calls test_menu once, before it spins.                             *)
MainMenu ==
  /\ menu /\ takeoffs = <<>> /\ ok
  /\ test_menu
  /\ menu' = (takeoffs' # <<>>)
  /\ UNCHANGED <<fly_mode, waypoint_count, flight, network_msg, netVars, topicVars,
                 lineVars, gateVars, history>>

(* M100monitoredTakeoff returns.  It succeeds when the drone is in the air *)
(* and has climbed enough since it was called, so from the ground.  main   *)
(* then sets the first target; test_menu's other callers ignore the result.*)
TakeoffReturns ==
  \E climbed \in BOOLEAN :
    LET outer == Len(takeoffs) = 1 /\ menu
        up    == flight = "air" /\ takeoffs[Len(takeoffs)] /\ climbed
    IN
    /\ takeoffs # <<>>
    /\ takeoffs' = SubSeq(takeoffs, 1, Len(takeoffs) - 1)
    /\ menu' = (menu /\ ~outer)
    /\ running_state' = IF up THEN "FLY_NEXT_POINT" ELSE running_state
    /\ IF up /\ outer THEN Reset ELSE UNCHANGED missionVars
    /\ interrupted' = (interrupted \/ (up /\ running_state = "DOING_MISSION"))
    /\ UNCHANGED <<fly_mode, waypoint_count, flight, network_msg, ok, netVars, topicVars,
                   lineVars, gateVars, served, restarted>>

(* The drone: it rises while a take-off waits, and lands when told to.     *)
Rise ==
  /\ flight # "air" /\ takeoffs # <<>>
  /\ flight' = "air"
  /\ UNCHANGED <<fly_mode, running_state, waypoint_count, missionVars, network_msg, menu,
                 ok, takeoffs, netVars, topicVars, lineVars, gateVars, history>>
TouchDown ==
  /\ flight = "air" /\ running_state = "LANDING"
  /\ flight' = "finished_landing"
  /\ UNCHANGED <<fly_mode, running_state, waypoint_count, missionVars, network_msg, menu,
                 ok, takeoffs, netVars, topicVars, lineVars, gateVars, history>>

(* gps_callback runs task_state_machine, which calls Mission::step while   *)
(* the target is not reached.  Not braking yet: is the UAV near enough?    *)
LastSeen(w) == SubSeq(w, 1 + (IF Len(w) > IN_BOUNDS + OUT_OF_BOUNDS + 1 THEN 1 ELSE 0), Len(w))
Sample(within) ==
  LET inbound  == inbound_counter + IF within THEN 1 ELSE 0
      outbound == outbound_counter + IF ~within /\ inbound_counter # 0 THEN 1 ELSE 0
      out      == outbound > OUT_OF_BOUNDS
  IN
  /\ Callbacks /\ running_state = "FLY_NEXT_POINT" /\ ~finished /\ break_counter = 0
  /\ inbound_counter'  = IF out THEN 0 ELSE inbound
  /\ outbound_counter' = IF out THEN 0 ELSE outbound
  /\ break_counter' = IF inbound_counter' > IN_BOUNDS THEN 1 ELSE 0
  /\ seen' = LastSeen(Append(seen, within))
  /\ UNCHANGED <<fly_mode, running_state, waypoint_count, finished, flight, network_msg, menu,
                 ok, takeoffs, netVars, topicVars, lineVars, gateVars, history>>
(* It brakes for a while, then the target is reached.                      *)
Brake ==
  /\ Callbacks /\ running_state = "FLY_NEXT_POINT" /\ ~finished /\ break_counter > 0
  /\ IF break_counter > BRAKE
     THEN finished' = TRUE /\ UNCHANGED break_counter
     ELSE break_counter' = break_counter + 1 /\ UNCHANGED finished
  /\ UNCHANGED <<fly_mode, running_state, waypoint_count, inbound_counter, outbound_counter,
                 seen, flight, network_msg, menu, ok, takeoffs, netVars, topicVars, lineVars,
                 gateVars, history>>
ContinueFlying == Brake \/ \E within \in BOOLEAN : Sample(within)

Arrive ==
  /\ Callbacks /\ running_state = "FLY_NEXT_POINT" /\ finished /\ fly_mode = "MISSION"
  /\ running_state' = "DOING_MISSION"
  /\ stateTopic' = Publish(stateTopic, "ARRIVE_POINT")
  /\ network_msg' = "WORKING"
  /\ served' = FALSE
  /\ UNCHANGED <<fly_mode, waypoint_count, missionVars, flight, menu, ok, takeoffs,
                 networkTopic, netVars, lineVars, gateVars, interrupted, restarted>>

DepartMut ==  \* mutation: one waypoint more than mission_point holds
  /\ Callbacks /\ running_state = "DOING_MISSION" /\ network_msg = "SLEEPING"
  /\ waypoint_count <= WAYPOINT_NUM
  /\ waypoint_count' = waypoint_count + 1
  /\ Reset
  /\ running_state' = "FLY_NEXT_POINT"
  /\ stateTopic' = Publish(stateTopic, "FLYING")
  /\ UNCHANGED <<fly_mode, flight, network_msg, menu, ok, takeoffs, networkTopic, netVars,
                 lineVars, gateVars, history>>
Depart ==
  /\ Callbacks /\ running_state = "DOING_MISSION" /\ network_msg = "SLEEPING"
  /\ waypoint_count < WAYPOINT_NUM
  /\ waypoint_count' = waypoint_count + 1
  /\ Reset
  /\ running_state' = "FLY_NEXT_POINT"
  /\ stateTopic' = Publish(stateTopic, "FLYING")
  /\ UNCHANGED <<fly_mode, flight, network_msg, menu, ok, takeoffs, networkTopic, netVars,
                 lineVars, gateVars, history>>

(* The three places of task_state_machine that call test_menu.             *)
Prompts ==
  \/ running_state = "FLY_NEXT_POINT" /\ finished /\ fly_mode = "TEST"
  \/ running_state = "DOING_MISSION" /\ network_msg = "SLEEPING" /\ waypoint_count >= WAYPOINT_NUM
  \/ running_state = "LANDING" /\ flight = "finished_landing"
TaskMenu ==
  /\ Callbacks /\ Prompts
  /\ test_menu
  /\ UNCHANGED <<fly_mode, waypoint_count, flight, network_msg, menu, netVars, topicVars,
                 lineVars, gateVars, history>>
-----------------------------------------------------------------------------
(* network_control                                                         *)

(* ros::spinOnce runs uav_state_callback for every message that waits.     *)
Spun == IF stateTopic = <<>> THEN uav_state ELSE stateTopic[Len(stateTopic)]

(* One turn of the main loop.  sent_cmd returns 20 ms before the command   *)
(* that was read last is reset; read_thread runs in between.               *)
StartMission ==
  /\ ~starting /\ net_state = "SLEEPING" /\ Spun = "ARRIVE_POINT"
  /\ uav_state' = Spun /\ stateTopic' = <<>>
  /\ toGateway' = Append(toGateway, "START_MISSION")
  /\ starting' = TRUE
  /\ UNCHANGED <<uavVars, net_state, NET_cmd, networkTopic, toUav, gateVars, history>>
WaitMissionMut ==  \* mutation: no reset_gateway_cmd
  /\ starting
  /\ starting' = FALSE
  /\ net_state' = "WORKING"
  /\ networkTopic' = Publish(networkTopic, "WORKING")
  /\ UNCHANGED <<uavVars, uav_state, NET_cmd, stateTopic, lineVars, gateVars, history>>
WaitMission ==
  /\ starting
  /\ starting' = FALSE
  /\ NET_cmd' = None
  /\ net_state' = "WORKING"
  /\ networkTopic' = Publish(networkTopic, "WORKING")
  /\ UNCHANGED <<uavVars, uav_state, stateTopic, lineVars, gateVars, history>>
NextPointMut ==  \* mutation: uav_state is left at ARRIVE_POINT
  /\ net_state = "WORKING" /\ NET_cmd = "START_FLY"
  /\ stateTopic' = <<>> /\ uav_state' = Spun
  /\ net_state' = "SLEEPING"
  /\ networkTopic' = Publish(networkTopic, "SLEEPING")
  /\ UNCHANGED <<uavVars, starting, NET_cmd, lineVars, gateVars, history>>
NextPointMute ==  \* mutation: the new state is not published
  /\ net_state = "WORKING" /\ NET_cmd = "START_FLY"
  /\ stateTopic' = <<>> /\ uav_state' = "FLYING"
  /\ net_state' = "SLEEPING"
  /\ UNCHANGED <<uavVars, starting, NET_cmd, networkTopic, lineVars, gateVars, history>>
NextPoint ==
  /\ net_state = "WORKING" /\ NET_cmd = "START_FLY"
  /\ stateTopic' = <<>> /\ uav_state' = "FLYING"
  /\ net_state' = "SLEEPING"
  /\ networkTopic' = Publish(networkTopic, "SLEEPING")
  /\ UNCHANGED <<uavVars, starting, NET_cmd, lineVars, gateVars, history>>
(* A turn in which the switch finds nothing to do.                         *)
SpinOnce ==
  /\ ~starting /\ stateTopic # <<>>
  /\ ~(net_state = "SLEEPING" /\ Spun = "ARRIVE_POINT")
  /\ ~(net_state = "WORKING" /\ NET_cmd = "START_FLY")
  /\ uav_state' = Spun /\ stateTopic' = <<>>
  /\ UNCHANGED <<uavVars, net_state, starting, NET_cmd, networkTopic, lineVars, gateVars, history>>

read_thread ==
  /\ toUav # <<>>
  /\ NET_cmd' = Head(toUav)
  /\ toUav' = Tail(toUav)
  /\ UNCHANGED <<uavVars, uav_state, net_state, starting, topicVars, toGateway, gateVars, history>>

NetRestart ==
  /\ Crashes
  /\ uav_state' = "FLYING" /\ net_state' = "SLEEPING" /\ starting' = FALSE /\ NET_cmd' = None
  /\ stateTopic' = <<>> /\ toUav' = <<>>
  /\ restarted' = TRUE
  /\ UNCHANGED <<uavVars, networkTopic, toGateway, gateVars, served, interrupted>>
-----------------------------------------------------------------------------
(* The gateway                                                             *)

(* ez240_uart_process decodes a frame, keeps its command and posts.        *)
GatewayReads ==
  /\ toGateway # <<>>
  /\ UAV_cmd' = Head(toGateway)
  /\ toGateway' = Tail(toGateway)
  /\ \/ serialEvents' = serialEvents + 1
     \/ Loss /\ UNCHANGED serialEvents
  /\ UNCHANGED <<uavVars, netVars, topicVars, toUav, gate_state, history>>

GatewaySerialEvent ==
  /\ serialEvents > 0
  /\ serialEvents' = serialEvents - 1
  /\ gate_state' = IF UAV_cmd = "START_MISSION" THEN "MISSION" ELSE gate_state
  /\ UNCHANGED <<uavVars, netVars, topicVars, lineVars, UAV_cmd, history>>

(* mission_et expires: it runs exactly while gate_state is MISSION.        *)
MissionTimer ==
  /\ gate_state = "MISSION"
  /\ gate_state' = "SLEEP"
  /\ UAV_cmd' = None
  /\ toUav' = Append(toUav, "START_FLY")
  /\ served' = TRUE
  /\ UNCHANGED <<uavVars, netVars, topicVars, toGateway, serialEvents, interrupted, restarted>>

GatewayRestart ==
  /\ Crashes
  /\ UAV_cmd' = None /\ serialEvents' = 0 /\ gate_state' = "SLEEP" /\ toGateway' = <<>>
  /\ UNCHANGED <<uavVars, netVars, topicVars, toUav, history>>

(* A damaged frame fails its checksum and is dropped.                      *)
LoseFrame ==
  /\ Loss
  /\ \/ toGateway # <<>> /\ toGateway' = Tail(toGateway) /\ UNCHANGED toUav
     \/ toUav # <<>> /\ toUav' = Tail(toUav) /\ UNCHANGED toGateway
  /\ UNCHANGED <<uavVars, netVars, topicVars, gateVars, history>>
-----------------------------------------------------------------------------
UavStep ==
  \/ NetworkStateCallback \/ MainMenu \/ TakeoffReturns \/ Rise \/ TouchDown
  \/ ContinueFlying \/ Arrive \/ Depart \/ TaskMenu
NetStep == StartMission \/ WaitMission \/ NextPoint \/ SpinOnce \/ read_thread \/ NetRestart
GatewayStep == GatewayReads \/ GatewaySerialEvent \/ MissionTimer \/ GatewayRestart

Next == UavStep \/ NetStep \/ GatewayStep \/ LoseFrame

Spec == Init /\ [][Next]_vars

(* Every process keeps running, the drone reaches its target, the timer    *)
(* expires.  Nothing is assumed of the operator.                           *)
Fairness ==
  /\ WF_vars(NetworkStateCallback) /\ WF_vars(Brake) /\ WF_vars(Sample(TRUE))
  /\ WF_vars(Arrive) /\ WF_vars(Depart)
  /\ WF_vars(StartMission) /\ WF_vars(WaitMission) /\ WF_vars(NextPoint)
  /\ WF_vars(SpinOnce) /\ WF_vars(read_thread)
  /\ WF_vars(GatewayReads) /\ WF_vars(GatewaySerialEvent) /\ WF_vars(MissionTimer)

(* The gateway's mission of 60 s outlasts the 20 ms that sent_cmd waits;   *)
(* only liveness needs to know.  Nor does it need that the drone, once it  *)
(* has come near its target, is held there.                                *)
Timely == starting => ~MissionTimer
Steady == inbound_counter > 0 => ~Sample(FALSE)

FairSpec == Init /\ [][Next /\ Timely /\ Steady]_vars /\ Fairness
-----------------------------------------------------------------------------
(* Properties.                                                             *)

(* Every variable keeps the type its declaration gives it.                 *)
TypeOK ==
  /\ fly_mode \in {"TEST", "MISSION"} /\ running_state \in System_state
  /\ waypoint_count \in 0..WAYPOINT_NUM
  /\ finished \in BOOLEAN /\ menu \in BOOLEAN /\ ok \in BOOLEAN
  /\ starting \in BOOLEAN
  /\ served \in BOOLEAN /\ interrupted \in BOOLEAN /\ restarted \in BOOLEAN
  /\ inbound_counter \in 0..IN_BOUNDS+1 /\ outbound_counter \in 0..OUT_OF_BOUNDS
  /\ break_counter \in 0..BRAKE+1 /\ seen \in Seq(BOOLEAN)
  /\ flight \in {"ground", "air", "finished_landing"}
  /\ takeoffs \in Seq(BOOLEAN) /\ Len(takeoffs) <= MaxPending
  /\ network_msg \in Network_state /\ net_state \in Network_state \ {"UNSTART"}
  /\ stateTopic \in Seq(Flight_state) /\ Len(stateTopic) <= TopicLen
  /\ networkTopic \in Seq(Network_state) /\ Len(networkTopic) <= TopicLen
  /\ uav_state \in Flight_state
  /\ NET_cmd \in NET_CMD \cup {None} /\ UAV_cmd \in NET_CMD \cup {None}
  /\ toGateway \in Seq({"START_MISSION"}) /\ toUav \in Seq({"START_FLY"})
  /\ serialEvents \in Nat /\ gate_state \in {"SLEEP", "MISSION"}

(* One mission at a time: of the command to start it, the gateway's        *)
(* reaction, the mission itself and the answer, at most one is under way.  *)
(* Only a network_control that has forgotten it sent the command, and a    *)
(* UAV that was sent off from its point meanwhile, can make it two.        *)
UnderWay ==
  Len(toGateway) + serialEvents + (IF gate_state = "MISSION" THEN 1 ELSE 0) + Len(toUav)
OneTurn == (interrupted /\ restarted) \/ UnderWay <= 1

(* The gateway's mission runs only while the UAV holds at a point, once    *)
(* per stop, and the UAV leaves a point only when it is over, up to a      *)
(* take-off that waited in main or in a callback and sends it off.         *)
Tour == INSTANCE Survey WITH
          holding <- running_state = "DOING_MISSION",
          session <- gate_state = "MISSION"
KeepsSurvey == Tour!Init /\ [][interrupted' \/ Tour!Next]_(Tour!vars)

(* A take-off that waits never sends the UAV off from a point.             *)
StaysAtPoint == ~interrupted

(* A UAV in mission mode that flies comes to the end of its tour, where    *)
(* it asks the operator what to do.                                        *)
AllPointsVisited ==
  (fly_mode = "MISSION" /\ ok /\ running_state = "FLY_NEXT_POINT")
    ~> (waypoint_count = WAYPOINT_NUM /\ network_msg = "SLEEPING")

(* The UAV brakes only after it was in bounds at more than IN_BOUNDS of    *)
(* the samples since it first was, of which no more than OUT_OF_BOUNDS     *)
(* were out: what it counted for an earlier target, or before it drifted   *)
(* off, does not help.                                                     *)
ArrivesInBounds ==
  [][break_counter = 0 /\ break_counter' > 0
       => Cardinality({i \in DOMAIN seen' : seen'[i]}) > IN_BOUNDS]_vars

(* A callback of uav_control returns without waiting: only main itself     *)
(* ever waits for a take-off.                                              *)
CallbackReturns == takeoffs # <<>> => menu

(* Once it has taken off the UAV has a target it has not reached yet.      *)
ClimbsOut ==
  [][running_state # "FLY_NEXT_POINT" /\ running_state' = "FLY_NEXT_POINT" => ~finished']_vars
=============================================================================
