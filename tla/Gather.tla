------------------------------- MODULE Gather -------------------------------
(***************************************************************************)
(* Gathering of sensor data at the sink: aerialnet/gathering/gather.c on   *)
(* the sensors, aerialnet/gathering_sink/gather.c on the sink.  A sensor   *)
(* sends its packages to a parent, and forwards to its own parent whatever *)
(* it is sent.  The parent comes from a table compiled into every sensor;  *)
(* a button switches one sensor, and no other, to the next route.          *)
(***************************************************************************)
EXTENDS Integers, FiniteSets

CONSTANTS
  Sink,        \* node 16
  SENSOR_NUM,  \* columns of the table
  rout_list,   \* row 0: the sensors; rows 1..3: their parents on each route
  MaxPackets,  \* bound: packages per sensor
  Loss         \* BOOLEAN: may the radio lose a package?

Columns == 0..SENSOR_NUM-1
Sensors == {rout_list[0][i] : i \in Columns}
Routes  == 1..4
UAV_ROUTE == 4

ASSUME TableAssumption ==
  /\ Sink \in Nat /\ SENSOR_NUM \in Nat
  /\ rout_list \in [0..3 -> [Columns -> Nat]]
(* No sensor is listed twice, and parents are other sensors or the sink.   *)
ASSUME ParentsAssumption ==
  /\ \A i, j \in Columns : rout_list[0][i] = rout_list[0][j] => i = j
  /\ \A r \in 1..3 : \A i \in Columns : rout_list[r][i] \in Sensors \cup {Sink}
(* On every route a parent has a smaller address than its child.           *)
ASSUME DescendingAssumption ==
  /\ \A i \in Columns : Sink < rout_list[0][i]
  /\ \A r \in 1..3 : \A i \in Columns : rout_list[r][i] < rout_list[0][i]
ASSUME BoundsAssumption == MaxPackets \in Nat /\ Loss \in BOOLEAN

VARIABLES
  rout,          \* the route each sensor is switched to
  parent,        \* where it sends
  packet_count,  \* packages it has originated
  air,           \* the unicasts that have not arrived, with the nodes passed (history)
  recorded,      \* the packages in the sink's file
  lost           \* history: the packages that the radio lost

vars == <<rout, parent, packet_count, air, recorded, lost>>

Packages == [node_id: Sensors, package_id: 1..MaxPackets]
Frames   == [to: Sensors \cup {Sink}, msg: Packages, via: SUBSET Sensors]

(* get_parent looks the sensor up in row 0 and takes that column of its    *)
(* route; the UAV's route has no row.                                      *)
get_parentMut(n, r) ==  \* mutation: the loop stops a column late
  IF r = UAV_ROUTE THEN Sink
  ELSE LET i == CHOOSE j \in Columns : rout_list[0][j] = n
       IN  rout_list[r][(i + 1) % SENSOR_NUM]
get_parent(n, r) ==
  IF r = UAV_ROUTE THEN Sink
  ELSE LET i == CHOOSE j \in Columns : rout_list[0][j] = n IN rout_list[r][i]

Init ==
  /\ rout = [n \in Sensors |-> 1]
  /\ parent = [n \in Sensors |-> get_parent(n, 1)]
  /\ packet_count = [n \in Sensors |-> 0]
  /\ air = {} /\ recorded = {} /\ lost = {}

(* The button was pressed on n.                                            *)
ButtonMut(n) ==  \* mutation: the route does not wrap around
  /\ rout' = [rout EXCEPT ![n] = @ + 1]
  /\ parent' = [parent EXCEPT ![n] = Sink]
  /\ UNCHANGED <<packet_count, air, recorded, lost>>
Button(n) ==
  LET next == IF rout[n] = 4 THEN 1 ELSE rout[n] + 1 IN
  /\ rout' = [rout EXCEPT ![n] = next]
  /\ parent' = [parent EXCEPT ![n] = get_parent(n, next)]
  /\ UNCHANGED <<packet_count, air, recorded, lost>>

(* The timer expired on n: it originates a package.                        *)
Timer(n) ==
  /\ packet_count[n] < MaxPackets
  /\ packet_count' = [packet_count EXCEPT ![n] = @ + 1]
  /\ air' = air \cup {[to  |-> parent[n],
                       msg |-> [node_id |-> n, package_id |-> packet_count[n] + 1],
                       via |-> {n}]}
  /\ UNCHANGED <<rout, parent, recorded, lost>>

(* A sensor hears a package: unicast_recv forwards it.                     *)
ForwardMut(f) ==  \* mutation: unicast_recv sends what the node built last, not what it heard
  /\ f.to \in Sensors
  /\ air' = (air \ {f}) \cup
            {[to  |-> parent[f.to],
              msg |-> [f.msg EXCEPT !.node_id = f.to], via |-> {f.to}]}
  /\ UNCHANGED <<rout, parent, packet_count, recorded, lost>>
Forward(f) ==
  /\ f.to \in Sensors
  /\ air' = (air \ {f}) \cup
            {[to |-> parent[f.to], msg |-> f.msg, via |-> f.via \cup {f.to}]}
  /\ UNCHANGED <<rout, parent, packet_count, recorded, lost>>

(* The sink hears a package and records it.                                *)
Record(f) ==
  /\ f.to = Sink
  /\ recorded' = recorded \cup {f.msg}
  /\ air' = air \ {f}
  /\ UNCHANGED <<rout, parent, packet_count, lost>>

Lose(f) ==
  /\ Loss
  /\ air' = air \ {f}
  /\ lost' = lost \cup {f.msg}
  /\ UNCHANGED <<rout, parent, packet_count, recorded>>

Next ==
  \/ \E n \in Sensors : Button(n) \/ Timer(n)
  \/ \E f \in air : Forward(f) \/ Record(f) \/ Lose(f)

Spec == Init /\ [][Next]_vars

(* A unicast arrives at a node that keeps running.                         *)
Arrival(m)  == \E f \in air : f.msg = m /\ (Forward(f) \/ Record(f))
FairSpec == Spec /\ \A m \in Packages : WF_vars(Arrival(m))
-----------------------------------------------------------------------------
(* Properties.                                                             *)

(* Every variable keeps its type.                                          *)
TypeOK ==
  /\ rout \in [Sensors -> Routes]
  /\ parent \in [Sensors -> Sensors \cup {Sink}]
  /\ packet_count \in [Sensors -> 0..MaxPackets]
  /\ air \subseteq Frames
  /\ recorded \subseteq Packages /\ lost \subseteq Packages

(* A package never comes back to a node it has passed, although every      *)
(* sensor on its way may be switched to another route at any moment.       *)
NoLoop == \A f \in air : f.to \notin f.via

(* A package is at one place at a time, on its way, recorded or lost: the  *)
(* sink records no package twice.                                          *)
OnePlace ==
  /\ \A f, g \in air : f.msg = g.msg => f = g
  /\ \A f \in air : f.msg \notin recorded \cup lost
  /\ recorded \cap lost = {}

(* What a sensor sends is recorded in the end, unless the radio loses it,  *)
(* however often the sensors on its way are switched.                      *)
Delivered ==
  \A m \in Packages :
    packet_count[m.node_id] >= m.package_id ~> m \in recorded \cup lost
-----------------------------------------------------------------------------
(* The inductive invariant of GatherProofs.                                *)

(* Parents are those of the route, so they descend; so do the packages.    *)
ParentOfRoute == \A n \in Sensors : parent[n] = get_parent(n, rout[n])
Descends == \A f \in air : \A n \in f.via : f.to < n
(* The packages on their way, recorded or lost were originated.                  *)
Originated ==
  \A m \in {f.msg : f \in air} \cup recorded \cup lost : m.package_id <= packet_count[m.node_id]

IndInv == TypeOK /\ ParentOfRoute /\ Descends /\ Originated /\ OnePlace
=============================================================================
