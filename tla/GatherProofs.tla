---------------------------- MODULE GatherProofs ----------------------------
(* Proofs about Gather, for every table whose parents descend.             *)
EXTENDS Gather, TLAPS

(* The table names the sensors and the sink by numbers.                    *)
LEMMA NodesAreNumbers == Sensors \subseteq Nat /\ Sink \in Nat /\ Sink \notin Sensors
<1>1. Sensors \subseteq Nat
  <2>1. SUFFICES ASSUME NEW i \in Columns PROVE rout_list[0][i] \in Nat
    BY DEF Sensors
  <2>2. 0 \in 0..3
    OBVIOUS
  <2>3. rout_list[0] \in [Columns -> Nat]
    BY <2>2, TableAssumption
  <2> QED BY <2>3
<1>2. Sink \in Nat
  BY TableAssumption
<1>3. Sink \notin Sensors
  <2>1. SUFFICES ASSUME NEW i \in Columns, Sink = rout_list[0][i] PROVE FALSE
    BY DEF Sensors
  <2> QED BY <2>1, DescendingAssumption, <1>2
<1> QED BY <1>1, <1>2, <1>3

(* get_parent finds a sensor's column, and there a node with a smaller     *)
(* address.                                                                *)
LEMMA ParentDescends ==
  ASSUME NEW n \in Sensors, NEW r \in Routes
  PROVE  get_parent(n, r) \in Sensors \cup {Sink} /\ get_parent(n, r) < n
<1>1. PICK k \in Columns : rout_list[0][k] = n
  BY DEF Sensors
<1>2. CASE r = UAV_ROUTE
  <2>1. get_parent(n, r) = Sink
    BY <1>2 DEF get_parent
  <2> QED BY <2>1, <1>1, DescendingAssumption
<1>3. CASE r # UAV_ROUTE
  <2> DEFINE i == CHOOSE j \in Columns : rout_list[0][j] = n
  <2>1. i \in Columns /\ rout_list[0][i] = n
    BY <1>1
  <2>2. r \in 1..3
    BY <1>3 DEF Routes, UAV_ROUTE
  <2>3. get_parent(n, r) = rout_list[r][i]
    BY <1>3 DEF get_parent
  <2>4. rout_list[r][i] \in Sensors \cup {Sink}
    BY <2>1, <2>2, ParentsAssumption
  <2>5. rout_list[r][i] < n
    BY <2>1, <2>2, DescendingAssumption
  <2> QED BY <2>3, <2>4, <2>5
<1> QED BY <1>2, <1>3

(* A sensor's parent descends whatever route it is switched to.            *)
LEMMA CurrentParent ==
  ASSUME TypeOK, ParentOfRoute, NEW n \in Sensors
  PROVE  parent[n] \in Sensors \cup {Sink} /\ parent[n] < n
<1>1. rout[n] \in Routes
  BY DEF TypeOK
<1> QED BY <1>1, ParentDescends DEF ParentOfRoute

(* The invariant holds before any package is sent.                         *)
LEMMA InitInv == Init => IndInv
<1> SUFFICES ASSUME Init PROVE IndInv
  OBVIOUS
<1> USE DEF Init
<1>1. \A n \in Sensors : get_parent(n, 1) \in Sensors \cup {Sink}
  BY ParentDescends DEF Routes
<1>2. TypeOK
  BY <1>1, BoundsAssumption DEF TypeOK, Routes
<1>3. ParentOfRoute
  BY DEF ParentOfRoute
<1>4. Descends /\ Originated /\ OnePlace
  BY DEF Descends, Originated, OnePlace
<1> QED BY <1>2, <1>3, <1>4 DEF IndInv

(* Switching the route changes the parent, not the packages.               *)
LEMMA ButtonInv ==
  ASSUME IndInv, NEW n \in Sensors, Button(n) PROVE IndInv'
<1> DEFINE next == IF rout[n] = 4 THEN 1 ELSE rout[n] + 1
<1>1. next \in Routes
  BY DEF IndInv, TypeOK, Routes
<1>2. rout' = [rout EXCEPT ![n] = next] /\ parent' = [parent EXCEPT ![n] = get_parent(n, next)]
  BY DEF Button
<1> HIDE DEF next
<1>3. TypeOK'
  BY <1>1, <1>2, ParentDescends DEF IndInv, TypeOK, Button
<1>4. ParentOfRoute'
  <2>1. SUFFICES ASSUME NEW m \in Sensors PROVE parent'[m] = get_parent(m, rout'[m])
    BY DEF ParentOfRoute, get_parent
  <2>2. CASE m = n
    BY <1>2, <2>2 DEF IndInv, TypeOK
  <2>3. CASE m # n
    BY <1>2, <2>3 DEF IndInv, TypeOK, ParentOfRoute
  <2> QED BY <2>2, <2>3
<1>5. Descends' /\ Originated' /\ OnePlace'
  BY DEF IndInv, Descends, Originated, OnePlace, Button
<1> QED BY <1>3, <1>4, <1>5 DEF IndInv

(* A new package has a number that no package of the sensor has yet.       *)
LEMMA TimerInv ==
  ASSUME IndInv, NEW n \in Sensors, Timer(n) PROVE IndInv'
<1> DEFINE id == packet_count[n] + 1
           new == [to |-> parent[n], msg |-> [node_id |-> n, package_id |-> id], via |-> {n}]
<1>1. id \in 1..MaxPackets /\ packet_count[n] \in Nat
  BY BoundsAssumption DEF IndInv, TypeOK, Timer
<1>2. parent[n] \in Sensors \cup {Sink} /\ parent[n] < n
  BY CurrentParent DEF IndInv
<1>3. new \in Frames /\ new.msg = [node_id |-> n, package_id |-> id]
  BY <1>1, <1>2 DEF Frames, Packages
<1>4. /\ air' = air \cup {new}
      /\ packet_count' = [packet_count EXCEPT ![n] = id]
      /\ UNCHANGED <<rout, parent, recorded, lost>>
  BY DEF Timer
<1>5. new.msg \notin {f.msg : f \in air} \cup recorded \cup lost
  <2>1. new.msg.package_id = packet_count[n] + 1 /\ new.msg.node_id = n
    BY <1>3
  <2> QED BY <1>1, <2>1 DEF IndInv, Originated
<1>6. Descends'
  <2>1. \A v \in new.via : new.to < v
    BY <1>2
  <2> HIDE DEF new
  <2> QED BY <1>4, <2>1 DEF IndInv, Descends
<1>7. Originated'
  <2>1. \A m \in Packages : packet_count[m.node_id] \in Nat /\ packet_count'[m.node_id] \in Nat
                            /\ packet_count[m.node_id] <= packet_count'[m.node_id]
    BY <1>1, <1>4, BoundsAssumption DEF IndInv, TypeOK, Packages
  <2>2. {f.msg : f \in air} \cup recorded \cup lost \subseteq Packages
    BY DEF IndInv, TypeOK, Frames
  <2>3. new.msg.package_id <= packet_count'[new.msg.node_id]
    BY <1>1, <1>3, <1>4 DEF IndInv, TypeOK
  <2> HIDE DEF new
  <2>4. {f.msg : f \in air'} \cup recorded' \cup lost' = ({f.msg : f \in air} \cup recorded \cup lost) \cup {new.msg}
    BY <1>4
  <2>5. \A m \in Packages : m.package_id \in Nat
    BY BoundsAssumption DEF Packages
  <2>6. ASSUME NEW m \in {f.msg : f \in air} \cup recorded \cup lost PROVE m.package_id <= packet_count'[m.node_id]
    BY <2>1, <2>2, <2>5 DEF IndInv, Originated
  <2> QED BY <2>3, <2>4, <2>6 DEF Originated
<1> HIDE DEF new, id
<1>8. OnePlace'
  BY <1>4, <1>5 DEF IndInv, OnePlace
<1>9. TypeOK'
  BY <1>1, <1>3, <1>4, BoundsAssumption DEF IndInv, TypeOK
<1>10. ParentOfRoute'
  BY <1>4 DEF IndInv, ParentOfRoute, get_parent
<1> QED BY <1>6, <1>7, <1>8, <1>9, <1>10 DEF IndInv

(* Every node passed has a larger address than the one that forwards, and  *)
(* the next has a smaller one.                                             *)
LEMMA ForwardInv ==
  ASSUME IndInv, NEW f \in air, Forward(f) PROVE IndInv'
<1> DEFINE next == [to |-> parent[f.to], msg |-> f.msg, via |-> f.via \cup {f.to}]
<1>1. f \in Frames /\ f.to \in Sensors
  BY DEF IndInv, TypeOK, Forward
<1>2. parent[f.to] \in Sensors \cup {Sink} /\ parent[f.to] < f.to
  BY <1>1, CurrentParent DEF IndInv
<1>3. next \in Frames /\ next.msg = f.msg
  BY <1>1, <1>2 DEF Frames
<1>4. air' = (air \ {f}) \cup {next} /\ UNCHANGED <<rout, parent, packet_count, recorded, lost>>
  BY DEF Forward
<1>5. \A v \in next.via : next.to < v
  <2>1. SUFFICES ASSUME NEW v \in f.via PROVE parent[f.to] < v
    BY <1>2
  <2>2. f.to < v
    BY DEF IndInv, Descends
  <2>3. v \in Sensors
    BY <1>1 DEF Frames
  <2>4. v \in Nat /\ f.to \in Nat /\ parent[f.to] \in Nat
    BY <1>1, <1>2, <2>3, NodesAreNumbers
  <2> QED BY <1>2, <2>2, <2>4
<1> HIDE DEF next
<1>6. TypeOK'
  BY <1>3, <1>4 DEF IndInv, TypeOK
<1>7. ParentOfRoute'
  BY <1>4 DEF IndInv, ParentOfRoute, get_parent
<1>8. Descends'
  BY <1>4, <1>5 DEF IndInv, Descends
<1>9. Originated'
  BY <1>3, <1>4 DEF IndInv, Originated
<1>10. OnePlace'
  BY <1>3, <1>4 DEF IndInv, OnePlace
<1> QED BY <1>6, <1>7, <1>8, <1>9, <1>10 DEF IndInv

(* Recording a package at the sink keeps the invariant.                    *)
LEMMA RecordInv ==
  ASSUME IndInv, NEW f \in air, Record(f) PROVE IndInv'
<1>1. /\ air' = air \ {f} /\ recorded' = recorded \cup {f.msg}
      /\ UNCHANGED <<rout, parent, packet_count, lost>>
  BY DEF Record
<1>2. f.msg \in Packages
  BY DEF IndInv, TypeOK, Frames
<1>3. TypeOK'
  BY <1>1, <1>2 DEF IndInv, TypeOK
<1>4. ParentOfRoute'
  BY <1>1 DEF IndInv, ParentOfRoute, get_parent
<1>5. Descends' /\ Originated'
  BY <1>1 DEF IndInv, Descends, Originated
<1>6. OnePlace'
  BY <1>1 DEF IndInv, OnePlace
<1> QED BY <1>3, <1>4, <1>5, <1>6 DEF IndInv

(* A lost package leaves the rest as it was.                               *)
LEMMA LoseInv ==
  ASSUME IndInv, NEW f \in air, Lose(f) PROVE IndInv'
<1>1. /\ air' = air \ {f} /\ lost' = lost \cup {f.msg}
      /\ UNCHANGED <<rout, parent, packet_count, recorded>>
  BY DEF Lose
<1>2. TypeOK' /\ ParentOfRoute'
  <2>1. f.msg \in Packages
    BY DEF IndInv, TypeOK, Frames
  <2> QED BY <1>1, <2>1 DEF IndInv, TypeOK, ParentOfRoute, get_parent
<1>3. Descends' /\ Originated' /\ OnePlace'
  BY <1>1 DEF IndInv, Descends, Originated, OnePlace
<1> QED BY <1>2, <1>3 DEF IndInv

(* The inductive invariant holds in every reachable state.                 *)
THEOREM Invariance == Spec => []IndInv
<1>1. IndInv /\ [Next]_vars => IndInv'
  <2>1. SUFFICES ASSUME IndInv, [Next]_vars PROVE IndInv'
    OBVIOUS
  <2>2. ASSUME NEW n \in Sensors, Button(n) \/ Timer(n) PROVE IndInv'
    BY <2>1, <2>2, ButtonInv, TimerInv
  <2>3. ASSUME NEW f \in air, Forward(f) \/ Record(f) \/ Lose(f) PROVE IndInv'
    BY <2>1, <2>3, ForwardInv, RecordInv, LoseInv
  <2>4. CASE UNCHANGED vars
    BY <2>1, <2>4 DEF vars, IndInv, TypeOK, ParentOfRoute, get_parent, Descends, Originated, OnePlace
  <2> QED BY <2>1, <2>2, <2>3, <2>4 DEF Next
<1> QED BY <1>1, InitInv, PTL DEF Spec

(* The variables of every sensor and of the sink keep their types.         *)
THEOREM TypeCorrect == Spec => []TypeOK
<1>1. IndInv => TypeOK
  BY DEF IndInv
<1> QED BY <1>1, Invariance, PTL

(* Sensors on different routes, and sensors switched while a package is on *)
(* its way, never send it in a circle: unicast_recv forwards without a hop *)
(* limit.                                                                  *)
THEOREM NeverLoops == Spec => []NoLoop
<1>1. IndInv => NoLoop
  <2>1. SUFFICES ASSUME IndInv, NEW f \in air, f.to \in f.via PROVE FALSE
    BY DEF NoLoop
  <2>2. f.to < f.to
    BY <2>1 DEF IndInv, Descends
  <2>3. f.to \in Nat
    BY <2>1, NodesAreNumbers DEF IndInv, TypeOK, Frames
  <2> QED BY <2>2, <2>3
<1> QED BY <1>1, Invariance, PTL

(* unicast_recv of the sink records no package twice, however long its way *)
(* was.                                                                    *)
THEOREM RecordedOnce == Spec => []OnePlace
<1>1. IndInv => OnePlace
  BY DEF IndInv
<1> QED BY <1>1, Invariance, PTL
=============================================================================
