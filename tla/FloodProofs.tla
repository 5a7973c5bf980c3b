----------------------------- MODULE FloodProofs -----------------------------
(* Proofs about Flood, for any number of relays in any ranges.             *)
EXTENDS Flood, FiniteSetTheorems, TLAPS

(* There are finitely many relays, so they can be counted.                 *)
LEMMA RelayCount == Cardinality(Relays) \in Nat
  BY NodesAssumption, FS_CardinalityType

(* What a node broadcasts are frames, with its id, hop count and history.  *)
LEMMA BroadcastFrames ==
  ASSUME NEW n \in Nodes, NEW i \in Ids, NEW h \in 0..Cardinality(Relays), NEW via \in SUBSET Relays
  PROVE  /\ Broadcast(n, i, h, via) \subseteq Frames
         /\ \A f \in Broadcast(n, i, h, via) : f.id = i /\ f.hop = h /\ f.via = via
<1>1. Hears[n] \subseteq Receivers
  BY NodesAssumption
<1> QED BY <1>1 DEF Broadcast, Frames

(* The invariant holds before anything is sent.                            *)
LEMMA InitInv == Init => IndInv
<1> SUFFICES ASSUME Init PROVE IndInv
  OBVIOUS
<1> USE DEF Init
<1>1. 0 \in Ids
  BY BoundsAssumption DEF Ids
<1>2. TypeOK
  BY <1>1 DEF TypeOK
<1>3. HopsCountRelays /\ SeenByRelays
  BY DEF HopsCountRelays, SeenByRelays
<1>4. NewUnsent /\ SentOnce
  BY DEF NewUnsent, SentOnce
<1> QED BY <1>2, <1>3, <1>4 DEF IndInv

(* A send keeps the invariant: the sender has seen the package it sends.   *)
LEMMA SendInv ==
  ASSUME IndInv, Send PROVE IndInv'
<1> DEFINE i == packet_count + 1
<1>1. i \in Ids
  BY BoundsAssumption DEF IndInv, TypeOK, Ids, Send
<1>2. /\ air' = air \cup Broadcast(Source, i, 0, {}) /\ packet_count' = i
      /\ UNCHANGED <<max_package_number, data_buf, line, lost, resends>>
  BY DEF Send
<1>3. 0 \in 0..Cardinality(Relays) /\ Source \in Nodes
  BY RelayCount DEF Nodes
<1> HIDE DEF i
<1>4. /\ Broadcast(Source, i, 0, {}) \subseteq Frames
      /\ \A f \in Broadcast(Source, i, 0, {}) : f.hop = 0 /\ f.via = {}
  BY <1>1, <1>3, BroadcastFrames
<1>5. TypeOK'
  BY <1>1, <1>2, <1>4 DEF IndInv, TypeOK
<1>6. HopsCountRelays'
  <2>1. Cardinality({}) = 0
    BY FS_EmptySet
  <2> QED BY <1>2, <1>4, <2>1 DEF IndInv, HopsCountRelays
<1>7. SeenByRelays'
  BY <1>2, <1>4 DEF IndInv, SeenByRelays
<1>8. NewUnsent' /\ SentOnce'
  BY <1>2 DEF IndInv, NewUnsent, SentOnce
<1> QED BY <1>5, <1>6, <1>7, <1>8 DEF IndInv

(* A relay for which a package is new has not sent it on: this is the      *)
(* first time, and the way of the copy grows with the hop count.           *)
LEMMA ResendInv ==
  ASSUME IndInv, NEW f \in air, Resend(f) PROVE IndInv'
<1> DEFINE via == f.via \cup {f.to}
           new == Broadcast(f.to, f.id, f.hop + 1, via)
<1>1. /\ f \in Frames /\ f.to \in Relays /\ f.id > max_package_number[f.to]
      /\ f.id \in Ids /\ f.via \in SUBSET Relays /\ f.hop \in 0..Cardinality(Relays)
      /\ f.to \in Receivers /\ f.to \in Nodes
  BY DEF IndInv, TypeOK, Frames, Resend, Receivers, Nodes
<1>2. /\ air' = (air \ {f}) \cup new
      /\ data_buf' = [data_buf EXCEPT ![f.to] = f.id]
      /\ max_package_number' = [max_package_number EXCEPT ![f.to] = f.id]
      /\ line' = [line EXCEPT ![f.to] = [entry |-> data_buf[f.to], heard |-> f.id]]
      /\ resends' = [resends EXCEPT ![f.to][f.id] = @ + 1]
      /\ UNCHANGED <<packet_count, lost>>
  BY DEF Resend, Record
<1>3. \A n \in Receivers : max_package_number[n] \in Int
  BY BoundsAssumption DEF IndInv, TypeOK, Ids
<1>4. \A g \in air : g.id \in Int /\ g.via \subseteq Receivers
  BY BoundsAssumption DEF IndInv, TypeOK, Frames, Ids, Receivers
<1>grows. \A n \in Receivers : /\ max_package_number'[n] \in Int
                              /\ max_package_number'[n] >= max_package_number[n]
  BY <1>1, <1>2, <1>3, <1>4 DEF IndInv, TypeOK
<1>5. f.to \notin f.via
  BY <1>1, <1>3, <1>4 DEF IndInv, SeenByRelays
<1>6. via \in SUBSET Relays /\ Cardinality(via) = f.hop + 1
  <2>1. IsFiniteSet(f.via)
    BY <1>1, NodesAssumption, FS_Subset
  <2>2. Cardinality(via) = Cardinality(f.via) + 1
    BY <1>5, <2>1, FS_AddElement
  <2> QED BY <1>1, <2>2 DEF IndInv, HopsCountRelays
<1>7. f.hop + 1 \in 0..Cardinality(Relays)
  <2>1. Cardinality(via) <= Cardinality(Relays)
    BY <1>6, NodesAssumption, FS_Subset
  <2> QED BY <1>1, <1>6, <2>1, RelayCount
<1> HIDE DEF via
<1>8. new \subseteq Frames /\ \A g \in new : g.id = f.id /\ g.hop = f.hop + 1 /\ g.via = via
  BY <1>1, <1>6, <1>7, BroadcastFrames
<1> HIDE DEF new
<1>9. TypeOK'
  BY <1>1, <1>2, <1>8 DEF IndInv, TypeOK
<1>10. HopsCountRelays'
  BY <1>2, <1>6, <1>8 DEF IndInv, HopsCountRelays
<1>11. SeenByRelays'
  <2>2. ASSUME NEW g \in air, NEW n \in g.via PROVE max_package_number'[n] >= g.id
    BY <1>3, <1>4, <1>grows DEF IndInv, SeenByRelays
  <2>3. ASSUME NEW g \in new, NEW n \in via PROVE max_package_number'[n] >= f.id
    <3>1. max_package_number'[f.to] = f.id
      BY <1>1, <1>2 DEF IndInv, TypeOK
    <3> QED BY <1>4, <2>2, <3>1 DEF via
  <2> QED BY <1>2, <1>8, <2>2, <2>3 DEF SeenByRelays
<1>12. NewUnsent' /\ SentOnce'
  <2>1. resends[f.to][f.id] = 0
    BY <1>1 DEF IndInv, NewUnsent
  <2>2. SUFFICES ASSUME NEW n \in Relays, NEW i \in Ids
                 PROVE  (i > max_package_number'[n] => resends'[n][i] = 0) /\ resends'[n][i] <= 1
    BY DEF NewUnsent, SentOnce
  <2>3. CASE n = f.to /\ i = f.id
    <3>1. resends'[n][i] = 1
      BY <1>1, <1>2, <2>1, <2>3 DEF IndInv, TypeOK
    <3>2. max_package_number'[n] = i
      BY <1>1, <1>2, <2>3 DEF IndInv, TypeOK
    <3>3. i \in Int
      BY BoundsAssumption DEF Ids
    <3> QED BY <3>1, <3>2, <3>3
  <2>4. CASE ~(n = f.to /\ i = f.id)
    <3>1. resends'[n][i] = resends[n][i]
      BY <1>1, <1>2, <2>4 DEF IndInv, TypeOK
    <3>2. n \in Receivers /\ i \in Int
      BY BoundsAssumption DEF Receivers, Ids
    <3>3. i > max_package_number'[n] => i > max_package_number[n]
      BY <1>3, <1>grows, <3>2
    <3> QED BY <3>1, <3>3 DEF IndInv, NewUnsent, SentOnce
  <2> QED BY <2>3, <2>4
<1> QED BY <1>9, <1>10, <1>11, <1>12 DEF IndInv

(* Steps that send nothing new keep the invariant.                         *)
LEMMA KeepInv ==
  ASSUME IndInv, NEW f \in air, Keep(f) PROVE IndInv'
<1>1. f.to \in Receivers /\ f.id \in Ids
  BY DEF IndInv, TypeOK, Frames
<1>2. /\ air' = air \ {f}
      /\ data_buf' = [data_buf EXCEPT ![f.to] = f.id]
      /\ line' = [line EXCEPT ![f.to] = [entry |-> data_buf[f.to], heard |-> f.id]]
      /\ UNCHANGED <<packet_count, max_package_number, lost, resends>>
  BY DEF Keep, Record
<1>3. TypeOK'
  BY <1>1, <1>2 DEF IndInv, TypeOK
<1>4. HopsCountRelays' /\ SeenByRelays' /\ NewUnsent' /\ SentOnce'
  BY <1>2 DEF IndInv, HopsCountRelays, SeenByRelays, NewUnsent, SentOnce
<1> QED BY <1>3, <1>4 DEF IndInv

(* A lost copy leaves the rest as it was.                                  *)
LEMMA LoseInv ==
  ASSUME IndInv, NEW f \in air, Lose(f) PROVE IndInv'
  BY DEF IndInv, TypeOK, HopsCountRelays, SeenByRelays, NewUnsent, SentOnce, Lose

(* The inductive invariant holds in every reachable state.                 *)
THEOREM Invariance == Spec => []IndInv
<1>1. IndInv /\ [Next]_vars => IndInv'
  <2>1. SUFFICES ASSUME IndInv, [Next]_vars PROVE IndInv'
    OBVIOUS
  <2>2. CASE Send
    BY <2>1, <2>2, SendInv
  <2>3. ASSUME NEW f \in air, Resend(f) \/ Keep(f) \/ Lose(f) PROVE IndInv'
    BY <2>1, <2>3, ResendInv, KeepInv, LoseInv
  <2>4. CASE UNCHANGED vars
    BY <2>1, <2>4 DEF vars, IndInv, TypeOK, HopsCountRelays, SeenByRelays, NewUnsent, SentOnce
  <2> QED BY <2>1, <2>2, <2>3, <2>4 DEF Next
<1> QED BY <1>1, InitInv, PTL DEF Spec

(* The receivers' variables keep their types, and data_buf[2] stays within *)
(* the number of relays.                                                   *)
THEOREM TypeCorrect == Spec => []TypeOK
<1>1. IndInv => TypeOK
  BY DEF IndInv
<1> QED BY <1>1, Invariance, PTL

(* broadcast_recv of a relay sends no package on twice, over however many  *)
(* ways its copies come.                                                   *)
THEOREM EachSentOnce == Spec => []SentOnce
<1>1. IndInv => SentOnce
  BY DEF IndInv
<1> QED BY <1>1, Invariance, PTL
=============================================================================
