---------------------------- MODULE DelugeProofs ----------------------------
(***************************************************************************)
(* Proofs about Deluge for every set of sensors, every topology, every     *)
(* image size and every bound: IndInv is an inductive invariant of Spec,   *)
(* and with it the safety properties that the runs check.                  *)
(***************************************************************************)
EXTENDS Deluge, TLAPS

-----------------------------------------------------------------------------
(* Lemmas about the operators.                                             *)

(* highest_available_page of a prefix of the pages is its length.          *)
LEMMA FirstMissingPrefix ==
  ASSUME NEW h \in 0..NPages
  PROVE  FirstMissing(0..h-1) = h
<1> DEFINE P(i) == (\A p \in 0..i-1 : p \in 0..h-1) /\ (i = NPages \/ i \notin 0..h-1)
<1>1. P(h)
  BY SizesAssumption
<1>2. \A i \in 0..NPages : P(i) => i = h
  <2> SUFFICES ASSUME NEW i \in 0..NPages, P(i)
               PROVE  i = h
    OBVIOUS
  <2>1. CASE i < h
    BY <2>1, SizesAssumption
  <2>2. CASE i > h
    <3>1. h \in 0..i-1
      BY <2>2, SizesAssumption
    <3> QED
      BY <3>1, SizesAssumption
  <2> QED
    BY <2>1, <2>2, SizesAssumption
<1> HIDE DEF P
<1>3. (CHOOSE i \in 0..NPages : P(i)) = h
  BY <1>1, <1>2
<1> QED
  BY <1>3 DEF FirstMissing, P

(* Without complete pages it is 0.                                         *)
LEMMA FirstMissingNone == FirstMissing({}) = 0
<1>1. 0..0-1 = {}
  OBVIOUS
<1> QED
  BY <1>1, FirstMissingPrefix, SizesAssumption

(* What a broadcast or a unicast puts on the air are frames.               *)
LEMMA BroadcastFrames ==
  ASSUME NEW n \in Nodes, NEW msgs, msgs \subseteq Messages
  PROVE  Broadcast(n, msgs) \subseteq Frames
BY DEF Broadcast, Neighbours, Frames

(* The same of a unicast.                                                  *)
LEMMA UnicastFrames ==
  ASSUME NEW n \in Nodes, NEW to, NEW m \in Messages
  PROVE  Unicast(n, to, m) \subseteq Frames
BY DEF Unicast, Neighbours, Frames

(* A full MAC sends less, never more.                                      *)
LEMMA SendsSubset ==
  ASSUME NEW n, NEW D
  PROVE  Sends(n, D) \subseteq D
BY DEF Sends

(* In a reachable state a node has as many pages available as it has       *)
(* complete: all of them, or those before current_rx_page.                 *)
LEMMA AvailablePages ==
  ASSUME TypeOK, UpdateAtomic, NEW n \in Nodes
  PROVE  /\ Available(n) \in 0..NPages
         /\ version[n] = updateVersion[n] => Available(n) = NPages
         /\ version[n] # updateVersion[n] => Available(n) = rxPage[n]
<1>1. CASE version[n] = updateVersion[n]
  <2>1. complete[n] = 0..NPages-1
    BY <1>1 DEF UpdateAtomic, Pages
  <2> QED
    BY <1>1, <2>1, FirstMissingPrefix, SizesAssumption DEF Available
<1>2. CASE version[n] # updateVersion[n]
  <2>1. complete[n] = 0..rxPage[n]-1 /\ rxPage[n] \in 0..NPages
    BY <1>2 DEF UpdateAtomic, TypeOK
  <2> QED
    BY <1>2, <2>1, FirstMissingPrefix, SizesAssumption DEF Available
<1> QED
  BY <1>1, <1>2

(* The frames that each sender puts on the air, and their commands.        *)
LEMMA AdvertisementFrames ==
  ASSUME TypeOK, NEW n \in Nodes, NEW C, FirstMissing(C) \in 0..NPages
  PROVE  /\ Advertisement(n, C) \subseteq Frames
         /\ \A f \in Advertisement(n, C) : f.msg.cmd = "summary"
<1>1. SummaryOf(n, C) \in Messages /\ SummaryOf(n, C).cmd = "summary"
  BY DEF SummaryOf, Messages, SummaryMsg, TypeOK
<1>2. Advertisement(n, C) \subseteq Broadcast(n, {SummaryOf(n, C)})
  BY SendsSubset DEF Advertisement
<1>3. \A f \in Broadcast(n, {SummaryOf(n, C)}) : f.msg = SummaryOf(n, C)
  BY DEF Broadcast
<1> QED
  BY <1>1, <1>2, <1>3, BroadcastFrames

(* send_profile.                                                           *)
LEMMA ProfileFrames ==
  ASSUME TypeOK, NEW n \in Nodes
  PROVE  /\ Broadcast(n, {ProfileOf(n)}) \subseteq Frames
         /\ \A f \in Broadcast(n, {ProfileOf(n)}) : f.msg = ProfileOf(n)
<1>1. ProfileOf(n) \in Messages
  BY DEF ProfileOf, Messages, ProfileMsg, TypeOK
<1>2. \A f \in Broadcast(n, {ProfileOf(n)}) : f.msg = ProfileOf(n)
  BY DEF Broadcast
<1> QED
  BY <1>1, <1>2, BroadcastFrames

(* send_request.                                                           *)
LEMMA RequestFrames ==
  ASSUME TypeOK, NEW n \in Nodes, NEW to, NEW v \in Versions
  PROVE  /\ Unicast(n, to, RequestOf(n, v)) \subseteq Frames
         /\ \A f \in Unicast(n, to, RequestOf(n, v)) : f.msg = RequestOf(n, v)
<1>1. RequestOf(n, v) \in Messages
  <2>1. RequestOf(n, v).set \in SUBSET Bits
    BY DEF RequestOf
  <2>2. RequestOf(n, v).pagenum \in 0..NPages
    BY DEF RequestOf, TypeOK
  <2> QED
    BY <2>1, <2>2 DEF RequestOf, Messages, RequestMsg
<1>2. \A f \in Unicast(n, to, RequestOf(n, v)) : f.msg = RequestOf(n, v)
  BY DEF Unicast
<1> QED
  BY <1>1, <1>2, UnicastFrames

(* send_page.                                                              *)
LEMMA BurstFrames ==
  ASSUME TypeOK, NEW n \in Nodes, txPage[n] >= 0
  PROVE  /\ PageBurst(n) \subseteq Frames
         /\ \A f \in PageBurst(n) : \E k \in Packets : f.msg = PacketOf(n, txPage[n], k)
<1> DEFINE wanted == txSet[n] \cap Packets
           sent   == {k \in wanted : Cardinality({j \in wanted : j <= k}) <= Room(n)}
           msgs   == {PacketOf(n, txPage[n], k) : k \in sent}
<1>1. txPage[n] \in Pages
  BY DEF TypeOK
<1>2. \A k \in Packets : PacketOf(n, txPage[n], k) \in Messages
  BY <1>1 DEF PacketOf, Messages, PacketMsg, TypeOK
<1>3. sent \subseteq Packets
  OBVIOUS
<1>4. msgs \subseteq Messages
  BY <1>2, <1>3
<1>5. PageBurst(n) = Broadcast(n, msgs)
  BY DEF PageBurst
<1>6. \A f \in Broadcast(n, msgs) : f.msg \in msgs
  BY DEF Broadcast
<1> HIDE DEF msgs
<1>7. Broadcast(n, msgs) \subseteq Frames
  BY <1>4, BroadcastFrames
<1> USE DEF msgs
<1> QED
  BY <1>3, <1>5, <1>6, <1>7
-----------------------------------------------------------------------------
(* A copy of a packet is data, and stays a copy when a loader has written  *)
(* addresses into it.                                                      *)
LEMMA CopiesOfPacket ==
  ASSUME NEW v \in Versions, NEW p \in Pages, NEW k \in Packets
  PROVE  /\ Original(v, p, k) \in Copies(v, p, k) /\ Original(v, p, k) \in Payload
         /\ \A data \in Copies(v, p, k) : Relocated(data) \in Copies(v, p, k)
<1>1. Original(v, p, k) \in Image
  BY DEF Original, Image
<1>2. Relocated(Original(v, p, k)) = <<v, p, k, TRUE>>
  BY DEF Original, Relocated
<1>3. Relocated(Relocated(Original(v, p, k))) = <<v, p, k, TRUE>>
  BY <1>2 DEF Relocated
<1> QED
  BY <1>1, <1>2, <1>3 DEF Copies, Payload

(* The loader writes data over data.                                       *)
LEMMA RelocatedPayload ==
  ASSUME NEW data \in Payload
  PROVE  Relocated(data) \in Payload
<1>1. CASE data \in Image
  <2>1. PICK v \in Versions, p \in Pages, k \in Packets, b \in BOOLEAN : data = <<v, p, k, b>>
    BY <1>1 DEF Image
  <2>2. Relocated(data) = <<v, p, k, TRUE>>
    BY <2>1 DEF Relocated
  <2>3. <<v, p, k, TRUE>> \in Image
    BY DEF Image
  <2> QED
    BY <2>2, <2>3 DEF Payload
<1>2. CASE data \in {Garbage, Relocated(Garbage)}
  <2>1. Relocated(Garbage) = <<-1, -1, -1, TRUE>>
    BY DEF Garbage, Relocated
  <2>2. Relocated(Relocated(Garbage)) = <<-1, -1, -1, TRUE>>
    BY <2>1 DEF Relocated
  <2> QED
    BY <1>2, <2>1, <2>2 DEF Payload
<1> QED
  BY <1>1, <1>2 DEF Payload

(* An image is a file.                                                     *)
LEMMA ImageFileType ==
  ASSUME NEW v \in Versions
  PROVE  /\ ImageFile(v) \in [Pages -> [Packets -> Payload]]
         /\ \A p \in Pages : \A k \in Packets : ImageFile(v)[p][k] \in Copies(v, p, k)
<1>1. \A p \in Pages : \A k \in Packets :
        Original(v, p, k) \in Payload /\ Original(v, p, k) \in Copies(v, p, k)
  BY CopiesOfPacket
<1> QED
  BY <1>1 DEF ImageFile

(* So is a file that a loader has been at, page by page and packet by      *)
(* packet as before but for the addresses.                                 *)
LEMMA LinkedFile ==
  ASSUME NEW file \in [Pages -> [Packets -> Payload]], NEW count \in 0..NPages
  PROVE  /\ Linked(file, count) \in [Pages -> [Packets -> Payload]]
         /\ \A p \in Pages : \A k \in Packets :
              Linked(file, count)[p][k] \in {file[p][k], Relocated(file[p][k])}
<1>1. \A p \in Pages : \A k \in Packets : Relocated(file[p][k]) \in Payload
  BY RelocatedPayload
<1> QED
  BY <1>1 DEF Linked
-----------------------------------------------------------------------------
(* One lemma per action.                                                   *)

(* Each part of the invariant survives a step that leaves alone the        *)
(* variables it is about.                                                  *)
LEMMA Framed ==
  ASSUME IndInv
  PROVE  /\ UNCHANGED <<version, updateVersion, pageVersion, complete, rxPage>>
              => UpdateAtomic'
         /\ UNCHANGED <<version, updateVersion, timers>> => GatewayLeads'
         /\ UNCHANGED <<air, version>> => UniformProfiles'
         /\ UNCHANGED <<updateVersion>> => SensorsUpdateOnce'
         /\ UNCHANGED <<timers, rxPage, version, updateVersion>> => RequestsMissing'
         /\ UNCHANGED <<complete, packetSet, rxPage>> => PacketsCounted'
         /\ UNCHANGED <<air>> => UsefulRequests'
         /\ UNCHANGED <<txSet, version, updateVersion>> => ServesWhole'
         /\ UNCHANGED <<state, timers, txSet, txPage>> => NoStuckState'
         /\ UNCHANGED <<updateState, version, updateVersion>> => PendingFinished'
         /\ UNCHANGED <<air, version, updateVersion, packetSet, rxPage, buffer>>
              => (~Garbles => TrueLabels')
         /\ UNCHANGED <<complete, flash, pageVersion>> => (~Garbles => ImageIntegrity')
<1> USE DEF IndInv
<1>1. UNCHANGED <<version, updateVersion, pageVersion, complete, rxPage>> => UpdateAtomic'
  BY DEF UpdateAtomic
<1>2. UNCHANGED <<version, updateVersion, timers>> => GatewayLeads'
  BY DEF GatewayLeads
<1>3. UNCHANGED <<air, version>> => UniformProfiles'
  BY DEF UniformProfiles
<1>4. UNCHANGED <<updateVersion>> => SensorsUpdateOnce'
  BY DEF SensorsUpdateOnce
<1>5. UNCHANGED <<timers, rxPage, version, updateVersion>> => RequestsMissing'
  BY DEF RequestsMissing
<1>6. UNCHANGED <<complete, packetSet, rxPage>> => PacketsCounted'
  BY DEF PacketsCounted
<1>7. UNCHANGED <<air>> => UsefulRequests'
  BY DEF UsefulRequests
<1>8. UNCHANGED <<txSet, version, updateVersion>> => ServesWhole'
  BY DEF ServesWhole
<1>9. UNCHANGED <<state, timers, txSet, txPage>> => NoStuckState'
  BY DEF NoStuckState
<1>10. UNCHANGED <<updateState, version, updateVersion>> => PendingFinished'
  BY DEF PendingFinished
<1>11. UNCHANGED <<air, version, updateVersion, packetSet, rxPage, buffer>> => (~Garbles => TrueLabels')
  BY DEF TrueLabels
<1>12. UNCHANGED <<complete, flash, pageVersion>> => (~Garbles => ImageIntegrity')
  BY DEF ImageIntegrity
<1> QED
  BY <1>1, <1>2, <1>3, <1>4, <1>5, <1>6, <1>7, <1>8, <1>9, <1>10, <1>11, <1>12

(* A step that does no more than take frames off the air keeps the         *)
(* invariant: every part that reads the air speaks of each frame alone.    *)
LEMMA AirShrinksStep ==
  ASSUME IndInv, air' \subseteq air, UNCHANGED <<version, updateVersion,
           pageVersion, complete, packetSet, rxPage, buffer, flash,
           updateState, state, timers, txPage, txSet, recvAdv, bcastProfile,
           summaryFrom, events, told, reported>>
  PROVE  IndInv'
<1> USE DEF IndInv
<1>1. TypeOK'
  <2>1. air' \subseteq Frames
    BY DEF TypeOK
  <2> QED
    BY <2>1 DEF TypeOK
<1>2. /\ UpdateAtomic' /\ GatewayLeads' /\ SensorsUpdateOnce' /\
         RequestsMissing' /\ PacketsCounted' /\ ServesWhole' /\
         NoStuckState' /\ PendingFinished'
      /\ ~Garbles => ImageIntegrity'
  BY Framed
<1>3. UniformProfiles'
  BY DEF UniformProfiles
<1>4. UsefulRequests'
  BY DEF UsefulRequests
<1>5. ~Garbles => TrueLabels'
  BY DEF TrueLabels
<1> QED
  BY <1>1, <1>2, <1>3, <1>4, <1>5

(* Steps of the radio and of the round timer.                              *)
LEMMA LoseStep ==
  ASSUME IndInv, NEW f \in air, Lose(f)
  PROVE  IndInv'
BY AirShrinksStep DEF Lose, imageVars, fileVars, fsmVars, txVars, advVars, gwVars

(* A new round arms only the summary and profile timers, and the profile   *)
(* timer only at the gateway.                                              *)
LEMMA RoundStep ==
  ASSUME IndInv, NEW n \in Nodes, Round(n)
  PROVE  IndInv'
<1> USE DEF IndInv
<1>u. UNCHANGED <<version, updateVersion, pageVersion, complete, packetSet,
                   rxPage, buffer, flash, updateState, state, txPage, txSet,
                   bcastProfile, summaryFrom, air, events, told, reported>>
  BY DEF Round, imageVars, fileVars, fsmVars, txVars, advVars, gwVars
<1>c. recvAdv' = [recvAdv EXCEPT ![n] = 0]
  BY DEF Round
<1>d. timers' = [timers EXCEPT ![n] = IF n = Gateway THEN @ \cup {"summary", "profile"} ELSE @]
  BY DEF Round
<1>1. TypeOK'
  <2>1. timers' \in [Nodes -> SUBSET Timers]
    BY <1>u, <1>c, <1>d DEF TypeOK, Timers
  <2>2. recvAdv' \in [Nodes -> 0..CONST_K]
    BY <1>u, <1>c, <1>d DEF TypeOK, CONST_K
  <2> QED
    BY <1>u, <2>1, <2>2 DEF TypeOK
<1>2. /\ UpdateAtomic' /\ UniformProfiles' /\ SensorsUpdateOnce' /\
         PacketsCounted' /\ UsefulRequests' /\ ServesWhole' /\
         PendingFinished'
      /\ ~Garbles => TrueLabels' /\ ImageIntegrity'
  BY <1>u, Framed
<1>3. GatewayLeads'
  BY <1>u, <1>c, <1>d DEF GatewayLeads, TypeOK
<1>4. RequestsMissing'
  BY <1>u, <1>c, <1>d DEF RequestsMissing, TypeOK
<1>5. NoStuckState'
  BY <1>u, <1>c, <1>d DEF NoStuckState, TypeOK
<1> QED
  BY <1>1, <1>2, <1>3, <1>4, <1>5

(* advertise_summary puts summaries on the air, which no part of the       *)
(* invariant restricts.                                                    *)
LEMMA SummaryTimerStep ==
  ASSUME IndInv, NEW n \in Nodes, SummaryTimer(n)
  PROVE  IndInv'
<1> USE DEF IndInv
<1>u. UNCHANGED <<version, updateVersion, pageVersion, complete, packetSet,
                   rxPage, buffer, flash, updateState, state, txPage, txSet,
                   recvAdv, bcastProfile, summaryFrom, events, told, reported>>
  BY DEF SummaryTimer, imageVars, fileVars, fsmVars, txVars, advVars, gwVars
<1>c. timers' = [timers EXCEPT ![n] = @ \ {"summary"}]
  BY DEF SummaryTimer
<1>d. /\ air' \subseteq air \cup Frames
      /\ \A f \in air' \ air : f.msg.cmd = "summary"
  BY AvailablePages, AdvertisementFrames DEF SummaryTimer, Available
<1>1. TypeOK'
  <2>1. timers' \in [Nodes -> SUBSET Timers]
    BY <1>u, <1>c, <1>d DEF TypeOK
  <2>2. air' \subseteq Frames
    BY <1>u, <1>c, <1>d DEF TypeOK
  <2> QED
    BY <1>u, <2>1, <2>2 DEF TypeOK
<1>2. /\ UpdateAtomic' /\ SensorsUpdateOnce' /\ PacketsCounted' /\
         ServesWhole' /\ PendingFinished'
      /\ ~Garbles => ImageIntegrity'
  BY <1>u, Framed
<1>3. GatewayLeads'
  BY <1>u, <1>c, <1>d DEF GatewayLeads, TypeOK
<1>4. UniformProfiles'
  BY <1>u, <1>c, <1>d DEF UniformProfiles
<1>5. RequestsMissing'
  BY <1>u, <1>c, <1>d DEF RequestsMissing, TypeOK
<1>6. UsefulRequests'
  BY <1>u, <1>c, <1>d DEF UsefulRequests
<1>7. NoStuckState'
  BY <1>u, <1>c, <1>d DEF NoStuckState, TypeOK
<1>8. ~Garbles => TrueLabels'
  BY <1>u, <1>c, <1>d DEF TrueLabels
<1> QED
  BY <1>1, <1>2, <1>3, <1>4, <1>5, <1>6, <1>7, <1>8

(* send_profile runs at the gateway only, which is never in an update, so  *)
(* the profile it sends is that of a whole image.                          *)
LEMMA ProfileTimerStep ==
  ASSUME IndInv, NEW n \in Nodes, ProfileTimer(n)
  PROVE  IndInv'
<1> USE DEF IndInv
<1>u. UNCHANGED <<version, updateVersion, pageVersion, complete, packetSet,
                   rxPage, buffer, flash, updateState, state, txPage, txSet,
                   recvAdv, summaryFrom, events, told, reported>>
  BY DEF ProfileTimer, imageVars, fileVars, fsmVars, txVars, advVars, gwVars
<1>c. "profile" \in timers[n] /\ timers' = [timers EXCEPT ![n] = @ \ {"profile"}]
  BY DEF ProfileTimer
<1>d. bcastProfile' \in [Nodes -> BOOLEAN]
  BY DEF ProfileTimer, TypeOK
<1>e. /\ air' \subseteq air \cup Frames
      /\ \A f \in air' \ air : f.msg = ProfileOf(n)
  BY ProfileFrames, SendsSubset DEF ProfileTimer
<1>f. \A f \in air' \ air : f.msg.cmd = "profile"
  BY <1>e DEF ProfileOf
<1>1. TypeOK'
  <2>1. timers' \in [Nodes -> SUBSET Timers]
    BY <1>u, <1>c, <1>d, <1>e, <1>f DEF TypeOK
  <2>2. bcastProfile' \in [Nodes -> BOOLEAN]
    BY <1>u, <1>c, <1>d, <1>e, <1>f DEF TypeOK
  <2>3. air' \subseteq Frames
    BY <1>u, <1>c, <1>d, <1>e, <1>f DEF TypeOK
  <2> QED
    BY <1>u, <2>1, <2>2, <2>3 DEF TypeOK
<1>2. /\ UpdateAtomic' /\ SensorsUpdateOnce' /\ PacketsCounted' /\
         ServesWhole' /\ PendingFinished'
      /\ ~Garbles => ImageIntegrity'
  BY <1>u, Framed
<1>3. GatewayLeads'
  BY <1>u, <1>c, <1>d, <1>e, <1>f DEF GatewayLeads, TypeOK
<1>4. UniformProfiles'
  <2>0. "profile" \in timers[n]
    BY <1>c
  <2>1. n = Gateway
    BY <2>0 DEF GatewayLeads
  <2>2. pageVersion[n] = [p \in Pages |-> version[n]]
    BY <2>1 DEF GatewayLeads, UpdateAtomic
  <2>3. version[n] <= version[Gateway]
    BY <2>1 DEF TypeOK, Versions
  <2>4. ProfileOf(n).version = version[n] /\ ProfileOf(n).vector = pageVersion[n]
    BY DEF ProfileOf
  <2> QED
    BY <1>u, <1>e, <2>2, <2>3, <2>4 DEF UniformProfiles
<1>5. RequestsMissing'
  BY <1>u, <1>c, <1>d, <1>e, <1>f DEF RequestsMissing, TypeOK
<1>6. UsefulRequests'
  BY <1>u, <1>c, <1>d, <1>e, <1>f DEF UsefulRequests
<1>7. NoStuckState'
  BY <1>u, <1>c, <1>d, <1>e, <1>f DEF NoStuckState, TypeOK
<1>8. ~Garbles => TrueLabels'
  BY <1>u, <1>c, <1>d, <1>e, <1>f DEF TrueLabels
<1> QED
  BY <1>1, <1>2, <1>3, <1>4, <1>5, <1>6, <1>7, <1>8

(* send_request asks for the packets that its page misses: the page is the *)
(* first one that is not complete, so the set is not empty.                *)
LEMMA RequestTimerStep ==
  ASSUME IndInv, NEW n \in Nodes, RequestTimer(n)
  PROVE  IndInv'
<1> USE DEF IndInv
<1>u. UNCHANGED <<version, updateVersion, pageVersion, complete, packetSet,
                   rxPage, buffer, flash, updateState, txPage, txSet,
                   recvAdv, bcastProfile, summaryFrom, events, told, reported>>
  BY DEF RequestTimer, imageVars, fileVars, fsmVars, txVars, advVars, gwVars
<1>c. /\ "rx" \in timers[n]
      /\ state' = [state EXCEPT ![n] = "maintain"]
      /\ timers' = [timers EXCEPT ![n] = ((timers[n] \ {"rx"}) \ Stopped(state[n], "maintain")) \cup {}]
  BY DEF RequestTimer, Transition
<1>p. PICK v \in Versions :
        /\ rxPage[n] \in Pages => v = pageVersion[n][rxPage[n]]
        /\ air' = air \cup Sends(n, Unicast(n, summaryFrom[n], RequestOf(n, v)))
  BY DEF RequestTimer
<1>d. /\ air' \subseteq air \cup Frames
      /\ \A f \in air' \ air : f.msg = RequestOf(n, v)
  BY <1>p, RequestFrames, SendsSubset
<1>e. /\ RequestOf(n, v).cmd = "request" /\ RequestOf(n, v).version = v
      /\ RequestOf(n, v).pagenum = rxPage[n]
      /\ rxPage[n] \in Pages => RequestOf(n, v).set = Bits \ packetSet[n][rxPage[n]]
  BY DEF RequestOf
<1>1. TypeOK'
  <2>1. state' \in [Nodes -> States]
    BY <1>u, <1>c, <1>d, <1>e DEF TypeOK, States
  <2>2. timers' \in [Nodes -> SUBSET Timers]
    BY <1>u, <1>c, <1>d, <1>e DEF TypeOK, Timers
  <2>3. air' \subseteq Frames
    BY <1>u, <1>c, <1>d, <1>e DEF TypeOK
  <2> QED
    BY <1>u, <2>1, <2>2, <2>3 DEF TypeOK
<1>2. /\ UpdateAtomic' /\ SensorsUpdateOnce' /\ PacketsCounted' /\
         ServesWhole' /\ PendingFinished'
      /\ ~Garbles => ImageIntegrity'
  BY <1>u, Framed
<1>3. GatewayLeads'
  BY <1>u, <1>c, <1>d, <1>e DEF GatewayLeads, TypeOK
<1>4. UniformProfiles'
  BY <1>u, <1>c, <1>d, <1>e DEF UniformProfiles
<1>5. RequestsMissing'
  BY <1>u, <1>c, <1>d, <1>e DEF RequestsMissing, TypeOK
<1>6. UsefulRequests'
  <2>1. ASSUME rxPage[n] < NPages
        PROVE  v > 0 /\ Bits \ packetSet[n][rxPage[n]] # {} /\ rxPage[n] \in Pages
    <3>1. rxPage[n] \in Pages
      BY <2>1, SizesAssumption DEF TypeOK, Pages
    <3>2. version[n] # updateVersion[n]
      BY <1>c, <2>1 DEF RequestsMissing
    <3>3. /\ version[n] < updateVersion[n] /\ complete[n] = 0..rxPage[n]-1
          /\ pageVersion[n] = [p \in Pages |-> updateVersion[n]]
      BY <3>2 DEF UpdateAtomic
    <3>4. rxPage[n] \notin complete[n]
      BY <3>3, <3>1, SizesAssumption DEF Pages
    <3>5. packetSet[n][rxPage[n]] # Packets /\ packetSet[n][rxPage[n]] \subseteq Packets
      BY <3>1, <3>4 DEF PacketsCounted, TypeOK
    <3>6. Packets \subseteq Bits
      BY SizesAssumption DEF Packets, Bits
    <3>7. pageVersion[n][rxPage[n]] > 0
      BY <3>1, <3>3 DEF TypeOK, Versions
    <3> QED
      BY <1>p, <3>1, <3>5, <3>6, <3>7
  <2> QED
    BY <1>d, <1>e, <2>1 DEF UsefulRequests
<1>7. NoStuckState'
  BY <1>u, <1>c, <1>d, <1>e DEF NoStuckState, TypeOK
<1>8. ~Garbles => TrueLabels'
  BY <1>u, <1>c, <1>d, <1>e DEF TrueLabels
<1> QED
  BY <1>1, <1>2, <1>3, <1>4, <1>5, <1>6, <1>7, <1>8

(* A node that serves a page is not in an update (ServesWhole), so the     *)
(* page is complete and its packets carry the data they are labelled with. *)
LEMMA TxTimerStep ==
  ASSUME IndInv, NEW n \in Nodes, TxTimer(n)
  PROVE  IndInv'
<1> USE DEF IndInv
<1>u. UNCHANGED <<version, updateVersion, pageVersion, complete, packetSet,
                   rxPage, buffer, flash, updateState, recvAdv, bcastProfile,
                   summaryFrom, events, told, reported>>
  BY DEF TxTimer, imageVars, fileVars, fsmVars, txVars, advVars, gwVars
<1>c. \/ /\ txPage[n] >= 0 /\ txSet[n] # {}
         /\ air' = air \cup PageBurst(n)
         /\ txSet' = [txSet EXCEPT ![n] = {}]
         /\ txPage' = [txPage EXCEPT ![n] = -1]
         /\ state' = [state EXCEPT ![n] = "maintain"]
      \/ /\ ~(txPage[n] >= 0 /\ txSet[n] # {})
         /\ UNCHANGED <<air, txSet, txPage, state>>
  BY DEF TxTimer, Transition, txVars
<1>d. PICK S \in SUBSET Timers :
        /\ timers' = [timers EXCEPT ![n] = (timers[n] \ {"tx"}) \ S]
        /\ (txPage[n] >= 0 /\ txSet[n] # {}) \/ S = {}
  <2>1. CASE txPage[n] >= 0 /\ txSet[n] # {}
    <3>1. timers' = [timers EXCEPT ![n] = ((timers[n] \ {"tx"}) \ Stopped(state[n], "maintain")) \cup {}]
      BY <2>1 DEF TxTimer, Transition
    <3>2. timers' = [timers EXCEPT ![n] = (timers[n] \ {"tx"}) \ (Stopped(state[n], "maintain") \cap Timers)]
      BY <3>1 DEF TypeOK
    <3> QED
      BY <2>1, <3>2
  <2>2. CASE ~(txPage[n] >= 0 /\ txSet[n] # {})
    <3>1. timers' = [timers EXCEPT ![n] = (timers[n] \ {"tx"}) \ {}]
      BY <2>2 DEF TxTimer
    <3> QED
      BY <3>1
  <2> QED
    BY <2>1, <2>2
<1>e. /\ air' \subseteq air \cup Frames
      /\ \A f \in air' \ air :
           /\ txPage[n] >= 0 /\ txSet[n] # {}
           /\ \E k \in Packets : f.msg = PacketOf(n, txPage[n], k)
  BY <1>c, BurstFrames
<1>f. \A f \in air' \ air : f.msg.cmd = "packet"
  <2>1. \A k \in Packets : PacketOf(n, txPage[n], k).cmd = "packet"
    BY DEF PacketOf
  <2> QED
    BY <1>e, <2>1
<1>1. TypeOK'
  <2>1. state' \in [Nodes -> States]
    BY <1>u, <1>c, <1>d, <1>e, <1>f DEF TypeOK, States
  <2>2. timers' \in [Nodes -> SUBSET Timers]
    BY <1>u, <1>c, <1>d, <1>e, <1>f DEF TypeOK
  <2>3. txPage' \in [Nodes -> Pages \cup {-1}]
    BY <1>u, <1>c, <1>d, <1>e, <1>f DEF TypeOK
  <2>4. txSet' \in [Nodes -> SUBSET Bits]
    BY <1>u, <1>c, <1>d, <1>e, <1>f DEF TypeOK
  <2>5. air' \subseteq Frames
    BY <1>u, <1>c, <1>d, <1>e, <1>f DEF TypeOK
  <2> QED
    BY <1>u, <2>1, <2>2, <2>3, <2>4, <2>5 DEF TypeOK
<1>2. /\ UpdateAtomic' /\ SensorsUpdateOnce' /\ PacketsCounted' /\
         PendingFinished'
      /\ ~Garbles => ImageIntegrity'
  BY <1>u, Framed
<1>3. GatewayLeads'
  BY <1>u, <1>c, <1>d, <1>e, <1>f DEF GatewayLeads, TypeOK
<1>4. UniformProfiles'
  BY <1>u, <1>c, <1>d, <1>e, <1>f DEF UniformProfiles
<1>5. RequestsMissing'
  BY <1>u, <1>c, <1>d, <1>e, <1>f DEF RequestsMissing, TypeOK
<1>6. UsefulRequests'
  BY <1>u, <1>c, <1>d, <1>e, <1>f DEF UsefulRequests
<1>7. ServesWhole'
  BY <1>u, <1>c, <1>d, <1>e, <1>f DEF ServesWhole, TypeOK
<1>8. NoStuckState'
  <2>1. CASE txPage[n] >= 0 /\ txSet[n] # {}
    BY <1>c, <1>d, <2>1 DEF NoStuckState, TypeOK
  <2>2. CASE ~(txPage[n] >= 0 /\ txSet[n] # {})
    BY <1>c, <1>d, <2>2 DEF NoStuckState, TypeOK
  <2> QED
    BY <2>1, <2>2
<1>9. ~Garbles => TrueLabels'
  <2> SUFFICES ASSUME ~Garbles, TrueLabels, ImageIntegrity
               PROVE  TrueLabels'
    OBVIOUS
  <2>1. ASSUME NEW f \in air' \ air
        PROVE  f.msg.data \in Copies(f.msg.version, f.msg.pagenum, f.msg.num)
    <3>1. txPage[n] \in Pages
      BY <1>e, SizesAssumption DEF TypeOK, Pages
    <3>2. complete[n] = Pages
      BY <1>e DEF ServesWhole, UpdateAtomic
    <3>3. PICK k \in Packets : f.msg = PacketOf(n, txPage[n], k)
      BY <1>e
    <3>4. flash[n][txPage[n]][k] \in Copies(pageVersion[n][txPage[n]], txPage[n], k)
      BY <3>1, <3>2 DEF ImageIntegrity
    <3> QED
      BY <3>3, <3>4 DEF PacketOf
  <2> QED
    BY <1>u, <2>1 DEF TrueLabels
<1> QED
  BY <1>1, <1>2, <1>3, <1>4, <1>5, <1>6, <1>7, <1>8, <1>9

(* A frame has the fields of its command.                                  *)
LEMMA FrameKinds ==
  ASSUME TypeOK, NEW f \in air
  PROVE  /\ f.from \in Nodes /\ f.to \in Nodes
         /\ f.msg.cmd = "summary" => f.msg \in SummaryMsg
         /\ f.msg.cmd = "request" => f.msg \in RequestMsg
         /\ f.msg.cmd = "packet"  => f.msg \in PacketMsg
         /\ f.msg.cmd = "profile" => f.msg \in ProfileMsg
<1>1. f \in Frames
  BY DEF TypeOK
<1>2. f.from \in Nodes /\ f.to \in Nodes /\ f.msg \in Messages
  BY <1>1 DEF Frames
<1> QED
  BY <1>2 DEF Messages, SummaryMsg, RequestMsg, PacketMsg, ProfileMsg

(* A summary that asks for nothing touches timers and counters only.       *)
LEMMA RecvSummaryStep ==
  ASSUME IndInv, NEW n \in Nodes, NEW f \in air, RecvSummary(n, f)
  PROVE  IndInv'
<1> USE DEF IndInv
<1>u. UNCHANGED <<version, updateVersion, pageVersion, complete, packetSet,
                   rxPage, buffer, flash, updateState, state, txPage, txSet>>
  BY DEF RecvSummary, imageVars, fileVars, fsmVars, txVars, advVars, gwVars
<1>c. air' \subseteq air
  BY DEF RecvSummary
<1>d. PICK S \in SUBSET {"summary"} : timers' = [timers EXCEPT ![n] = @ \cup S]
  <2>1. CASE Answers(n, f.msg)
    BY <2>1 DEF RecvSummary
  <2>2. CASE ~Answers(n, f.msg)
    <3>1. timers' = [timers EXCEPT ![n] = @ \cup {}]
      BY <2>2 DEF RecvSummary, TypeOK
    <3> QED
      BY <3>1
  <2> QED
    BY <2>1, <2>2
<1>e. summaryFrom' \in [Nodes -> Nodes \cup {NoNode}]
  BY FrameKinds DEF RecvSummary, TypeOK
<1>g. /\ told' \subseteq Nodes /\ events' \in 0..MaxEvents
      /\ UNCHANGED reported
  BY FrameKinds, BoundsAssumption DEF RecvSummary, PostEvent, TypeOK
<1>h. recvAdv' \in [Nodes -> 0..CONST_K] /\ bcastProfile' \in [Nodes -> BOOLEAN]
  BY DEF RecvSummary, NoteSummary, TypeOK, CONST_K
<1>1. TypeOK'
  <2>1. timers' \in [Nodes -> SUBSET Timers]
    BY <1>u, <1>c, <1>d, <1>e DEF TypeOK, Timers
  <2>2. recvAdv' \in [Nodes -> 0..CONST_K]
    BY <1>u, <1>c, <1>d, <1>e, <1>h DEF TypeOK
  <2>3. bcastProfile' \in [Nodes -> BOOLEAN]
    BY <1>u, <1>c, <1>d, <1>e, <1>h DEF TypeOK
  <2>4. summaryFrom' \in [Nodes -> Nodes \cup {NoNode}]
    BY <1>u, <1>c, <1>d, <1>e DEF TypeOK
  <2>5. air' \subseteq Frames
    BY <1>u, <1>c, <1>d, <1>e DEF TypeOK
  <2>6. events' \in 0..MaxEvents
    BY <1>u, <1>c, <1>d, <1>e, <1>g DEF TypeOK
  <2>7. told' \subseteq Nodes
    BY <1>u, <1>c, <1>d, <1>e, <1>g DEF TypeOK
  <2>8. reported' \subseteq Nodes \cup {NoNode}
    BY <1>u, <1>c, <1>d, <1>e, <1>g DEF TypeOK
  <2> QED
    BY <1>u, <2>1, <2>2, <2>3, <2>4, <2>5, <2>6, <2>7, <2>8 DEF TypeOK
<1>2. /\ UpdateAtomic' /\ SensorsUpdateOnce' /\ PacketsCounted' /\
         ServesWhole' /\ PendingFinished'
      /\ ~Garbles => ImageIntegrity'
  BY <1>u, Framed
<1>3. GatewayLeads'
  BY <1>u, <1>c, <1>d, <1>e DEF GatewayLeads, TypeOK
<1>4. UniformProfiles'
  BY <1>u, <1>c, <1>d, <1>e DEF UniformProfiles
<1>5. RequestsMissing'
  BY <1>u, <1>c, <1>d, <1>e DEF RequestsMissing, TypeOK
<1>6. UsefulRequests'
  BY <1>u, <1>c, <1>d, <1>e DEF UsefulRequests
<1>7. NoStuckState'
  BY <1>u, <1>c, <1>d, <1>e DEF NoStuckState, TypeOK
<1>8. ~Garbles => TrueLabels'
  BY <1>u, <1>c, <1>d, <1>e DEF TrueLabels
<1> QED
  BY <1>1, <1>2, <1>3, <1>4, <1>5, <1>6, <1>7, <1>8

(* A summary that is followed by a request is newer than the node's own    *)
(* pages, so the node is in an update.                                     *)
LEMMA RecvSummaryWantedStep ==
  ASSUME IndInv, NEW n \in Nodes, NEW f \in air, RecvSummaryWanted(n, f)
  PROVE  IndInv'
<1> USE DEF IndInv
<1>u. UNCHANGED <<version, updateVersion, pageVersion, complete, packetSet,
                   rxPage, buffer, flash, updateState, txPage, txSet>>
  BY DEF RecvSummaryWanted, imageVars, fileVars, fsmVars, txVars, advVars, gwVars
<1>c. air' \subseteq air
  BY DEF RecvSummaryWanted
<1>d. /\ state' = [state EXCEPT ![n] = "rx"]
      /\ timers' = [timers EXCEPT ![n] = (timers[n] \ Stopped(state[n], "rx")) \cup {"rx"}]
  BY DEF RecvSummaryWanted, Transition
<1>e. summaryFrom' \in [Nodes -> Nodes \cup {NoNode}]
  BY FrameKinds DEF RecvSummaryWanted, TypeOK
<1>f. version[n] # updateVersion[n]
  BY AvailablePages, SizesAssumption DEF RecvSummaryWanted, Wanted
<1>g. /\ told' \subseteq Nodes /\ events' \in 0..MaxEvents
      /\ UNCHANGED reported
  BY FrameKinds, BoundsAssumption DEF RecvSummaryWanted, PostEvent, TypeOK
<1>h. recvAdv' \in [Nodes -> 0..CONST_K] /\ bcastProfile' \in [Nodes -> BOOLEAN]
  BY DEF RecvSummaryWanted, NoteSummary, TypeOK, CONST_K
<1>1. TypeOK'
  <2>1. state' \in [Nodes -> States]
    BY <1>u, <1>c, <1>d, <1>e, <1>f DEF TypeOK, States
  <2>2. timers' \in [Nodes -> SUBSET Timers]
    BY <1>u, <1>c, <1>d, <1>e, <1>f DEF TypeOK, Timers
  <2>3. recvAdv' \in [Nodes -> 0..CONST_K]
    BY <1>u, <1>c, <1>d, <1>e, <1>f, <1>h DEF TypeOK
  <2>4. bcastProfile' \in [Nodes -> BOOLEAN]
    BY <1>u, <1>c, <1>d, <1>e, <1>f, <1>h DEF TypeOK
  <2>5. summaryFrom' \in [Nodes -> Nodes \cup {NoNode}]
    BY <1>u, <1>c, <1>d, <1>e, <1>f DEF TypeOK
  <2>6. air' \subseteq Frames
    BY <1>u, <1>c, <1>d, <1>e, <1>f DEF TypeOK
  <2>7. events' \in 0..MaxEvents
    BY <1>u, <1>c, <1>d, <1>e, <1>f, <1>g DEF TypeOK
  <2>8. told' \subseteq Nodes
    BY <1>u, <1>c, <1>d, <1>e, <1>f, <1>g DEF TypeOK
  <2>9. reported' \subseteq Nodes \cup {NoNode}
    BY <1>u, <1>c, <1>d, <1>e, <1>f, <1>g DEF TypeOK
  <2> QED
    BY <1>u, <2>1, <2>2, <2>3, <2>4, <2>5, <2>6, <2>7, <2>8, <2>9 DEF TypeOK
<1>2. /\ UpdateAtomic' /\ SensorsUpdateOnce' /\ PacketsCounted' /\
         ServesWhole' /\ PendingFinished'
      /\ ~Garbles => ImageIntegrity'
  BY <1>u, Framed
<1>3. GatewayLeads'
  BY <1>u, <1>c, <1>d, <1>e, <1>f DEF GatewayLeads, TypeOK
<1>4. UniformProfiles'
  BY <1>u, <1>c, <1>d, <1>e, <1>f DEF UniformProfiles
<1>5. RequestsMissing'
  BY <1>u, <1>c, <1>d, <1>e, <1>f DEF RequestsMissing, TypeOK
<1>6. UsefulRequests'
  BY <1>u, <1>c, <1>d, <1>e, <1>f DEF UsefulRequests
<1>7. NoStuckState'
  BY <1>u, <1>c, <1>d, <1>e, <1>f DEF NoStuckState, TypeOK
<1>8. ~Garbles => TrueLabels'
  BY <1>u, <1>c, <1>d, <1>e, <1>f DEF TrueLabels
<1> QED
  BY <1>1, <1>2, <1>3, <1>4, <1>5, <1>6, <1>7, <1>8

(* A request that is served has a version above 0 and a page below NPages; *)
(* at a sensor the version it runs is then 1, the last one it is ever      *)
(* after.                                                                  *)
LEMMA RecvRequestStep ==
  ASSUME IndInv, NEW n \in Nodes, NEW f \in air, RecvRequest(n, f)
  PROVE  IndInv'
<1> USE DEF IndInv
<1>u. UNCHANGED <<version, updateVersion, pageVersion, complete, packetSet,
                   rxPage, buffer, flash, updateState, recvAdv, bcastProfile,
                   summaryFrom, events, told, reported>>
  BY DEF RecvRequest, imageVars, fileVars, fsmVars, txVars, advVars, gwVars
<1> DEFINE m == f.msg
<1>c. /\ air' \subseteq air
      /\ m \in RequestMsg
  BY FrameKinds DEF RecvRequest, Hears
<1>d. CASE ~Serves(n, m)
  BY <1>c, <1>d, <1>u, AirShrinksStep DEF RecvRequest, fsmVars, txVars
<1>e. SUFFICES ASSUME Serves(n, m)
               PROVE  IndInv'
  BY <1>d
<1>f. /\ state' = [state EXCEPT ![n] = "tx"]
      /\ timers' = [timers EXCEPT ![n] = (timers[n] \ Stopped(state[n], "tx")) \cup {"tx"}]
      /\ txPage' = [txPage EXCEPT ![n] = m.pagenum]
      /\ m.pagenum \in Pages /\ m.version = version[n]
  BY <1>e DEF RecvRequest, Transition, Serves
<1>g. PICK S \in SUBSET Bits : txSet' = [txSet EXCEPT ![n] = S] /\ m.set \subseteq S
  BY <1>c, <1>e DEF RecvRequest, RequestMsg, TypeOK
<1>h. m.set # {} /\ m.version > 0
  BY <1>f, SizesAssumption DEF UsefulRequests, RecvRequest, Hears, Pages
<1>i. version[n] = updateVersion[n]
  <2>1. CASE n = Gateway
    BY <2>1 DEF GatewayLeads
  <2>2. CASE n \in Sensors
    BY <1>f, <1>h, <2>2 DEF SensorsUpdateOnce, UpdateAtomic, TypeOK, Versions
  <2> QED
    BY <2>1, <2>2 DEF Nodes
<1>1. TypeOK'
  <2>1. state' \in [Nodes -> States]
    BY <1>u, <1>c, <1>f, <1>g, <1>h, <1>i DEF TypeOK, States
  <2>2. timers' \in [Nodes -> SUBSET Timers]
    BY <1>u, <1>c, <1>f, <1>g, <1>h, <1>i DEF TypeOK, Timers
  <2>3. txPage' \in [Nodes -> Pages \cup {-1}]
    BY <1>u, <1>c, <1>f, <1>g, <1>h, <1>i DEF TypeOK
  <2>4. txSet' \in [Nodes -> SUBSET Bits]
    BY <1>u, <1>c, <1>f, <1>g, <1>h, <1>i DEF TypeOK
  <2>5. air' \subseteq Frames
    BY <1>u, <1>c, <1>f, <1>g, <1>h, <1>i DEF TypeOK
  <2> QED
    BY <1>u, <2>1, <2>2, <2>3, <2>4, <2>5 DEF TypeOK
<1>2. /\ UpdateAtomic' /\ SensorsUpdateOnce' /\ PacketsCounted' /\
         PendingFinished'
      /\ ~Garbles => ImageIntegrity'
  BY <1>u, Framed
<1>3. GatewayLeads'
  BY <1>u, <1>c, <1>f, <1>g, <1>h, <1>i DEF GatewayLeads, TypeOK
<1>4. UniformProfiles'
  BY <1>u, <1>c, <1>f, <1>g, <1>h, <1>i DEF UniformProfiles
<1>5. RequestsMissing'
  BY <1>u, <1>c, <1>f, <1>g, <1>h, <1>i DEF RequestsMissing, TypeOK
<1>6. UsefulRequests'
  BY <1>u, <1>c, <1>f, <1>g, <1>h, <1>i DEF UsefulRequests
<1>7. ServesWhole'
  BY <1>u, <1>c, <1>f, <1>g, <1>h, <1>i DEF ServesWhole, TypeOK
<1>8. NoStuckState'
  BY <1>u, <1>c, <1>f, <1>g, <1>h, <1>i, SizesAssumption DEF NoStuckState, TypeOK, Pages
<1>9. ~Garbles => TrueLabels'
  BY <1>u, <1>c, <1>f, <1>g, <1>h, <1>i DEF TrueLabels
<1> QED
  BY <1>1, <1>2, <1>3, <1>4, <1>5, <1>6, <1>7, <1>8, <1>9

(* A packet that is not for the expected page is dropped.                  *)
LEMMA IgnorePacketStep ==
  ASSUME IndInv, NEW n \in Nodes, NEW f \in air, IgnorePacket(n, f)
  PROVE  IndInv'
BY AirShrinksStep DEF IgnorePacket, imageVars, fileVars, fsmVars, txVars, advVars, gwVars

(* gateway_process touches nothing of the protocol.                        *)
LEMMA ReportStep ==
  ASSUME IndInv, GatewayReport
  PROVE  IndInv'
<1> USE DEF IndInv
<1>u. UNCHANGED <<version, updateVersion, pageVersion, complete, packetSet,
                   rxPage, buffer, flash, updateState, state, timers, txPage,
                   txSet, recvAdv, bcastProfile, summaryFrom, air, told>>
  BY DEF GatewayReport, imageVars, fileVars, fsmVars, txVars, advVars, gwVars
<1>1. TypeOK'
  <2>1. events' \in 0..MaxEvents
    BY <1>u, BoundsAssumption DEF TypeOK, GatewayReport
  <2>2. reported' \subseteq Nodes \cup {NoNode}
    BY <1>u DEF TypeOK, GatewayReport, Nodes
  <2> QED
    BY <1>u, <2>1, <2>2 DEF TypeOK
<1>2. /\ UpdateAtomic' /\ GatewayLeads' /\ UniformProfiles' /\
         SensorsUpdateOnce' /\ RequestsMissing' /\ PacketsCounted' /\
         UsefulRequests' /\ ServesWhole' /\ NoStuckState' /\
         PendingFinished'
      /\ ~Garbles => TrueLabels' /\ ImageIntegrity'
  BY <1>u, Framed
<1> QED
  BY <1>1, <1>2

(* The load touches nothing of the protocol, and of the file only the      *)
(* addresses.                                                              *)
LEMMA PollStep ==
  ASSUME IndInv, NEW n \in Sensors, PollUpdate(n)
  PROVE  IndInv'
<1> USE DEF IndInv
<1>u. UNCHANGED <<version, updateVersion, pageVersion, complete, packetSet,
                   rxPage, buffer, state, timers, txPage, txSet,
                   recvAdv, bcastProfile, summaryFrom, air, events, told,
                   reported>>
  BY DEF PollUpdate, imageVars, fsmVars, txVars, advVars, gwVars
<1>f. /\ updateState' = [updateState EXCEPT ![n] = FALSE]
      /\ flash' \in [Nodes -> [Pages -> [Packets -> Payload]]]
      /\ \A q \in Nodes : \A p \in Pages : \A k \in Packets :
           flash'[q][p][k] \in {flash[q][p][k], Relocated(flash[q][p][k])}
  <2>1. PICK count \in 0..NPages : flash' = [flash EXCEPT ![n] = Linked(flash[n], count)]
    BY DEF PollUpdate
  <2>2. flash \in [Nodes -> [Pages -> [Packets -> Payload]]] /\ n \in Nodes
    BY DEF TypeOK, Nodes
  <2>3. /\ Linked(flash[n], count) \in [Pages -> [Packets -> Payload]]
        /\ \A p \in Pages : \A k \in Packets :
             Linked(flash[n], count)[p][k] \in {flash[n][p][k], Relocated(flash[n][p][k])}
    BY <2>2, LinkedFile
  <2>4. flash'[n] = Linked(flash[n], count) /\ \A q \in Nodes \ {n} : flash'[q] = flash[q]
    BY <2>1, <2>2
  <2>5. flash' \in [Nodes -> [Pages -> [Packets -> Payload]]]
    BY <2>1, <2>2, <2>3
  <2> QED
    BY <2>3, <2>4, <2>5 DEF PollUpdate
<1>1. TypeOK'
  <2>1. updateState' \in [Nodes -> BOOLEAN]
    BY <1>f DEF TypeOK
  <2> QED
    BY <1>u, <1>f, <2>1 DEF TypeOK
<1>2. /\ UpdateAtomic' /\ GatewayLeads' /\ UniformProfiles' /\
         SensorsUpdateOnce' /\ RequestsMissing' /\ PacketsCounted' /\
         UsefulRequests' /\ ServesWhole' /\ NoStuckState'
      /\ ~Garbles => TrueLabels'
  BY <1>u, Framed
<1>3. PendingFinished'
  BY <1>u, <1>f DEF PendingFinished, TypeOK
<1>4. ~Garbles => ImageIntegrity'
  <2> SUFFICES ASSUME ~Garbles, ImageIntegrity,
                      NEW q \in Nodes, NEW p \in complete[q], NEW k \in Packets
               PROVE  flash'[q][p][k] \in Copies(pageVersion[q][p], p, k)
    BY <1>u DEF ImageIntegrity
  <2>1. p \in Pages /\ pageVersion[q][p] \in Versions
    BY DEF TypeOK
  <2>2. flash[q][p][k] \in Copies(pageVersion[q][p], p, k)
    BY DEF ImageIntegrity
  <2> QED
    BY <1>f, <2>1, <2>2, CopiesOfPacket
<1> QED
  BY <1>1, <1>2, <1>3, <1>4

(* A damaged packet reaches a buffer only where Garbles allows it.         *)
LEMMA GarbledPacketStep ==
  ASSUME IndInv, NEW n \in Nodes, NEW f \in air, GarbledPacket(n, f)
  PROVE  IndInv'
<1> USE DEF IndInv
<1>u. UNCHANGED <<version, updateVersion, pageVersion, complete, packetSet,
                   rxPage, flash, updateState, state, timers, txPage, txSet,
                   recvAdv, bcastProfile, summaryFrom, events, told, reported>>
  BY DEF GarbledPacket, imageVars, fileVars, fsmVars, txVars, advVars, gwVars
<1>c. air' \subseteq air /\ Garbles
  BY DEF GarbledPacket
<1>d. buffer' \in [Nodes -> [Packets -> Payload]]
  <2>1. Garbage \in Payload
    BY DEF Payload
  <2>2. f.msg.num \in Packets
    BY FrameKinds DEF GarbledPacket, Hears, PacketMsg
  <2> QED
    BY <2>1, <2>2 DEF GarbledPacket, TypeOK
<1>1. TypeOK'
  <2>1. buffer' \in [Nodes -> [Packets -> Payload]]
    BY <1>u, <1>c, <1>d DEF TypeOK
  <2>2. air' \subseteq Frames
    BY <1>u, <1>c, <1>d DEF TypeOK
  <2> QED
    BY <1>u, <2>1, <2>2 DEF TypeOK
<1>2. /\ UpdateAtomic' /\ GatewayLeads' /\ SensorsUpdateOnce' /\
         RequestsMissing' /\ PacketsCounted' /\ ServesWhole' /\
         NoStuckState' /\ PendingFinished'
      /\ ~Garbles => ImageIntegrity'
  BY <1>u, Framed
<1>3. UniformProfiles'
  BY <1>u, <1>c, <1>d DEF UniformProfiles
<1>4. UsefulRequests'
  BY <1>u, <1>c, <1>d DEF UsefulRequests
<1>5. ~Garbles => TrueLabels'
  BY <1>u, <1>c, <1>d DEF TrueLabels
<1> QED
  BY <1>1, <1>2, <1>3, <1>4, <1>5

(* A packet that leaves its page incomplete adds itself to the set and its *)
(* payload to the buffer, which hold the same packets before and after.    *)
LEMMA StorePacketStep ==
  ASSUME IndInv, NEW n \in Nodes, NEW f \in air, StorePacket(n, f)
  PROVE  IndInv'
<1> USE DEF IndInv
<1>u. UNCHANGED <<version, updateVersion, pageVersion, complete, rxPage,
                   flash, updateState, state, timers, txPage, txSet, recvAdv,
                   bcastProfile, summaryFrom, events, told, reported>>
  BY DEF StorePacket, imageVars, fileVars, fsmVars, txVars, advVars, gwVars
<1> DEFINE m == f.msg
           p == m.pagenum
<1>c. /\ air' \subseteq air /\ f.msg.cmd = "packet" /\ Takes(n, m)
  BY DEF StorePacket, Hears
<1>d. /\ p \in Pages /\ m.num \in Packets /\ m.data \in Payload /\ m.version \in Versions
  BY <1>c, FrameKinds DEF PacketMsg
<1>e. /\ p = rxPage[n] /\ p \notin complete[n] /\ m.version = pageVersion[n][p]
  BY <1>c DEF Takes
<1>f. /\ version[n] # updateVersion[n] /\ version[n] < updateVersion[n]
      /\ m.version = updateVersion[n]
      /\ complete[n] = 0..p-1
  BY <1>d, <1>e DEF UpdateAtomic
<1> HIDE DEF m, p
<1>g. /\ buffer' = [buffer EXCEPT ![n] = [buffer[n] EXCEPT ![m.num] = m.data]]
      /\ packetSet' = [packetSet EXCEPT ![n][p] = packetSet[n][p] \cup {m.num}]
      /\ packetSet[n][p] \cup {m.num} # Packets
  BY DEF StorePacket, Buffered, Filled, m, p
<1>1. TypeOK'
  <2>1. packetSet' \in [Nodes -> [Pages -> SUBSET Packets]]
    BY <1>u, <1>c, <1>d, <1>e, <1>g DEF TypeOK
  <2>2. buffer' \in [Nodes -> [Packets -> Payload]]
    BY <1>u, <1>c, <1>d, <1>e, <1>g DEF TypeOK
  <2>3. air' \subseteq Frames
    BY <1>u, <1>c, <1>d, <1>e, <1>g DEF TypeOK
  <2> QED
    BY <1>u, <2>1, <2>2, <2>3 DEF TypeOK
<1>2. /\ UpdateAtomic' /\ GatewayLeads' /\ SensorsUpdateOnce' /\
         RequestsMissing' /\ ServesWhole' /\ NoStuckState' /\
         PendingFinished'
      /\ ~Garbles => ImageIntegrity'
  BY <1>u, Framed
<1>3. UniformProfiles'
  BY <1>u, <1>c, <1>d, <1>e, <1>g DEF UniformProfiles
<1>4. PacketsCounted'
  <2>1. ASSUME NEW q \in Nodes, NEW r \in Pages
        PROVE  /\ r \in complete[q] <=> packetSet'[q][r] = Packets
               /\ r > rxPage[q] /\ r \notin complete[q] => packetSet'[q][r] = {}
    BY <1>d, <1>e, <1>g, SizesAssumption DEF PacketsCounted, TypeOK, Pages
  <2> QED
    BY <1>u, <2>1 DEF PacketsCounted
<1>5. UsefulRequests'
  BY <1>u, <1>c, <1>d, <1>e, <1>g DEF UsefulRequests
<1>6. ~Garbles => TrueLabels'
  <2> SUFFICES ASSUME ~Garbles, TrueLabels
               PROVE  TrueLabels'
    OBVIOUS
  <2>1. m.data \in Copies(updateVersion[n], rxPage[n], m.num)
    BY <1>c, <1>e, <1>f DEF TrueLabels, m, p
  <2>2. ASSUME NEW q \in Nodes, version[q] # updateVersion[q], NEW k \in packetSet'[q][rxPage[q]]
        PROVE  buffer'[q][k] \in Copies(updateVersion[q], rxPage[q], k)
    <3>1. CASE q = n
      <4>1. packetSet'[n][p] = packetSet[n][p] \cup {m.num} /\ k \in Packets
        BY <1>d, <1>e, <1>g, <2>2, <3>1 DEF TypeOK
      <4>2. CASE k = m.num
        BY <1>d, <1>g, <2>1, <3>1, <4>2 DEF TypeOK
      <4>3. CASE k # m.num
        <5>1. k \in packetSet[n][rxPage[n]]
          BY <1>e, <2>2, <3>1, <4>1, <4>3
        <5>2. buffer[n][k] \in Copies(updateVersion[n], rxPage[n], k)
          BY <1>f, <5>1 DEF TrueLabels
        <5> QED
          BY <1>d, <1>g, <3>1, <4>1, <4>3, <5>2 DEF TypeOK
      <4> QED
        BY <4>2, <4>3
    <3>2. CASE q # n
      BY <1>g, <2>2, <3>2 DEF TrueLabels, TypeOK
    <3> QED
      BY <3>1, <3>2
  <2> QED
    BY <1>u, <1>c, <2>2 DEF TrueLabels
<1> QED
  BY <1>1, <1>2, <1>3, <1>4, <1>5, <1>6

(* The packet that completes a page: the buffer is that page of the image, *)
(* and it goes to the flash; with the last page the node has all of them.  *)
LEMMA CompletePageStep ==
  ASSUME IndInv, NEW n \in Nodes, NEW f \in air, CompletePage(n, f)
  PROVE  IndInv'
<1> USE DEF IndInv
<1>u. UNCHANGED <<updateVersion, pageVersion, txPage, txSet, recvAdv,
                   bcastProfile, summaryFrom, events, told, reported>>
  BY DEF CompletePage, imageVars, fileVars, fsmVars, txVars, advVars, gwVars
<1> DEFINE m == f.msg
           p == m.pagenum
<1>c. /\ f.msg.cmd = "packet" /\ Takes(n, m)
  <2>1. Hears(n, f, "packet") /\ Takes(n, f.msg)
    BY DEF CompletePage
  <2> QED
    BY <2>1 DEF Hears
<1>d. /\ p \in Pages /\ m.num \in Packets /\ m.data \in Payload /\ m.version \in Versions
  BY <1>c, FrameKinds DEF PacketMsg
<1>e. /\ p = rxPage[n] /\ p \notin complete[n] /\ m.version = pageVersion[n][p]
  BY <1>c DEF Takes
<1>f. /\ version[n] # updateVersion[n] /\ version[n] < updateVersion[n]
      /\ m.version = updateVersion[n]
      /\ complete[n] = 0..p-1
  BY <1>d, <1>e DEF UpdateAtomic
<1> HIDE DEF m, p
<1>g. /\ buffer' = [buffer EXCEPT ![n] = [buffer[n] EXCEPT ![m.num] = m.data]]
      /\ packetSet' = [packetSet EXCEPT ![n][p] = Packets]
      /\ packetSet[n][p] \cup {m.num} = Packets
      /\ flash' = [flash EXCEPT ![n][p] = [buffer[n] EXCEPT ![m.num] = m.data]]
      /\ rxPage' = [rxPage EXCEPT ![n] = p + 1]
      /\ updateState' = [updateState EXCEPT ![n] = @ \/ p = NPages - 1]
      /\ version' = [version EXCEPT ![n] = IF p = NPages - 1 THEN updateVersion[n] ELSE @]
  BY DEF CompletePage, Buffered, Filled, m, p
<1>h. /\ complete' = [complete EXCEPT ![n] = 0..p]
      /\ FirstMissing(complete[n] \cup {p}) \in 0..NPages
  <2>1. (0..p-1) \cup {p} = 0..p /\ 0..p = 0..(p+1)-1 /\ p + 1 \in 0..NPages
    BY <1>d, SizesAssumption DEF Pages
  <2> QED
    BY <1>f, <2>1, FirstMissingPrefix DEF CompletePage, m, p
<1>i. /\ state' = [state EXCEPT ![n] = "maintain"]
      /\ timers' \in [Nodes -> SUBSET Timers]
      /\ \A q \in Nodes : /\ q # n => timers'[q] = timers[q]
                          /\ timers'[n] \subseteq timers[n] \cup {"rx"}
  BY DEF CompletePage, Transition, TypeOK, Timers
<1>j. /\ air' \subseteq air \cup Frames
      /\ \A g \in air' \ air : g.msg.cmd = "summary"
  BY <1>h, AdvertisementFrames DEF CompletePage, m, p
<1>k. n # Gateway
  BY <1>f DEF GatewayLeads
<1>1. TypeOK'
  <2>1. version' \in [Nodes -> Versions]
    BY <1>u, <1>c, <1>d, <1>e, <1>f, <1>g, <1>h, <1>i, <1>j, <1>k DEF TypeOK
  <2>2. complete' \in [Nodes -> SUBSET Pages]
    BY <1>u, <1>c, <1>d, <1>e, <1>f, <1>g, <1>h, <1>i, <1>j, <1>k, SizesAssumption DEF
       TypeOK, Pages
  <2>3. packetSet' \in [Nodes -> [Pages -> SUBSET Packets]]
    BY <1>u, <1>c, <1>d, <1>e, <1>f, <1>g, <1>h, <1>i, <1>j, <1>k DEF TypeOK
  <2>4. rxPage' \in [Nodes -> 0..NPages]
    BY <1>u, <1>c, <1>d, <1>e, <1>f, <1>g, <1>h, <1>i, <1>j, <1>k, SizesAssumption DEF
       TypeOK, Pages
  <2>5. buffer' \in [Nodes -> [Packets -> Payload]]
    BY <1>u, <1>c, <1>d, <1>e, <1>f, <1>g, <1>h, <1>i, <1>j, <1>k DEF TypeOK
  <2>6. flash' \in [Nodes -> [Pages -> [Packets -> Payload]]]
    BY <1>u, <1>c, <1>d, <1>e, <1>f, <1>g, <1>h, <1>i, <1>j, <1>k DEF TypeOK
  <2>7. updateState' \in [Nodes -> BOOLEAN]
    BY <1>u, <1>c, <1>d, <1>e, <1>f, <1>g, <1>h, <1>i, <1>j, <1>k DEF TypeOK
  <2>8. state' \in [Nodes -> States]
    BY <1>u, <1>c, <1>d, <1>e, <1>f, <1>g, <1>h, <1>i, <1>j, <1>k DEF TypeOK, States
  <2>9. timers' \in [Nodes -> SUBSET Timers]
    BY <1>u, <1>c, <1>d, <1>e, <1>f, <1>g, <1>h, <1>i, <1>j, <1>k DEF TypeOK, Timers
  <2>10. air' \subseteq Frames
    BY <1>u, <1>c, <1>d, <1>e, <1>f, <1>g, <1>h, <1>i, <1>j, <1>k DEF TypeOK
  <2> QED
    BY <1>u, <2>1, <2>2, <2>3, <2>4, <2>5, <2>6, <2>7, <2>8, <2>9, <2>10 DEF TypeOK
<1>2. SensorsUpdateOnce'
  BY <1>u, Framed
<1>3. UpdateAtomic'
  <2>1. ASSUME p # NPages - 1
        PROVE  p + 1 < NPages /\ 0..p = 0..(p+1)-1
    BY <1>d, <2>1, SizesAssumption DEF Pages
  <2>2. p = NPages - 1 => 0..p = Pages
    BY DEF Pages
  <2>3. ASSUME NEW q \in Nodes
        PROVE  IF version'[q] = updateVersion[q]
               THEN complete'[q] = Pages /\ pageVersion[q] = [r \in Pages |-> version'[q]]
               ELSE /\ version'[q] < updateVersion[q]
                    /\ pageVersion[q] = [r \in Pages |-> updateVersion[q]]
                    /\ rxPage'[q] < NPages
                    /\ complete'[q] = 0..rxPage'[q]-1
    <3>1. CASE q # n
      BY <1>g, <1>h, <3>1 DEF UpdateAtomic, TypeOK
    <3>2. CASE q = n
      <4>1. pageVersion[n] = [r \in Pages |-> updateVersion[n]]
        BY <1>f DEF UpdateAtomic
      <4>2. complete'[n] = 0..p /\ rxPage'[n] = p + 1
        BY <1>g, <1>h DEF TypeOK
      <4>3. version'[n] = IF p = NPages - 1 THEN updateVersion[n] ELSE version[n]
        BY <1>g DEF TypeOK
      <4>4. CASE p = NPages - 1
        BY <2>2, <3>2, <4>1, <4>2, <4>3, <4>4
      <4>5. CASE p # NPages - 1
        BY <1>f, <2>1, <3>2, <4>1, <4>2, <4>3, <4>5
      <4> QED
        BY <4>4, <4>5
    <3> QED
      BY <3>1, <3>2
  <2> QED
    BY <1>u, <2>3 DEF UpdateAtomic
<1>4. GatewayLeads'
  <2>1. version'[Gateway] = version[Gateway]
    BY <1>g, <1>k DEF TypeOK, Nodes
  <2> QED
    BY <1>u, <1>i, <2>1 DEF GatewayLeads
<1>5. UniformProfiles'
  <2>1. version'[Gateway] = version[Gateway]
    BY <1>g, <1>k DEF TypeOK, Nodes
  <2> QED
    BY <1>j, <2>1 DEF UniformProfiles
<1>6. RequestsMissing'
  <2>1. ASSUME NEW q \in Nodes, "rx" \in timers'[q], rxPage'[q] < NPages
        PROVE  version'[q] # updateVersion[q]
    <3>1. CASE q # n
      BY <1>g, <1>i, <2>1, <3>1 DEF RequestsMissing, TypeOK
    <3>2. CASE q = n
      <4>1. p # NPages - 1
        BY <1>g, <2>1, <3>2, SizesAssumption DEF TypeOK
      <4> QED
        BY <1>f, <1>g, <3>2, <4>1 DEF TypeOK
    <3> QED
      BY <3>1, <3>2
  <2> QED
    BY <1>u, <2>1 DEF RequestsMissing
<1>7. PacketsCounted'
  <2>1. ASSUME NEW q \in Nodes, NEW r \in Pages
        PROVE  /\ r \in complete'[q] <=> packetSet'[q][r] = Packets
               /\ r > rxPage'[q] /\ r \notin complete'[q] => packetSet'[q][r] = {}
    <3>1. CASE q # n
      BY <1>g, <1>h, <3>1 DEF PacketsCounted, TypeOK
    <3>2. CASE q = n
      <4>1. complete'[n] = 0..p /\ rxPage'[n] = p + 1
        BY <1>g, <1>h DEF TypeOK
      <4>2. packetSet'[n] = [packetSet[n] EXCEPT ![p] = Packets]
        BY <1>g DEF TypeOK
      <4>3. CASE r = p
        <5>1. packetSet'[n][p] = Packets
          BY <1>d, <4>2 DEF TypeOK
        <5>2. p \in 0..p /\ ~(p > p + 1)
          BY <1>d DEF Pages
        <5> QED
          BY <3>2, <4>1, <4>3, <5>1, <5>2
      <4>4. CASE r # p
        <5>1. packetSet'[n][r] = packetSet[n][r]
          BY <4>2, <4>4 DEF TypeOK
        <5>2. r \in complete'[n] <=> r \in complete[n]
          BY <1>d, <1>f, <4>1, <4>4, SizesAssumption DEF Pages
        <5>3. r > rxPage'[n] => r > rxPage[n]
          BY <1>d, <1>e, <4>1, SizesAssumption DEF Pages
        <5> QED
          BY <3>2, <5>1, <5>2, <5>3 DEF PacketsCounted
      <4> QED
        BY <4>3, <4>4
    <3> QED
      BY <3>1, <3>2
  <2> QED
    BY <2>1 DEF PacketsCounted
<1>8. UsefulRequests'
  BY <1>j DEF UsefulRequests
<1>9. ServesWhole'
  BY <1>u, <1>f, <1>g DEF ServesWhole, TypeOK
<1>10. NoStuckState'
  BY <1>u, <1>i DEF NoStuckState, TypeOK
<1>11. PendingFinished'
  <2>1. updateVersion[n] > 0
    BY <1>f DEF TypeOK, Versions
  <2>2. ASSUME NEW q \in Nodes, updateState'[q]
        PROVE  version'[q] = updateVersion[q] /\ version'[q] > 0
    BY <1>f, <1>g, <2>1, <2>2 DEF PendingFinished, TypeOK
  <2> QED
    BY <1>u, <2>2 DEF PendingFinished
<1>12. ~Garbles => TrueLabels'
  <2> SUFFICES ASSUME ~Garbles, TrueLabels
               PROVE  TrueLabels'
    OBVIOUS
  <2>1. ASSUME NEW q \in Nodes, version'[q] # updateVersion[q]
        PROVE  \A k \in packetSet'[q][rxPage'[q]] :
                 buffer'[q][k] \in Copies(updateVersion[q], rxPage'[q], k)
    <3>1. CASE q # n
      BY <1>g, <2>1, <3>1 DEF TrueLabels, TypeOK
    <3>2. CASE q = n
      <4>1. p # NPages - 1 /\ rxPage'[n] = p + 1
        BY <1>g, <2>1, <3>2 DEF TypeOK
      <4>2. p + 1 \in Pages /\ p + 1 > rxPage[n] /\ p + 1 \notin complete[n]
        BY <1>d, <1>e, <1>f, <4>1, SizesAssumption DEF Pages
      <4>3. packetSet[n][p + 1] = {}
        BY <4>2 DEF PacketsCounted
      <4>4. p + 1 # p
        BY <1>d, SizesAssumption DEF Pages
      <4>5. packetSet'[n][p + 1] = {}
        BY <1>g, <4>2, <4>3, <4>4 DEF TypeOK
      <4> QED
        BY <3>2, <4>1, <4>5
    <3> QED
      BY <3>1, <3>2
  <2> QED
    BY <1>u, <1>j, <2>1 DEF TrueLabels
<1>13. ~Garbles => ImageIntegrity'
  <2> SUFFICES ASSUME ~Garbles, TrueLabels, ImageIntegrity
               PROVE  ImageIntegrity'
    OBVIOUS
  <2>1. m.data \in Copies(updateVersion[n], p, m.num)
    BY <1>c, <1>f DEF TrueLabels, m, p
  <2>2. \A k \in packetSet[n][p] : buffer[n][k] \in Copies(updateVersion[n], p, k)
    BY <1>e, <1>f DEF TrueLabels
  <2>3. buffer[n] \in [Packets -> Payload]
    BY DEF TypeOK
  <2>4. \A k \in Packets : [buffer[n] EXCEPT ![m.num] = m.data][k] \in Copies(updateVersion[n], p, k)
    BY <1>d, <1>g, <2>1, <2>2, <2>3
  <2>5. pageVersion[n][p] = updateVersion[n]
    BY <1>e, <1>f
  <2>6. ASSUME NEW q \in Nodes, NEW r \in complete'[q]
        PROVE  \A k \in Packets : flash'[q][r][k] \in Copies(pageVersion[q][r], r, k)
    <3>1. CASE q # n
      BY <1>g, <1>h, <2>6, <3>1 DEF ImageIntegrity, TypeOK
    <3>2. CASE q = n /\ r = p
      BY <1>d, <1>g, <2>4, <2>5, <3>2 DEF TypeOK
    <3>3. CASE q = n /\ r # p
      <4>1. r \in complete[n]
        BY <1>d, <1>f, <1>h, <2>6, <3>3, SizesAssumption DEF TypeOK, Pages
      <4>2. flash'[n][r] = flash[n][r]
        BY <1>g, <3>3 DEF TypeOK
      <4> QED
        BY <3>3, <4>1, <4>2 DEF ImageIntegrity
    <3> QED
      BY <3>1, <3>2, <3>3
  <2> QED
    BY <1>u, <2>6 DEF ImageIntegrity
<1> QED
  BY <1>1, <1>2, <1>3, <1>4, <1>5, <1>6, <1>7, <1>8, <1>9, <1>10, <1>11, <1>12, <1>13

(* The arithmetic of command_dispatcher's length check: a profile of       *)
(* version 2 or more is never long enough.                                 *)
LEMMA LongEnoughVersion ==
  ASSUME NEW a \in Nat \ {0}, NEW b \in Nat, a >= a * b
  PROVE  b <= 1
<1>1. ASSUME b >= 2
      PROVE  a * b >= a * 2
  BY <1>1
<1> QED
  BY <1>1

(* A profile that is taken is that of version 1, at a sensor that runs     *)
(* version 0 and is not in an update: all its pages become missing.        *)
LEMMA RecvProfileStep ==
  ASSUME IndInv, NEW n \in Nodes, NEW f \in air, RecvProfile(n, f)
  PROVE  IndInv'
<1> USE DEF IndInv
<1>u. UNCHANGED <<version, buffer, flash, updateState, txPage, recvAdv,
                   bcastProfile, summaryFrom, events, told, reported>>
  BY DEF RecvProfile, imageVars, fileVars, fsmVars, txVars, advVars, gwVars
<1> DEFINE m == f.msg
<1>c. air' \subseteq air /\ m.cmd = "profile"
  BY DEF RecvProfile, Hears
<1>d. CASE ~NewProfile(n, m)
  BY <1>c, <1>d, <1>u, AirShrinksStep DEF RecvProfile, imageVars, fsmVars
<1>e. SUFFICES ASSUME NewProfile(n, m)
               PROVE  IndInv'
  BY <1>d
<1>f. /\ m.version \in Versions /\ m.vector = [p \in Pages |-> m.version]
      /\ m.version <= version[Gateway] /\ m.version > updateVersion[n]
      /\ NPages >= NPages * m.vector[0]
  BY <1>c, <1>e, FrameKinds DEF UniformProfiles, ProfileMsg, NewProfile, LongEnough
<1>g. n \in Sensors /\ n # Gateway
  <2>1. updateVersion[Gateway] = version[Gateway]
    BY DEF GatewayLeads
  <2>2. n # Gateway
    BY <1>f, <2>1 DEF TypeOK, Versions
  <2> QED
    BY <2>2 DEF Nodes
<1>h. m.version = 1 /\ updateVersion[n] = 0
  <2>1. m.vector[0] = m.version
    BY <1>f, SizesAssumption DEF Pages
  <2>2. m.version <= 1
    BY <1>f, <2>1, LongEnoughVersion, SizesAssumption DEF Versions
  <2>3. updateVersion[n] \in Versions
    BY DEF TypeOK
  <2> QED
    BY <1>f, <2>2, <2>3 DEF Versions
<1>i. /\ version[n] = 0 /\ complete[n] = Pages
      /\ pageVersion[n] = [p \in Pages |-> 0]
  BY <1>h DEF UpdateAtomic, TypeOK, Versions
<1>j. Stale(n, m) = Pages
  BY <1>f, <1>h, <1>i DEF Stale
<1>k. complete[n] \ Stale(n, m) = {}
  BY <1>i, <1>j
<1>l. /\ updateVersion' = [updateVersion EXCEPT ![n] = 1]
      /\ complete' = [complete EXCEPT ![n] = {}]
      /\ rxPage' = [rxPage EXCEPT ![n] = 0]
      /\ txSet' = [txSet EXCEPT ![n] = {}]
      /\ state' = [state EXCEPT ![n] = "rx"]
      /\ timers' = [timers EXCEPT ![n] = (timers[n] \ Stopped(state[n], "rx")) \cup {"rx"}]
  BY <1>e, <1>h, <1>k, FirstMissingNone DEF RecvProfile, Transition
<1>m. /\ packetSet' = [packetSet EXCEPT ![n] = [p \in Pages |-> {}]]
      /\ pageVersion' = [pageVersion EXCEPT ![n] = [p \in Pages |-> 1]]
  <2>1. /\ packetSet' = [packetSet EXCEPT ![n] =
             [p \in Pages |-> IF p \in Stale(n, m) THEN {} ELSE @[p]]]
        /\ pageVersion' = [pageVersion EXCEPT ![n] =
             [p \in Pages |-> IF p \in Stale(n, m) THEN m.vector[p] ELSE @[p]]]
    BY <1>e DEF RecvProfile
  <2> QED
    BY <1>f, <1>h, <1>j, <2>1
<1>n. 1 \in Versions /\ 0 \in 0..NPages /\ 0..0-1 = {} /\ 0 < NPages
  BY VersionAssumption, SizesAssumption DEF Versions
<1> HIDE DEF m
<1>1. TypeOK'
  <2>1. updateVersion' \in [Nodes -> Versions]
    BY <1>u, <1>c, <1>l, <1>m, <1>n DEF TypeOK
  <2>2. pageVersion' \in [Nodes -> [Pages -> Versions]]
    BY <1>u, <1>c, <1>l, <1>m, <1>n DEF TypeOK
  <2>3. complete' \in [Nodes -> SUBSET Pages]
    BY <1>u, <1>c, <1>l, <1>m, <1>n DEF TypeOK
  <2>4. packetSet' \in [Nodes -> [Pages -> SUBSET Packets]]
    BY <1>u, <1>c, <1>l, <1>m, <1>n DEF TypeOK
  <2>5. rxPage' \in [Nodes -> 0..NPages]
    BY <1>u, <1>c, <1>l, <1>m, <1>n DEF TypeOK
  <2>6. state' \in [Nodes -> States]
    BY <1>u, <1>c, <1>l, <1>m, <1>n DEF TypeOK, States
  <2>7. timers' \in [Nodes -> SUBSET Timers]
    BY <1>u, <1>c, <1>l, <1>m, <1>n DEF TypeOK, Timers
  <2>8. txSet' \in [Nodes -> SUBSET Bits]
    BY <1>u, <1>c, <1>l, <1>m, <1>n DEF TypeOK
  <2>9. air' \subseteq Frames
    BY <1>u, <1>c, <1>l, <1>m, <1>n DEF TypeOK
  <2> QED
    BY <1>u, <2>1, <2>2, <2>3, <2>4, <2>5, <2>6, <2>7, <2>8, <2>9 DEF TypeOK
<1>2. UpdateAtomic'
  <2>1. ASSUME NEW q \in Nodes
        PROVE  IF version'[q] = updateVersion'[q]
               THEN complete'[q] = Pages /\ pageVersion'[q] = [r \in Pages |-> version'[q]]
               ELSE /\ version'[q] < updateVersion'[q]
                    /\ pageVersion'[q] = [r \in Pages |-> updateVersion'[q]]
                    /\ rxPage'[q] < NPages
                    /\ complete'[q] = 0..rxPage'[q]-1
    <3>1. CASE q # n
      BY <1>u, <1>l, <1>m, <3>1 DEF UpdateAtomic, TypeOK
    <3>2. CASE q = n
      <4>1. /\ updateVersion'[n] = 1 /\ complete'[n] = {} /\ rxPage'[n] = 0
            /\ pageVersion'[n] = [r \in Pages |-> 1]
        BY <1>l, <1>m DEF TypeOK
      <4> QED
        BY <1>u, <1>i, <1>n, <3>2, <4>1
    <3> QED
      BY <3>1, <3>2
  <2> QED
    BY <2>1 DEF UpdateAtomic
<1>3. GatewayLeads'
  <2>1. updateVersion'[Gateway] = updateVersion[Gateway]
    BY <1>l, <1>g DEF TypeOK
  <2>2. updateVersion'[n] <= version[Gateway]
    BY <1>f, <1>h, <1>l DEF TypeOK
  <2> QED
    BY <1>u, <1>l, <2>1, <2>2 DEF GatewayLeads, TypeOK
<1>4. UniformProfiles'
  BY <1>u, <1>c DEF UniformProfiles
<1>5. SensorsUpdateOnce'
  BY <1>l DEF SensorsUpdateOnce, TypeOK, Nodes
<1>6. RequestsMissing'
  BY <1>u, <1>i, <1>l DEF RequestsMissing, TypeOK
<1>7. PacketsCounted'
  <2>1. {} # Packets
    BY SizesAssumption DEF Packets
  <2>2. ASSUME NEW q \in Nodes, NEW r \in Pages
        PROVE  /\ r \in complete'[q] <=> packetSet'[q][r] = Packets
               /\ r > rxPage'[q] /\ r \notin complete'[q] => packetSet'[q][r] = {}
    <3>1. CASE q # n
      BY <1>l, <1>m, <3>1 DEF PacketsCounted, TypeOK
    <3>2. CASE q = n
      BY <1>l, <1>m, <2>1, <3>2 DEF TypeOK
    <3> QED
      BY <3>1, <3>2
  <2> QED
    BY <2>2 DEF PacketsCounted
<1>8. UsefulRequests'
  BY <1>u, <1>c DEF UsefulRequests
<1>9. ServesWhole'
  BY <1>u, <1>l DEF ServesWhole, TypeOK
<1>10. NoStuckState'
  BY <1>u, <1>l DEF NoStuckState, TypeOK
<1>11. PendingFinished'
  BY <1>u, <1>i, <1>l DEF PendingFinished, TypeOK
<1>12. ~Garbles => TrueLabels'
  <2> SUFFICES ASSUME ~Garbles, TrueLabels
               PROVE  TrueLabels'
    OBVIOUS
  <2>1. ASSUME NEW q \in Nodes, version[q] # updateVersion'[q]
        PROVE  \A k \in packetSet'[q][rxPage'[q]] :
                 buffer[q][k] \in Copies(updateVersion'[q], rxPage'[q], k)
    <3>1. CASE q # n
      BY <1>l, <1>m, <2>1, <3>1 DEF TrueLabels, TypeOK
    <3>2. CASE q = n
      <4>1. 0 \in Pages
        BY <1>n, SizesAssumption DEF Pages
      <4>2. packetSet'[n][rxPage'[n]] = {}
        BY <1>l, <1>m, <4>1 DEF TypeOK
      <4> QED
        BY <3>2, <4>2
    <3> QED
      BY <3>1, <3>2
  <2> QED
    BY <1>u, <1>c, <2>1 DEF TrueLabels
<1>13. ~Garbles => ImageIntegrity'
  <2> SUFFICES ASSUME ~Garbles, ImageIntegrity
               PROVE  ImageIntegrity'
    OBVIOUS
  <2>1. ASSUME NEW q \in Nodes, NEW r \in complete'[q]
        PROVE  \A k \in Packets : flash[q][r][k] \in Copies(pageVersion'[q][r], r, k)
    BY <1>l, <1>m, <2>1 DEF ImageIntegrity, TypeOK
  <2> QED
    BY <1>u, <2>1 DEF ImageIntegrity
<1> QED
  BY <1>1, <1>2, <1>3, <1>4, <1>5, <1>6, <1>7, <1>8, <1>9, <1>10, <1>11, <1>12, <1>13

(* A node that starts afresh in version v holds that whole image and       *)
(* nothing else; frames it had sent are gone.                              *)
LEMMA RestartStep ==
  ASSUME IndInv, NEW n \in Nodes, NEW v \in Versions, Restart(n, v),
         IF n = Gateway THEN v >= version[Gateway] ELSE v = 0,
         events' \in 0..MaxEvents, told' \subseteq Nodes, reported' \subseteq Nodes \cup {NoNode}
  PROVE  IndInv'
<1> USE DEF IndInv
<1>a. /\ IF n = Gateway THEN v >= version[Gateway] ELSE v = 0
      /\ events' \in 0..MaxEvents /\ told' \subseteq Nodes /\ reported' \subseteq Nodes \cup {NoNode}
  OBVIOUS
<1>c. /\ version' = [version EXCEPT ![n] = v]
      /\ updateVersion' = [updateVersion EXCEPT ![n] = v]
      /\ pageVersion' = [pageVersion EXCEPT ![n] = [p \in Pages |-> v]]
      /\ complete' = [complete EXCEPT ![n] = Pages]
      /\ packetSet' = [packetSet EXCEPT ![n] = [p \in Pages |-> Packets]]
      /\ rxPage' = [rxPage EXCEPT ![n] = 0]
  BY DEF Restart
<1>d. /\ buffer' = [buffer EXCEPT ![n] = [k \in Packets |-> Original(0, 0, k)]]
      /\ flash' = [flash EXCEPT ![n] = ImageFile(v)]
      /\ updateState' = [updateState EXCEPT ![n] = FALSE]
      /\ state' = [state EXCEPT ![n] = "maintain"]
      /\ timers' = [timers EXCEPT ![n] = {}]
      /\ txPage' = [txPage EXCEPT ![n] = 0]
      /\ txSet' = [txSet EXCEPT ![n] = {}]
  BY DEF Restart
<1>e. /\ recvAdv' = [recvAdv EXCEPT ![n] = 0]
      /\ bcastProfile' = [bcastProfile EXCEPT ![n] = FALSE]
      /\ summaryFrom' = [summaryFrom EXCEPT ![n] = NoNode]
      /\ air' \subseteq air
  BY DEF Restart
<1>f. 0 \in Pages /\ 0 \in 0..NPages /\ 0 \in Versions
  BY SizesAssumption, VersionAssumption DEF Pages, Versions
<1>g. [k \in Packets |-> Original(0, 0, k)] \in [Packets -> Payload]
  BY <1>f, CopiesOfPacket
<1>h. /\ Gateway \in Nodes /\ version[Gateway] <= version'[Gateway]
      /\ v <= version'[Gateway]
  <2>1. version[Gateway] \in Versions /\ Gateway \in Nodes
    BY DEF TypeOK, Nodes
  <2> QED
    BY <1>a, <1>c, <2>1, NodesAssumption DEF TypeOK, Versions
<1>1. TypeOK'
  <2>1. version' \in [Nodes -> Versions]
    BY <1>c, <1>d, <1>e DEF TypeOK
  <2>2. updateVersion' \in [Nodes -> Versions]
    BY <1>c, <1>d, <1>e DEF TypeOK
  <2>3. pageVersion' \in [Nodes -> [Pages -> Versions]]
    BY <1>c, <1>d, <1>e DEF TypeOK
  <2>4. complete' \in [Nodes -> SUBSET Pages]
    BY <1>c, <1>d, <1>e DEF TypeOK
  <2>5. packetSet' \in [Nodes -> [Pages -> SUBSET Packets]]
    BY <1>c, <1>d, <1>e DEF TypeOK
  <2>6. rxPage' \in [Nodes -> 0..NPages]
    BY <1>c, <1>d, <1>e, <1>f DEF TypeOK
  <2>7. buffer' \in [Nodes -> [Packets -> Payload]]
    BY <1>c, <1>d, <1>e, <1>g DEF TypeOK
  <2>8. flash' \in [Nodes -> [Pages -> [Packets -> Payload]]]
    BY <1>c, <1>d, <1>e, ImageFileType DEF TypeOK
  <2>9. updateState' \in [Nodes -> BOOLEAN]
    BY <1>c, <1>d, <1>e DEF TypeOK
  <2>10. state' \in [Nodes -> States]
    BY <1>c, <1>d, <1>e DEF TypeOK, States
  <2>11. timers' \in [Nodes -> SUBSET Timers]
    BY <1>c, <1>d, <1>e DEF TypeOK
  <2>12. txPage' \in [Nodes -> Pages \cup {-1}]
    BY <1>c, <1>d, <1>e, <1>f DEF TypeOK
  <2>13. txSet' \in [Nodes -> SUBSET Bits]
    BY <1>c, <1>d, <1>e DEF TypeOK
  <2>14. recvAdv' \in [Nodes -> 0..CONST_K]
    BY <1>c, <1>d, <1>e DEF TypeOK, CONST_K
  <2>15. bcastProfile' \in [Nodes -> BOOLEAN]
    BY <1>c, <1>d, <1>e DEF TypeOK
  <2>16. summaryFrom' \in [Nodes -> Nodes \cup {NoNode}]
    BY <1>c, <1>d, <1>e DEF TypeOK
  <2>17. air' \subseteq Frames
    BY <1>c, <1>d, <1>e DEF TypeOK
  <2>18. events' \in 0..MaxEvents
    BY <1>c, <1>d, <1>e, <1>a DEF TypeOK
  <2>19. told' \subseteq Nodes
    BY <1>c, <1>d, <1>e, <1>a DEF TypeOK
  <2>20. reported' \subseteq Nodes \cup {NoNode}
    BY <1>c, <1>d, <1>e, <1>a DEF TypeOK
  <2> QED
    BY <2>1, <2>2, <2>3, <2>4, <2>5, <2>6, <2>7, <2>8, <2>9, <2>10, <2>11, <2>12, <2>13,
       <2>14, <2>15, <2>16, <2>17, <2>18, <2>19, <2>20 DEF TypeOK
<1>2. UpdateAtomic'
  <2>1. ASSUME NEW q \in Nodes
        PROVE  IF version'[q] = updateVersion'[q]
               THEN complete'[q] = Pages /\ pageVersion'[q] = [r \in Pages |-> version'[q]]
               ELSE /\ version'[q] < updateVersion'[q]
                    /\ pageVersion'[q] = [r \in Pages |-> updateVersion'[q]]
                    /\ rxPage'[q] < NPages
                    /\ complete'[q] = 0..rxPage'[q]-1
    <3>1. CASE q # n
      BY <1>c, <3>1 DEF UpdateAtomic, TypeOK
    <3>2. CASE q = n
      <4>1. /\ version'[n] = v /\ updateVersion'[n] = v /\ complete'[n] = Pages
            /\ pageVersion'[n] = [r \in Pages |-> v]
        BY <1>c DEF TypeOK
      <4> QED
        BY <3>2, <4>1
    <3> QED
      BY <3>1, <3>2
  <2> QED
    BY <2>1 DEF UpdateAtomic
<1>3. GatewayLeads'
  <2>1. \A q \in Nodes : updateVersion'[q] <= version'[Gateway]
    <3>1. \A q \in Nodes : updateVersion[q] \in Int /\ updateVersion[q] <= version[Gateway]
      BY DEF GatewayLeads, TypeOK, Versions
    <3>2. version[Gateway] \in Int /\ version'[Gateway] \in Int
      BY <1>c, <1>h DEF TypeOK, Versions
    <3> QED
      BY <1>c, <1>h, <3>1, <3>2 DEF TypeOK
  <2>2. version'[Gateway] = updateVersion'[Gateway]
    BY <1>c, <1>h DEF GatewayLeads, TypeOK
  <2>3. \A q \in Nodes : "profile" \in timers'[q] => q = Gateway
    BY <1>d DEF GatewayLeads, TypeOK
  <2> QED
    BY <2>1, <2>2, <2>3 DEF GatewayLeads
<1>4. UniformProfiles'
  <2>1. version[Gateway] \in Int /\ version'[Gateway] \in Int
    BY <1>c, <1>h DEF TypeOK, Versions
  <2>2. ASSUME NEW g \in air', g.msg.cmd = "profile"
        PROVE  /\ g.msg.vector = [p \in Pages |-> g.msg.version]
               /\ g.msg.version <= version'[Gateway]
    <3>1. g \in air
      BY <1>e
    <3>2. g.msg.version \in Int
      BY <2>2, <3>1, FrameKinds DEF ProfileMsg, Versions
    <3>3. /\ g.msg.vector = [p \in Pages |-> g.msg.version]
          /\ g.msg.version <= version[Gateway]
      BY <2>2, <3>1 DEF UniformProfiles
    <3> QED
      BY <1>h, <2>1, <3>2, <3>3
  <2> QED
    BY <2>2 DEF UniformProfiles
<1>5. SensorsUpdateOnce'
  <2>1. ASSUME NEW q \in Sensors
        PROVE  updateVersion'[q] <= 1
    <3>1. q \in Nodes /\ q # Gateway
      BY NodesAssumption DEF Nodes
    <3>2. CASE q = n
      BY <1>a, <1>c, <3>1, <3>2 DEF TypeOK
    <3>3. CASE q # n
      BY <1>c, <3>1, <3>3 DEF SensorsUpdateOnce, TypeOK
    <3> QED
      BY <3>2, <3>3
  <2> QED
    BY <2>1 DEF SensorsUpdateOnce
<1>6. RequestsMissing'
  BY <1>c, <1>d DEF RequestsMissing, TypeOK
<1>7. PacketsCounted'
  BY <1>c DEF PacketsCounted, TypeOK
<1>8. UsefulRequests'
  BY <1>e DEF UsefulRequests
<1>9. ServesWhole'
  BY <1>c, <1>d DEF ServesWhole, TypeOK
<1>10. NoStuckState'
  BY <1>d DEF NoStuckState, TypeOK
<1>11. PendingFinished'
  BY <1>c, <1>d DEF PendingFinished, TypeOK
<1>12. ~Garbles => TrueLabels'
  <2> SUFFICES ASSUME ~Garbles, TrueLabels
               PROVE  TrueLabels'
    OBVIOUS
  <2>1. ASSUME NEW q \in Nodes, version'[q] # updateVersion'[q]
        PROVE  \A k \in packetSet'[q][rxPage'[q]] :
                 buffer'[q][k] \in Copies(updateVersion'[q], rxPage'[q], k)
    <3>1. q # n
      BY <1>c, <2>1 DEF TypeOK
    <3> QED
      BY <1>c, <1>d, <2>1, <3>1 DEF TrueLabels, TypeOK
  <2> QED
    BY <1>e, <2>1 DEF TrueLabels
<1>13. ~Garbles => ImageIntegrity'
  <2> SUFFICES ASSUME ~Garbles, ImageIntegrity
               PROVE  ImageIntegrity'
    OBVIOUS
  <2>1. ASSUME NEW q \in Nodes, NEW r \in complete'[q]
        PROVE  \A k \in Packets : flash'[q][r][k] \in Copies(pageVersion'[q][r], r, k)
    <3>1. CASE q # n
      BY <1>c, <1>d, <2>1, <3>1 DEF ImageIntegrity, TypeOK
    <3>2. CASE q = n
      <4>1. /\ r \in Pages /\ pageVersion'[n] = [p \in Pages |-> v]
            /\ flash'[n] = ImageFile(v)
        BY <1>c, <1>d, <2>1, <3>2 DEF TypeOK
      <4> QED
        BY <3>2, <4>1, ImageFileType
    <3> QED
      BY <3>1, <3>2
  <2> QED
    BY <2>1 DEF ImageIntegrity
<1> QED
  BY <1>1, <1>2, <1>3, <1>4, <1>5, <1>6, <1>7, <1>8, <1>9, <1>10, <1>11, <1>12, <1>13

(* A sensor that reboots starts in version 0.                              *)
LEMMA RebootStep ==
  ASSUME IndInv, NEW n \in Sensors, Reboot(n)
  PROVE  IndInv'
<1>1. n \in Nodes /\ n # Gateway /\ 0 \in Versions
  BY NodesAssumption, VersionAssumption DEF Nodes, Versions
<1>2. events' \in 0..MaxEvents /\ told' \subseteq Nodes /\ reported' \subseteq Nodes \cup {NoNode}
  BY DEF Reboot, gwVars, IndInv, TypeOK
<1>3. Restart(n, 0)
  BY DEF Reboot
<1> QED
  BY <1>1, <1>2, <1>3, RestartStep

(* The gateway that is programmed again starts one version later.          *)
LEMMA ReflashStep ==
  ASSUME IndInv, Reflash
  PROVE  IndInv'
<1>1. version[Gateway] \in Versions /\ version[Gateway] < MaxVersion /\ Gateway \in Nodes
  BY DEF Reflash, IndInv, TypeOK, Nodes
<1>2. version[Gateway] + 1 \in Versions /\ version[Gateway] + 1 >= version[Gateway]
  BY <1>1, VersionAssumption DEF Versions
<1>3. /\ events' \in 0..MaxEvents /\ told' \subseteq Nodes /\ reported' \subseteq Nodes \cup {NoNode}
      /\ Restart(Gateway, version[Gateway] + 1)
  BY BoundsAssumption DEF Reflash
<1> QED
  BY <1>1, <1>2, <1>3, RestartStep

-----------------------------------------------------------------------------
(* The invariant and the theorems.                                         *)

(* The invariant holds at the start.                                       *)
LEMMA InitIndInv == Init => IndInv
<1> SUFFICES ASSUME Init
             PROVE  IndInv
  OBVIOUS
<1> DEFINE v == [n \in Nodes |-> IF n = Gateway THEN 1 ELSE 0]
<1>1. /\ v \in [Nodes -> Versions] /\ 0 \in 0..NPages /\ 0 \in Pages /\ 0 \in Versions
      /\ Gateway \in Nodes /\ v[Gateway] = 1 /\ \A n \in Sensors : n \in Nodes /\ v[n] = 0
  BY NodesAssumption, SizesAssumption, VersionAssumption DEF Versions, Pages, Nodes
<1>2. /\ version = v /\ updateVersion = v
      /\ pageVersion = [n \in Nodes |-> [p \in Pages |-> v[n]]]
      /\ complete = [n \in Nodes |-> Pages]
      /\ packetSet = [n \in Nodes |-> [p \in Pages |-> Packets]]
      /\ rxPage = [n \in Nodes |-> 0]
      /\ buffer = [n \in Nodes |-> [k \in Packets |-> Original(0, 0, k)]]
      /\ flash = [n \in Nodes |-> ImageFile(v[n])]
  BY DEF Init
<1>3. /\ updateState = [n \in Nodes |-> FALSE] /\ state = [n \in Nodes |-> "maintain"]
      /\ timers = [n \in Nodes |-> {}] /\ txPage = [n \in Nodes |-> 0]
      /\ txSet = [n \in Nodes |-> {}] /\ recvAdv = [n \in Nodes |-> 0]
      /\ bcastProfile = [n \in Nodes |-> FALSE] /\ summaryFrom = [n \in Nodes |-> NoNode]
      /\ air = {} /\ events = 0 /\ told = {} /\ reported = {}
  BY DEF Init
<1> HIDE DEF v
<1>4. TypeOK
  <2>1. /\ version \in [Nodes -> Versions] /\ updateVersion \in [Nodes -> Versions]
        /\ pageVersion \in [Nodes -> [Pages -> Versions]]
        /\ complete \in [Nodes -> SUBSET Pages]
        /\ packetSet \in [Nodes -> [Pages -> SUBSET Packets]]
        /\ rxPage \in [Nodes -> 0..NPages]
    BY <1>1, <1>2
  <2>2. buffer \in [Nodes -> [Packets -> Payload]]
    BY <1>1, <1>2, CopiesOfPacket
  <2>3. flash \in [Nodes -> [Pages -> [Packets -> Payload]]]
    BY <1>1, <1>2, ImageFileType
  <2>4. /\ updateState \in [Nodes -> BOOLEAN] /\ state \in [Nodes -> States]
        /\ timers \in [Nodes -> SUBSET Timers] /\ txPage \in [Nodes -> Pages \cup {-1}]
        /\ txSet \in [Nodes -> SUBSET Bits] /\ recvAdv \in [Nodes -> 0..CONST_K]
    BY <1>1, <1>3 DEF States, CONST_K
  <2>5. /\ bcastProfile \in [Nodes -> BOOLEAN] /\ summaryFrom \in [Nodes -> Nodes \cup {NoNode}]
        /\ air \subseteq Frames /\ events \in 0..MaxEvents /\ told \subseteq Nodes
        /\ reported \subseteq Nodes \cup {NoNode}
    BY <1>3, BoundsAssumption
  <2> QED
    BY <2>1, <2>2, <2>3, <2>4, <2>5 DEF TypeOK
<1>5. UpdateAtomic /\ PacketsCounted
  BY <1>2 DEF UpdateAtomic, PacketsCounted
<1>6. GatewayLeads /\ SensorsUpdateOnce
  <2>1. \A n \in Nodes : v[n] <= 1
    BY <1>1 DEF Nodes
  <2> QED
    BY <1>1, <1>2, <1>3, <2>1 DEF GatewayLeads, SensorsUpdateOnce
<1>7. UniformProfiles /\ RequestsMissing /\ UsefulRequests /\ ServesWhole
      /\ NoStuckState /\ PendingFinished
  BY <1>3 DEF PendingFinished, UniformProfiles, RequestsMissing, UsefulRequests,
     ServesWhole, NoStuckState
<1>8. TrueLabels
  BY <1>2, <1>3 DEF TrueLabels
<1>9. ImageIntegrity
  <2>1. \A n \in Nodes : v[n] \in Versions
    BY <1>1
  <2>2. \A n \in Nodes : \A p \in Pages : \A k \in Packets : flash[n][p][k] \in Copies(v[n], p, k)
    BY <1>2, <2>1, ImageFileType
  <2> QED
    BY <1>2, <2>2 DEF ImageIntegrity
<1> QED
  BY <1>4, <1>5, <1>6, <1>7, <1>8, <1>9 DEF IndInv

(* Every step keeps the invariant.                                         *)
LEMMA NextIndInv == IndInv /\ [Next]_vars => IndInv'
<1> SUFFICES ASSUME IndInv, [Next]_vars
             PROVE  IndInv'
  OBVIOUS
<1>1. ASSUME NEW f \in air, Lose(f)
      PROVE  IndInv'
  BY <1>1, LoseStep
<1>2. ASSUME NEW f \in air, Receive(f.to, f)
      PROVE  IndInv'
  <2>1. f.to \in Nodes
    BY FrameKinds DEF IndInv
  <2>2. \/ RecvSummary(f.to, f) \/ RecvSummaryWanted(f.to, f) \/ RecvRequest(f.to, f)
        \/ IgnorePacket(f.to, f) \/ GarbledPacket(f.to, f) \/ StorePacket(f.to, f)
        \/ CompletePage(f.to, f) \/ RecvProfile(f.to, f)
    BY <1>2 DEF Receive, RecvPacket
  <2> QED
    BY <2>1, <2>2, RecvSummaryStep, RecvSummaryWantedStep, RecvRequestStep,
       IgnorePacketStep,
       GarbledPacketStep, StorePacketStep, CompletePageStep, RecvProfileStep
<1>3. ASSUME NEW n \in Nodes, TimerStep(n)
      PROVE  IndInv'
  BY <1>3, RoundStep, SummaryTimerStep, ProfileTimerStep, RequestTimerStep, TxTimerStep
     DEF TimerStep
<1>4. ASSUME NEW n \in Sensors, PollUpdate(n) \/ Reboot(n)
      PROVE  IndInv'
  BY <1>4, PollStep, RebootStep
<1>5. CASE GatewayReport
  BY <1>5, ReportStep
<1>6. CASE Reflash
  BY <1>6, ReflashStep
<1>7. CASE UNCHANGED vars
  BY <1>7, AirShrinksStep DEF vars, imageVars, fileVars, fsmVars, txVars, advVars, gwVars
<1> QED
  BY <1>1, <1>2, <1>3, <1>4, <1>5, <1>6, <1>7 DEF Next

(* IndInv is an invariant of the program, for all sensors, links and       *)
(* sizes.                                                                  *)
THEOREM Invariance == Spec => []IndInv
BY InitIndInv, NextIndInv, PTL DEF Spec

(* Every variable keeps its type.                                          *)
THEOREM TypeCorrect == Spec => []TypeOK
<1>1. IndInv => TypeOK
  BY DEF IndInv
<1> QED
  BY <1>1, Invariance, PTL

(* The version a node runs (deluge_rx.c, handle_packet and handle_profile) *)
(* changes only when all its pages have been received.                     *)
THEOREM UpdatesAtomic == Spec => []UpdateAtomic
<1>1. IndInv => UpdateAtomic
  BY DEF IndInv
<1> QED
  BY <1>1, Invariance, PTL

(* No node stays in RX or TX without the timer that ends the state         *)
(* (deluge_rx.c, transition, send_request, tx_callback).                   *)
THEOREM NeverStuck == Spec => []NoStuckState
<1>1. IndInv => NoStuckState
  BY DEF IndInv
<1> QED
  BY <1>1, Invariance, PTL

(* A sensor is never after a version above 1: command_dispatcher's length  *)
(* check drops the profiles of all later images, on every topology.        *)
THEOREM UpdateOnce == Spec => []SensorsUpdateOnce
<1>1. IndInv => SensorsUpdateOnce
  BY DEF IndInv
<1> QED
  BY <1>1, Invariance, PTL

(* Where the radio's CRC catches every damaged packet, a page flagged      *)
(* complete holds its version's data on flash, on every node, always, but  *)
(* for the addresses that a loader has written into it: its node's own, or *)
(* that of a node which served the page after linking it.                  *)
THEOREM ImagesWhole ==
  ASSUME ~Garbles
  PROVE  Spec => []ImageIntegrity
<1>1. IndInv => ImageIntegrity
  BY DEF IndInv
<1> QED
  BY <1>1, Invariance, PTL

(* Where the radio's CRC catches every damaged packet, codeload finds one  *)
(* whole image, of the version the node runs, whenever a load is pending,  *)
(* with at most the addresses of other nodes' loaders in it.               *)
THEOREM LoadsWhole ==
  ASSUME ~Garbles
  PROVE  Spec => []PendingImageWhole
<1>1. IndInv => PendingImageWhole
  <2> SUFFICES ASSUME IndInv, NEW n \in Nodes, updateState[n]
               PROVE  \A p \in Pages : \A k \in Packets : flash[n][p][k] \in Copies(version[n], p, k)
    BY DEF PendingImageWhole
  <2>1. complete[n] = Pages /\ pageVersion[n] = [p \in Pages |-> version[n]]
    BY DEF IndInv, PendingFinished, UpdateAtomic
  <2> QED
    BY <2>1 DEF IndInv, ImageIntegrity
<1> QED
  BY <1>1, Invariance, PTL
=============================================================================
