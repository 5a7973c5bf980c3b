---------------------------- MODULE PromiseProofs ----------------------------
(***************************************************************************)
(* What Deluge promises to the application and to the ground.  Where no    *)
(* damaged packet reaches handle_packet, it implements ImageTransfer, for  *)
(* every network, image size and number of versions.  Where sensors do not *)
(* reboot, the gateway reports to the UAV only sensors that run its        *)
(* version, although the event carries a pointer to the one summary_from   *)
(* that later summaries overwrite.                                         *)
(***************************************************************************)
EXTENDS DelugeProofs

-----------------------------------------------------------------------------
(* The refinement mapping.                                                 *)

(* A page that holds one image's data, with addresses in it or not, is of  *)
(* that image.                                                             *)
LEMMA WholePage ==
  ASSUME NEW v, NEW p, NEW page, \A k \in Packets : page[k] \in Copies(v, p, k)
  PROVE  PageImage(page, p) = v
<1>1. 0 \in Packets
  BY SizesAssumption DEF Packets
<1>2. page[0] \in Copies(v, p, 0)
  BY <1>1
<1>3. Original(v, p, 0)[1] = v /\ Relocated(Original(v, p, 0))[1] = v
  BY DEF Original, Relocated
<1>4. page[0][1] = v
  BY <1>2, <1>3 DEF Copies
<1> QED
  BY <1>4 DEF PageImage

(* Steps that leave versions, pages, file and flag alone are none of the   *)
(* transfer.                                                               *)
LEMMA Stutters ==
  ASSUME UNCHANGED <<version, updateVersion, complete, flash, updateState>>
  PROVE  UNCHANGED Transfer!vars
BY DEF Transfer!vars, Available, FileOf

(* A step of one sensor leaves the pages and the file of the others alone. *)
LEMMA OthersKept ==
  ASSUME NEW n, NEW k \in Nodes \ {n}, complete'[k] = complete[k], flash'[k] = flash[k]
  PROVE  Available(k)' = Available(k) /\ FileOf(k)' = FileOf(k)
BY DEF Available, FileOf

(* Sensors and gateway start with their images whole.                      *)
LEMMA InitTransfers == Init => Transfer!Init
<1> SUFFICES ASSUME Init PROVE Transfer!Init
  OBVIOUS
<1>1. Gateway \in Nodes /\ \A n \in Sensors : n \in Nodes /\ n # Gateway
  BY NodesAssumption DEF Nodes
<1>2. \A n \in Sensors : Available(n) = NPages
  <2>1. \A n \in Sensors : complete[n] = 0..NPages-1
    BY <1>1 DEF Init, Pages
  <2> QED
    BY <2>1, FirstMissingPrefix, SizesAssumption DEF Available
<1>3. \A n \in Sensors : FileOf(n) = [p \in Pages |-> 0]
  <2>1. \A n \in Sensors : \A p \in Pages : \A k \in Packets : flash[n][p][k] \in Copies(0, p, k)
    BY <1>1 DEF Init, ImageFile, Copies
  <2> QED
    BY <2>1, WholePage DEF FileOf
<1>4. /\ version[Gateway] = 1
      /\ \A n \in Sensors : version[n] = 0 /\ updateVersion[n] = 0 /\ updateState[n] = FALSE
  BY <1>1 DEF Init
<1> QED
  BY <1>2, <1>3, <1>4 DEF Transfer!Init, Transfer!Pages, Pages

-----------------------------------------------------------------------------
(* The steps of a sensor.                                                  *)

(* A profile is accepted by a sensor that has loaded what it had, and      *)
(* makes all its pages missing.                                            *)
LEMMA ProfileTransfers ==
  ASSUME IndInv, NEW f \in air, RecvProfile(f.to, f)
  PROVE  [Transfer!Next]_(Transfer!vars)
<1> DEFINE n == f.to
           m == f.msg
<1>1. CASE ~NewProfile(n, m)
  BY <1>1, Stutters DEF RecvProfile, imageVars, fileVars
<1>2. CASE NewProfile(n, m)
  <2>1. /\ TypeOK /\ UpdateAtomic /\ GatewayLeads /\ PendingFinished
        /\ m \in ProfileMsg /\ n \in Nodes
        /\ m.vector = [p \in Pages |-> m.version] /\ m.version <= version[Gateway]
    BY FrameKinds DEF RecvProfile, Hears, IndInv, UniformProfiles
  <2>2. /\ m.version \in Nat /\ Gateway \in Nodes
        /\ \A k \in Nodes : version[k] \in Nat /\ updateVersion[k] \in Nat
    BY <2>1 DEF ProfileMsg, TypeOK, Versions, Nodes
  <2>3. m.version > updateVersion[n] /\ m.version <= 1
    <3>1. 0 \in Pages
      BY SizesAssumption DEF Pages
    <3>2. m.vector[0] = m.version
      BY <2>1, <3>1
    <3> QED
      BY <1>2, <2>2, <3>2, LongEnoughVersion, SizesAssumption DEF NewProfile, LongEnough
  <2>4. n \in Sensors /\ n # Gateway
    BY <2>1, <2>2, <2>3 DEF GatewayLeads, Nodes
  <2>5. ~updateState[n]
    BY <2>1, <2>2, <2>3 DEF PendingFinished
  <2>6. Stale(n, m) = Pages
    <3>1. pageVersion[n] = [p \in Pages |-> updateVersion[n]]
      <4>1. CASE version[n] = updateVersion[n]
        BY <2>1, <4>1 DEF UpdateAtomic
      <4>2. CASE version[n] # updateVersion[n]
        BY <2>1, <4>2 DEF UpdateAtomic
      <4> QED
        BY <4>1, <4>2
    <3> QED
      BY <2>1, <2>3, <3>1 DEF Stale
  <2>7. /\ updateVersion' = [updateVersion EXCEPT ![n] = m.version]
        /\ complete' = [complete EXCEPT ![n] = @ \ Pages]
        /\ UNCHANGED <<version, flash, updateState>>
    BY <1>2, <2>6 DEF RecvProfile, fileVars
  <2>8. complete'[n] = {}
    BY <2>1, <2>7 DEF TypeOK
  <2>9. Available(n)' = 0
    BY <2>8, FirstMissingNone DEF Available
  <2>10. \A k \in Sensors \ {n} : Available(k)' = Available(k) /\ updateVersion'[k] = updateVersion[k]
    <3>1. \A k \in Sensors \ {n} : k \in Nodes /\ complete'[k] = complete[k]
      BY <2>1, <2>7 DEF TypeOK, Nodes
    <3> QED
      BY <2>1, <2>7, <3>1 DEF Available, TypeOK
  <2>11. updateVersion'[n] = m.version /\ m.version \in updateVersion[n]+1..version[Gateway]
    BY <2>1, <2>2, <2>3, <2>7 DEF TypeOK
  <2>12. [k \in Sensors |-> updateVersion'[k]]
           = [[k \in Sensors |-> updateVersion[k]] EXCEPT ![n] = m.version]
    BY <2>4, <2>10, <2>11
  <2>13. [k \in Sensors |-> Available(k)'] = [[k \in Sensors |-> Available(k)] EXCEPT ![n] = 0]
    BY <2>4, <2>9, <2>10
  <2>14. /\ [k \in Sensors |-> version[k]]' = [k \in Sensors |-> version[k]]
         /\ [k \in Sensors |-> FileOf(k)]' = [k \in Sensors |-> FileOf(k)]
         /\ [k \in Sensors |-> updateState[k]]' = [k \in Sensors |-> updateState[k]]
    BY <2>7 DEF FileOf
  <2>15. Transfer!Accept(n)
    BY <2>4, <2>5, <2>7, <2>11, <2>12, <2>13, <2>14 DEF Transfer!Accept
  <2> QED
    BY <2>4, <2>15 DEF Transfer!Next
<1> QED
  BY <1>1, <1>2

(* The last packet of a page makes the file one page longer, and with the  *)
(* last page the image is installed.                                       *)
LEMMA PageTransfers ==
  ASSUME ~Garbles, IndInv, IndInv', NEW f \in air, CompletePage(f.to, f)
  PROVE  Transfer!Next
<1> DEFINE n == f.to
           p == rxPage[n]
           v == updateVersion[n]
<1>1. /\ TypeOK /\ UpdateAtomic /\ GatewayLeads /\ ImageIntegrity' /\ UpdateAtomic' /\ TypeOK'
      /\ n \in Nodes /\ f.msg \in PacketMsg /\ f.msg.pagenum = p
      /\ f.msg.pagenum \notin complete[n]
  BY FrameKinds DEF CompletePage, Hears, Takes, IndInv
<1>2. p \in Pages /\ p \in 0..NPages-1 /\ NPages \in Nat
  BY <1>1, SizesAssumption DEF PacketMsg, Pages
<1>3. version[n] # v /\ pageVersion[n] = [q \in Pages |-> v] /\ complete[n] = 0..p-1
  <2>1. version[n] # v
    BY <1>1, <1>2 DEF UpdateAtomic
  <2> QED
    BY <1>1, <2>1, Zenon DEF UpdateAtomic
<1>4. n \in Sensors /\ n # Gateway
  BY <1>1, <1>3 DEF GatewayLeads, Nodes
<1>5. /\ complete' = [complete EXCEPT ![n] = @ \cup {p}]
      /\ flash' = [flash EXCEPT ![n][p] = Buffered(n, f.msg)]
      /\ version' = [version EXCEPT ![n] = IF p = NPages - 1 THEN v ELSE @]
      /\ updateState' = [updateState EXCEPT ![n] = @ \/ p = NPages - 1]
      /\ UNCHANGED <<updateVersion, pageVersion>>
  BY <1>1 DEF CompletePage
<1>6. Available(n) = p /\ Available(n)' = p + 1
  <2>1. complete'[n] = 0..(p+1)-1
    <3>1. complete'[n] = complete[n] \cup {p}
      BY <1>1, <1>5 DEF TypeOK
    <3>2. (0..p-1) \cup {p} = 0..(p+1)-1
      BY <1>2
    <3> QED
      BY <1>3, <3>1, <3>2
  <2>2. p \in 0..NPages /\ p + 1 \in 0..NPages
    BY <1>2
  <2>3. FirstMissing(complete[n]) = p
    BY <1>3, <2>2, FirstMissingPrefix
  <2>4. FirstMissing(complete'[n]) = p + 1
    BY <2>1, <2>2, FirstMissingPrefix
  <2> QED
    BY <2>3, <2>4 DEF Available
<1>7. FileOf(n)' = [FileOf(n) EXCEPT ![p] = v]
  <2>1. p \in complete'[n]
    BY <1>1, <1>5 DEF TypeOK
  <2>2. \A k \in Packets : flash'[n][p][k] \in Copies(v, p, k)
    BY <1>1, <1>2, <1>3, <1>5, <2>1 DEF ImageIntegrity
  <2>3. PageImage(flash'[n][p], p) = v
    BY <2>2, WholePage
  <2>4. \A q \in Pages \ {p} : flash'[n][q] = flash[n][q]
    BY <1>1, <1>5 DEF TypeOK
  <2> QED
    BY <1>2, <2>3, <2>4 DEF FileOf
<1>8. \A k \in Sensors \ {n} : /\ Available(k)' = Available(k) /\ FileOf(k)' = FileOf(k)
                               /\ version'[k] = version[k] /\ updateState'[k] = updateState[k]
  <2>1. \A k \in Sensors \ {n} : k \in Nodes \ {n} /\ complete'[k] = complete[k] /\ flash'[k] = flash[k]
    BY <1>1, <1>5 DEF TypeOK, Nodes
  <2>2. \A k \in Sensors \ {n} : version'[k] = version[k] /\ updateState'[k] = updateState[k]
    BY <1>1, <1>5 DEF TypeOK, Nodes
  <2> QED
    BY <2>1, <2>2, OthersKept
<1> DEFINE have == [k \in Sensors |-> Available(k)]
           file == [k \in Sensors |-> FileOf(k)]
<1>9. /\ have[n] = p
      /\ have' = [have EXCEPT ![n] = @ + 1]
      /\ file' = [file EXCEPT ![n][p] = v]
  BY <1>4, <1>6, <1>7, <1>8
<1>10. Transfer!NextPage(n)
  <2>1. version'[Gateway] = version[Gateway] /\ p < NPages
    BY <1>1, <1>2, <1>4, <1>5 DEF TypeOK
  <2> QED
    BY <1>4, <1>5, <1>9, <2>1 DEF Transfer!NextPage
<1>11. CASE p # NPages - 1
  <2>1. version' = version /\ updateState' = updateState
    BY <1>1, <1>5, <1>11 DEF TypeOK
  <2>2. have[n] + 1 < NPages
    BY <1>2, <1>9, <1>11
  <2>3. Transfer!ReceivePage(n)
    BY <1>10, <2>1, <2>2 DEF Transfer!ReceivePage
  <2> QED
    BY <1>4, <2>3 DEF Transfer!Next
<1>12. CASE p = NPages - 1
  <2>1. version'[n] = v /\ updateState'[n] = TRUE
    <3>1. version'[n] = v
      BY <1>1, <1>5, <1>12 DEF TypeOK
    <3> DEFINE flag == updateState[n] \/ p = NPages - 1
    <3>2. updateState' = [updateState EXCEPT ![n] = flag]
      BY <1>5
    <3>3. flag = TRUE
      BY <1>12
    <3> HIDE DEF flag
    <3>4. updateState'[n] = flag
      BY <1>1, <3>2 DEF TypeOK
    <3> QED
      BY <3>1, <3>3, <3>4
  <2>2. [k \in Sensors |-> version[k]]' = [[k \in Sensors |-> version[k]] EXCEPT ![n] = v]
    BY <1>4, <1>8, <2>1
  <2>3. [k \in Sensors |-> updateState[k]]' = [[k \in Sensors |-> updateState[k]] EXCEPT ![n] = TRUE]
    BY <1>4, <1>8, <2>1
  <2>4. have[n] + 1 = NPages
    BY <1>2, <1>9, <1>12
  <2>5. Transfer!Install(n)
    BY <1>4, <1>10, <2>2, <2>3, <2>4 DEF Transfer!Install
  <2> QED
    BY <1>4, <2>5 DEF Transfer!Next
<1> QED
  BY <1>11, <1>12

(* The application takes the flag, and the file is still of its image.     *)
LEMMA PollTransfers ==
  ASSUME ~Garbles, IndInv, IndInv', NEW n \in Sensors, PollUpdate(n)
  PROVE  Transfer!Next
<1>1. /\ updateState \in [Nodes -> BOOLEAN] /\ Sensors \subseteq Nodes
      /\ flash \in [Nodes -> [Pages -> [Packets -> Payload]]]
  BY DEF IndInv, TypeOK, Nodes
<1>2. [k \in Sensors |-> updateState[k]]' = [[k \in Sensors |-> updateState[k]] EXCEPT ![n] = FALSE]
  BY <1>1 DEF PollUpdate
<1>3. UNCHANGED <<version, updateVersion, pageVersion, complete>> /\ updateState[n]
  BY DEF PollUpdate, imageVars
<1>4. \A k \in Sensors : FileOf(k)' = FileOf(k)
  <2>1. complete[n] = Pages /\ pageVersion[n] = [p \in Pages |-> version[n]]
    BY <1>1, <1>3 DEF IndInv, PendingFinished, UpdateAtomic
  <2>2. \A p \in Pages : \A k \in Packets : /\ flash[n][p][k] \in Copies(version[n], p, k)
                                            /\ flash'[n][p][k] \in Copies(version[n], p, k)
    BY <1>1, <1>3, <2>1 DEF IndInv, ImageIntegrity
  <2>3. \A p \in Pages : /\ PageImage(flash[n][p], p) = version[n]
                         /\ PageImage(flash'[n][p], p) = version[n]
    BY <2>2, WholePage
  <2>4. \A k \in Sensors \ {n} : flash'[k] = flash[k]
    BY <1>1 DEF PollUpdate
  <2> QED
    BY <2>3, <2>4 DEF FileOf
<1>5. Transfer!Load(n)
  BY <1>2, <1>3, <1>4 DEF Transfer!Load, PollUpdate, Available
<1> QED
  BY <1>5 DEF Transfer!Next

(* A sensor restarts with a blank file.                                    *)
LEMMA RebootTransfers ==
  ASSUME IndInv, NEW n \in Sensors, Reboot(n)
  PROVE  Transfer!Next
<1>1. TypeOK /\ n \in Nodes /\ n # Gateway /\ Gateway \in Nodes /\ Sensors \subseteq Nodes
  BY NodesAssumption DEF IndInv, Nodes
<1>2. /\ version' = [version EXCEPT ![n] = 0] /\ updateVersion' = [updateVersion EXCEPT ![n] = 0]
      /\ complete' = [complete EXCEPT ![n] = Pages] /\ flash' = [flash EXCEPT ![n] = ImageFile(0)]
      /\ updateState' = [updateState EXCEPT ![n] = FALSE]
  BY DEF Reboot, Restart
<1>3. Available(n)' = NPages
  <2>1. complete'[n] = 0..NPages-1
    BY <1>1, <1>2 DEF TypeOK, Pages
  <2> QED
    BY <2>1, FirstMissingPrefix, SizesAssumption DEF Available
<1>4. FileOf(n)' = [p \in Pages |-> 0]
  <2>1. \A p \in Pages : \A k \in Packets : flash'[n][p][k] \in Copies(0, p, k)
    BY <1>1, <1>2 DEF TypeOK, ImageFile, Copies
  <2> QED
    BY <2>1, WholePage DEF FileOf
<1>5. \A k \in Sensors \ {n} : Available(k)' = Available(k) /\ FileOf(k)' = FileOf(k)
  <2>1. \A k \in Sensors \ {n} : k \in Nodes \ {n} /\ complete'[k] = complete[k] /\ flash'[k] = flash[k]
    BY <1>1, <1>2 DEF TypeOK
  <2> QED
    BY <2>1, OthersKept
<1>6. /\ [k \in Sensors |-> version[k]]' = [[k \in Sensors |-> version[k]] EXCEPT ![n] = 0]
      /\ [k \in Sensors |-> updateVersion[k]]' = [[k \in Sensors |-> updateVersion[k]] EXCEPT ![n] = 0]
  BY <1>1, <1>2 DEF TypeOK
<1>7. [k \in Sensors |-> updateState[k]]' = [[k \in Sensors |-> updateState[k]] EXCEPT ![n] = FALSE]
  BY <1>1, <1>2 DEF TypeOK
<1>8. [k \in Sensors |-> Available(k)]' = [[k \in Sensors |-> Available(k)] EXCEPT ![n] = NPages]
  BY <1>3, <1>5
<1>9. [k \in Sensors |-> FileOf(k)]' = [[k \in Sensors |-> FileOf(k)] EXCEPT ![n] = [p \in Pages |-> 0]]
  BY <1>4, <1>5
<1>10. version'[Gateway] = version[Gateway]
  BY <1>1, <1>2 DEF TypeOK
<1>11. Transfer!Restart(n)
  BY <1>6, <1>7, <1>8, <1>9, <1>10 DEF Transfer!Restart, Transfer!Pages, Pages
<1> QED
  BY <1>11 DEF Transfer!Next

(* The gateway gets its next image, and no sensor sees it.                 *)
LEMMA ReflashTransfers ==
  ASSUME IndInv, Reflash
  PROVE  Transfer!Next
<1>1. TypeOK /\ Gateway \in Nodes /\ \A k \in Sensors : k \in Nodes \ {Gateway}
  BY NodesAssumption DEF IndInv, Nodes
<1>2. version'[Gateway] = version[Gateway] + 1
  BY <1>1 DEF Reflash, Restart, TypeOK
<1>3. \A k \in Sensors : /\ version'[k] = version[k] /\ updateVersion'[k] = updateVersion[k]
                         /\ complete'[k] = complete[k] /\ flash'[k] = flash[k]
  BY <1>1 DEF Reflash, Restart, TypeOK
<1>4. \A k \in Sensors : updateState'[k] = updateState[k]
  BY <1>1 DEF Reflash, Restart, TypeOK
<1>5. \A k \in Sensors : Available(k)' = Available(k) /\ FileOf(k)' = FileOf(k)
  BY <1>1, <1>3, OthersKept
<1>6. Transfer!Release
  BY <1>2, <1>3, <1>4, <1>5 DEF Transfer!Release
<1> QED
  BY <1>6 DEF Transfer!Next

-----------------------------------------------------------------------------
(* Every step of Deluge is a step of the transfer or none of its.          *)
LEMMA StepTransfers ==
  ASSUME ~Garbles, IndInv, IndInv', [Next]_vars
  PROVE  [Transfer!Next]_(Transfer!vars)
<1> USE DEF imageVars, fileVars, fsmVars, txVars, advVars, gwVars
<1>1. CASE \E f \in air : Lose(f)
  BY <1>1, Stutters DEF Lose
<1>2. CASE \E n \in Nodes : TimerStep(n)
  BY <1>2, Stutters DEF TimerStep, Round, SummaryTimer, ProfileTimer, RequestTimer, TxTimer
<1>3. CASE GatewayReport
  BY <1>3, Stutters DEF GatewayReport
<1>4. CASE UNCHANGED vars
  BY <1>4, Stutters DEF vars
<1>5. ASSUME NEW f \in air, Receive(f.to, f)
      PROVE  [Transfer!Next]_(Transfer!vars)
  <2>1. CASE RecvSummary(f.to, f) \/ RecvSummaryWanted(f.to, f)
    BY <2>1, Stutters DEF RecvSummary, RecvSummaryWanted
  <2>2. CASE RecvRequest(f.to, f) \/ IgnorePacket(f.to, f) \/ StorePacket(f.to, f)
    BY <2>2, Stutters DEF RecvRequest, IgnorePacket, StorePacket
  <2> QED
    BY <1>5, <2>1, <2>2, ProfileTransfers, PageTransfers
    DEF Receive, RecvPacket, GarbledPacket
<1> QED
  BY <1>1, <1>2, <1>3, <1>4, <1>5, PollTransfers, RebootTransfers, ReflashTransfers DEF Next

(* Deluge implements ImageTransfer where no damaged packet reaches         *)
(* handle_packet: a sensor's file goes from one whole image to the next by *)
(* whole pages in order, and stays as it is until it is loaded, whatever   *)
(* is lost, late or overtaken, and whoever restarts.                       *)
THEOREM TransfersImages == ASSUME ~Garbles PROVE Spec => KeepsTransfer
<1>1. IndInv /\ IndInv' /\ [Next]_vars => [Transfer!Next]_(Transfer!vars)
  BY StepTransfers
<1> QED
  BY <1>1, InitTransfers, Invariance, PTL DEF Spec, KeepsTransfer, Transfer!Spec

-----------------------------------------------------------------------------
(* A summary of all pages was sent by a node that had adopted the version. *)
Truthful(f) ==
  /\ f.from # f.to
  /\ f.msg.cmd = "summary" /\ f.msg.available = NPages => f.msg.version <= version[f.from]
TruthfulSummaries == \A f \in air : Truthful(f)

(* The sensors that run the gateway's version.                             *)
UpToDate == {n \in Sensors : version[n] = version[Gateway]}

(* What the pointer of a posted event leads to.                            *)
PointerUpToDate == events > 0 => summaryFrom[Gateway] \in UpToDate

ReportInv == TruthfulSummaries /\ PointerUpToDate /\ reported \subseteq UpToDate

-----------------------------------------------------------------------------
(* Nobody sends a frame to itself.                                         *)
LEMMA NotToSelf ==
  ASSUME NEW n \in Nodes, NEW f
  PROVE  /\ \A msgs : f \in Broadcast(n, msgs) => f.from = n /\ f.to # n /\ f.msg \in msgs
         /\ \A to, m : f \in Unicast(n, to, m) => f.from = n /\ f.to # n /\ f.msg = m
BY DEF Broadcast, Unicast, Neighbours

(* The gateway has every page of its version.                              *)
LEMMA GatewayWhole ==
  ASSUME IndInv
  PROVE  complete[Gateway] = Pages /\ Available(Gateway) = NPages
<1>1. TypeOK /\ UpdateAtomic /\ version[Gateway] = updateVersion[Gateway]
  BY DEF IndInv, GatewayLeads
<1>2. Gateway \in Nodes
  BY DEF Nodes
<1> QED
  BY <1>1, <1>2, AvailablePages DEF UpdateAtomic

(* What a node advertises of the pages it has is truthful.                 *)
LEMMA AdvertisesTruth ==
  ASSUME IndInv, NEW n \in Nodes, NEW C, NEW f \in Advertisement(n, C),
         FirstMissing(C) = NPages => updateVersion[n] <= version'[n]
  PROVE  Truthful(f)'
<1>1. f \in Broadcast(n, {SummaryOf(n, C)})
  BY SendsSubset DEF Advertisement
<1>2. f.from = n /\ f.to # n /\ f.msg = SummaryOf(n, C)
  BY <1>1, NotToSelf
<1> QED
  BY <1>2 DEF Truthful, SummaryOf

(* Steps that change no version and report nothing.                        *)
LEMMA KeepsReports ==
  ASSUME ReportInv, UNCHANGED <<version, summaryFrom, events, reported>>,
         \A f \in air' : f \in air \/ Truthful(f)
  PROVE  ReportInv'
<1>1. \A f : Truthful(f)' <=> Truthful(f)
  BY DEF Truthful
<1> QED
  BY <1>1 DEF ReportInv, TruthfulSummaries, PointerUpToDate, UpToDate

-----------------------------------------------------------------------------
(* Timers: of what they send only summaries matter.                        *)
LEMMA TimersReport ==
  ASSUME IndInv, ReportInv, NEW n \in Nodes, TimerStep(n)
  PROVE  ReportInv'
<1> USE DEF imageVars, fileVars, fsmVars, txVars, advVars, gwVars
<1>1. UNCHANGED <<version, summaryFrom, events, reported>>
  BY DEF TimerStep, Round, SummaryTimer, ProfileTimer, RequestTimer, TxTimer
<1>2. CASE Round(n)
  BY <1>1, <1>2, KeepsReports DEF Round
<1>3. CASE SummaryTimer(n)
  <2>1. FirstMissing(complete[n]) = NPages => updateVersion[n] <= version[n]
    <3>1. TypeOK /\ UpdateAtomic
      BY DEF IndInv
    <3>2. CASE version[n] = updateVersion[n]
      BY <3>1, <3>2 DEF TypeOK, Versions
    <3>3. CASE version[n] # updateVersion[n]
      BY <3>1, <3>3, AvailablePages, SizesAssumption DEF Available, UpdateAtomic, TypeOK
    <3> QED
      BY <3>2, <3>3
  <2>2. \A f \in Advertisement(n, complete[n]) : Truthful(f)
    <3>1. TAKE f \in Advertisement(n, complete[n])
    <3>2. Truthful(f)'
      BY <1>1, <2>1, AdvertisesTruth
    <3> QED
      BY <1>1, <3>2 DEF Truthful
  <2> QED
    BY <1>1, <1>3, <2>2, KeepsReports DEF SummaryTimer
<1>4. CASE ProfileTimer(n)
  <2>1. \A f \in Sends(n, Broadcast(n, {ProfileOf(n)})) : Truthful(f)
    BY SendsSubset, NotToSelf DEF Truthful, ProfileOf
  <2> QED
    BY <1>1, <1>4, <2>1, KeepsReports DEF ProfileTimer
<1>5. CASE RequestTimer(n)
  <2>1. PICK v \in Versions :
          air' = air \cup Sends(n, Unicast(n, summaryFrom[n], RequestOf(n, v)))
    BY <1>5 DEF RequestTimer
  <2>2. \A f \in Sends(n, Unicast(n, summaryFrom[n], RequestOf(n, v))) : Truthful(f)
    BY SendsSubset, NotToSelf DEF Truthful, RequestOf
  <2> QED
    BY <1>1, <2>1, <2>2, KeepsReports
<1>6. CASE TxTimer(n)
  <2>1. ASSUME NEW f \in PageBurst(n)
        PROVE  f.from = n /\ f.to # n /\ f.msg.cmd = "packet"
    <3> DEFINE wanted == txSet[n] \cap Packets
               sent == {k \in wanted : Cardinality({j \in wanted : j <= k}) <= Room(n)}
               burst == {PacketOf(n, txPage[n], k) : k \in sent}
    <3>1. f \in Broadcast(n, burst)
      BY DEF PageBurst
    <3> HIDE DEF sent
    <3>2. \A m \in burst : \E k \in sent : m = PacketOf(n, txPage[n], k)
      OBVIOUS
    <3>3. \A k \in sent : PacketOf(n, txPage[n], k).cmd = "packet"
      BY DEF PacketOf
    <3> HIDE DEF burst
    <3> QED
      BY <3>1, <3>2, <3>3, NotToSelf
  <2>2. \A f \in PageBurst(n) : Truthful(f)
    BY <2>1 DEF Truthful
  <2>3. air' = air \cup PageBurst(n) \/ air' = air
    BY <1>6 DEF TxTimer
  <2> QED
    BY <1>1, <2>2, <2>3, KeepsReports
<1> QED
  BY <1>2, <1>3, <1>4, <1>5, <1>6 DEF TimerStep

(* A summary that the gateway takes for a completion names a sensor that   *)
(* runs its version.                                                       *)
LEMMA CompletionTrue ==
  ASSUME IndInv, ReportInv, NEW f \in air, f.to = Gateway, f.msg.cmd = "summary",
         Consistent(Gateway, f.msg)
  PROVE  f.from \in UpToDate
<1>1. Truthful(f)
  BY DEF ReportInv, TruthfulSummaries
<1>2. f \in Frames /\ version \in [Nodes -> Versions] /\ updateVersion \in [Nodes -> Versions]
  BY DEF IndInv, TypeOK
<1>3. f.from \in Sensors /\ f.from \in Nodes /\ Gateway \in Nodes
  BY <1>1, <1>2 DEF Truthful, Frames, Nodes
<1>4. f.msg.version = version[Gateway] /\ f.msg.available = NPages
  BY GatewayWhole DEF Consistent
<1>5. version[Gateway] <= version[f.from]
  BY <1>1, <1>4 DEF Truthful
<1>6. version[f.from] <= updateVersion[f.from] /\ updateVersion[f.from] <= version[Gateway]
  <2>1. version[f.from] \in Nat /\ updateVersion[f.from] \in Nat
    BY <1>2, <1>3 DEF Versions
  <2> QED
    BY <1>3, <2>1 DEF IndInv, GatewayLeads, UpdateAtomic
<1>7. version[Gateway] \in Nat /\ version[f.from] \in Nat /\ updateVersion[f.from] \in Nat
  BY <1>2, <1>3 DEF Versions
<1> QED
  BY <1>3, <1>5, <1>6, <1>7 DEF UpToDate

(* Messages.                                                               *)
LEMMA ReceiveReports ==
  ASSUME IndInv, ReportInv, NEW f \in air, Receive(f.to, f)
  PROVE  ReportInv'
<1> DEFINE n == f.to
<1> USE DEF imageVars, fileVars, fsmVars, txVars, advVars, gwVars
<1>node. n \in Nodes
  BY DEF IndInv, TypeOK, Frames
<1>from. summaryFrom \in [Nodes -> Nodes \cup {NoNode}] /\ Gateway \in Nodes
  BY DEF IndInv, TypeOK, Nodes
<1>1. CASE RecvRequest(n, f) \/ IgnorePacket(n, f) \/ GarbledPacket(n, f) \/ StorePacket(n, f)
             \/ RecvProfile(n, f)
  <2>1. UNCHANGED <<version, summaryFrom, events, reported>> /\ air' = air \ {f}
    BY <1>1 DEF RecvRequest, IgnorePacket, GarbledPacket, StorePacket, RecvProfile
  <2> QED
    BY <2>1, KeepsReports
<1>2. CASE RecvSummary(n, f)
  <2>1. /\ f.msg.cmd = "summary" /\ air' = air \ {f} /\ UNCHANGED <<version, reported>>
        /\ PostEvent(n, f)
        /\ summaryFrom' = [summaryFrom EXCEPT ![n] =
             IF Answers(n, f.msg) \/ (n = Gateway /\ Consistent(n, f.msg)) THEN f.from ELSE @]
    BY <1>2 DEF RecvSummary, Hears, PostEvent
  <2>2. TruthfulSummaries' /\ (reported \subseteq UpToDate)' /\ UpToDate' = UpToDate
    BY <2>1 DEF ReportInv, TruthfulSummaries, Truthful, UpToDate
  <2>3. PointerUpToDate'
    <3>1. CASE n = Gateway /\ Consistent(n, f.msg)
      <4>1. f.from \in UpToDate
        BY <2>1, <3>1, CompletionTrue
      <4>2. summaryFrom'[Gateway] = f.from
        BY <1>from, <2>1, <3>1
      <4> QED
        BY <2>2, <4>1, <4>2 DEF PointerUpToDate
    <3>2. CASE ~(n = Gateway /\ Consistent(n, f.msg))
      <4>1. events' = events
        BY <2>1, <3>2 DEF PostEvent
      <4>2. summaryFrom'[Gateway] = summaryFrom[Gateway]
        BY <1>from, <2>1, <3>2, NodesAssumption DEF Answers
      <4> QED
        BY <2>2, <4>1, <4>2 DEF ReportInv, PointerUpToDate
    <3> QED
      BY <3>1, <3>2
  <2> QED
    BY <2>2, <2>3 DEF ReportInv
<1>3. CASE RecvSummaryWanted(n, f)
  <2>1. n # Gateway
    BY <1>3, GatewayWhole, SizesAssumption DEF RecvSummaryWanted, Wanted
  <2>2. /\ air' = air \ {f} /\ UNCHANGED <<version, events, reported>>
        /\ summaryFrom' = [summaryFrom EXCEPT ![n] = f.from]
    BY <1>3, <2>1 DEF RecvSummaryWanted, PostEvent
  <2>3. summaryFrom'[Gateway] = summaryFrom[Gateway]
    BY <1>from, <2>1, <2>2
  <2> QED
    BY <2>2, <2>3
    DEF ReportInv, TruthfulSummaries, Truthful, PointerUpToDate, UpToDate
<1>4. CASE CompletePage(n, f)
  <2>1. n # Gateway
    <3>1. f.msg.pagenum \in Pages
      BY <1>4 DEF CompletePage, Hears, IndInv, TypeOK, Frames, Messages, PacketMsg, SummaryMsg,
                  RequestMsg, ProfileMsg
    <3> QED
      BY <1>4, <3>1, GatewayWhole DEF CompletePage, Takes
  <2> DEFINE m == f.msg
             last == m.pagenum = NPages - 1
             done == complete[n] \cup {m.pagenum}
  <2>2. /\ version' = [version EXCEPT ![n] = IF last THEN updateVersion[n] ELSE @]
        /\ air' = (air \ {f}) \cup (IF last THEN Advertisement(n, done) ELSE {})
        /\ UNCHANGED <<summaryFrom, events, reported>>
        /\ m.pagenum \notin complete[n] /\ m.pagenum = rxPage[n]
    BY <1>4 DEF CompletePage, Takes
  <2>3. version \in [Nodes -> Versions] /\ updateVersion \in [Nodes -> Versions]
    BY DEF IndInv, TypeOK
  <2>4. version[n] # updateVersion[n] /\ version[n] < updateVersion[n]
        /\ updateVersion[n] <= version[Gateway]
    <3>1. UpdateAtomic /\ GatewayLeads
      BY DEF IndInv
    <3>2. version[n] # updateVersion[n]
      <4>1. f.msg.pagenum \in Pages
        BY <1>4 DEF CompletePage, Hears, IndInv, TypeOK, Frames, Messages, PacketMsg, SummaryMsg,
                    RequestMsg, ProfileMsg
      <4> QED
        BY <1>node, <2>2, <3>1, <4>1 DEF UpdateAtomic
    <3> QED
      BY <1>node, <3>1, <3>2 DEF UpdateAtomic, GatewayLeads
  <2>5. /\ \A k \in Nodes : version[k] <= version'[k]
        /\ version'[Gateway] = version[Gateway]
        /\ \A k \in UpToDate : version'[k] = version[k]
        /\ last => version'[n] = updateVersion[n]
    <3>1. version[n] \in Nat /\ updateVersion[n] \in Nat /\ version[Gateway] \in Nat
      BY <1>node, <1>from, <2>3 DEF Versions
    <3>2. n \notin UpToDate
      BY <2>4, <3>1 DEF UpToDate
    <3> QED
      BY <1>node, <1>from, <2>1, <2>2, <2>3, <2>4, <3>1, <3>2 DEF Versions, UpToDate, Nodes
  <2>6. UpToDate \subseteq UpToDate'
    BY <2>5 DEF UpToDate
  <2>7. TruthfulSummaries'
    <3> SUFFICES ASSUME NEW g \in air' PROVE Truthful(g)'
      BY DEF TruthfulSummaries
    <3>1. CASE g \in air
      <4>1. Truthful(g) /\ g \in Frames
        BY <3>1 DEF ReportInv, TruthfulSummaries, IndInv, TypeOK
      <4>2. version[g.from] <= version'[g.from]
        BY <2>5, <4>1 DEF Frames
      <4>3. version[g.from] \in Nat /\ version'[g.from] \in Nat
        BY <1>node, <2>2, <2>3, <4>1 DEF Frames, Versions
      <4>4. g.msg.cmd = "summary" => g.msg.version \in Nat
        BY <4>1 DEF Frames, Messages, SummaryMsg, RequestMsg, PacketMsg, ProfileMsg, Versions
      <4> QED
        BY <4>1, <4>2, <4>3, <4>4 DEF Truthful
    <3>2. CASE g \notin air
      <4>1. last /\ g \in Advertisement(n, done)
        BY <2>2, <3>2
      <4>2. updateVersion[n] <= version'[n]
        BY <1>node, <2>3, <2>5, <4>1 DEF Versions
      <4> QED
        BY <1>node, <4>1, <4>2, AdvertisesTruth
    <3> QED
      BY <3>1, <3>2
  <2> QED
    BY <2>2, <2>6, <2>7 DEF ReportInv, PointerUpToDate
<1> QED
  BY <1>1, <1>2, <1>3, <1>4 DEF Receive, RecvPacket

(* Every step keeps the reports true.                                      *)
LEMMA ReportsStep ==
  ASSUME ~Reboots, IndInv, ReportInv, [Next]_vars
  PROVE  ReportInv'
<1> USE DEF imageVars, fileVars, fsmVars, txVars, advVars, gwVars
<1>1. CASE \E f \in air : Lose(f)
  BY <1>1, KeepsReports DEF Lose
<1>2. CASE \E n \in Sensors : PollUpdate(n)
  BY <1>2, KeepsReports DEF PollUpdate
<1>3. CASE GatewayReport
  BY <1>3 DEF GatewayReport, ReportInv, TruthfulSummaries, Truthful, PointerUpToDate, UpToDate,
              IndInv, TypeOK
<1>4. CASE Reflash
  <2>1. events' = 0 /\ reported' = {} /\ air' = {f \in air : f.from # Gateway}
    BY <1>4 DEF Reflash, Restart
  <2>2. \A n \in Nodes \ {Gateway} : version'[n] = version[n]
    BY <1>4 DEF Reflash, Restart, IndInv, TypeOK
  <2>3. \A f \in air' : Truthful(f)'
    BY <2>1, <2>2 DEF ReportInv, TruthfulSummaries, Truthful, IndInv, TypeOK, Frames
  <2> QED
    BY <2>1, <2>3 DEF ReportInv, TruthfulSummaries, PointerUpToDate
<1>5. CASE UNCHANGED vars
  BY <1>5, KeepsReports DEF vars
<1>6. CASE \E n \in Sensors : Reboot(n)
  BY <1>6 DEF Reboot
<1> QED
  BY <1>1, <1>2, <1>3, <1>4, <1>5, <1>6, TimersReport, ReceiveReports DEF Next

(* The gateway reports only sensors that run its version, also when        *)
(* reports wait in the event queue while other summaries arrive, and also  *)
(* after it was programmed with a newer image.                             *)
THEOREM ReportsSound == ASSUME ~Reboots PROVE Spec => []ReportSound
<1>1. Init => ReportInv
  BY DEF Init, ReportInv, TruthfulSummaries, PointerUpToDate
<1>2. IndInv /\ ReportInv /\ [Next]_vars => ReportInv'
  BY ReportsStep
<1>3. ReportInv => ReportSound
  BY DEF ReportInv, UpToDate, ReportSound
<1> QED
  BY <1>1, <1>2, <1>3, Invariance, PTL DEF Spec
=============================================================================
