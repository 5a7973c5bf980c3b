------------------------------- MODULE Deluge -------------------------------
(***************************************************************************)
(* Over-the-air dissemination of a code image from the gateway to the      *)
(* sensor nodes: contiki-2.7/aerialnet/OTA_RX/deluge_rx.c on the sensors,  *)
(* contiki-2.7/aerialnet/ota_gateway/deluge_tx.c on the gateway.           *)
(*                                                                         *)
(* An image is a file of NPages pages of NPkt packets.  A node advertises  *)
(* a summary (the version it is after and its number of leading complete   *)
(* pages).  A gateway that hears an older version broadcasts its profile   *)
(* (the version of each page); a sensor that hears a newer profile marks   *)
(* its pages missing and requests them one page at a time.                 *)
(*                                                                         *)
(* Both programs run in one Contiki thread: a packet handler or a timer    *)
(* callback runs to completion, and is one action here.                    *)
(***************************************************************************)
EXTENDS Integers, FiniteSets

CONSTANTS
  Gateway,      \* the node that runs deluge_tx.c
  Sensors,      \* the nodes that run deluge_rx.c
  NoNode,       \* the all-zero address a sensor holds before it hears a summary
  Links,        \* the pairs <<a, b>> such that b is in radio range of a
  NPages,       \* OBJECT_PAGE_COUNT (5 for the 1280-byte file)
  NPkt,         \* N_PKT, packets per page (4)
  MaxVersion,   \* bound: how often the gateway's IMAGE_VERSION is raised
  QueueBufs,    \* bound: frames a node's MAC can hold (QUEUEBUF_NUM)
  MaxEvents,    \* bound: posted events the gateway process can have pending
  Garbles,      \* BOOLEAN: may a packet reach handle_packet damaged?
  Reboots       \* BOOLEAN: may a sensor reboot?

ASSUME NodesAssumption   == Gateway \notin Sensors /\ NoNode \notin Sensors \cup {Gateway}
ASSUME LinksAssumption ==
  Links \subseteq (Sensors \cup {Gateway}) \X (Sensors \cup {Gateway})
ASSUME SizesAssumption   == NPages \in Nat \ {0} /\ NPkt \in 1..8
ASSUME VersionAssumption == MaxVersion \in Nat \ {0}
ASSUME BoundsAssumption  == QueueBufs \in Nat /\ MaxEvents \in Nat
ASSUME SwitchAssumption  == Garbles \in BOOLEAN /\ Reboots \in BOOLEAN

Nodes    == Sensors \cup {Gateway}
Pages    == 0..NPages-1
Packets  == 0..NPkt-1
Bits     == 0..7                  \* request_set and tx_set are uint8_t
Versions == 0..MaxVersion
States   == {"maintain", "rx", "tx"}
Timers   == {"rx", "tx", "summary", "profile"}
CONST_K  == 1

(* What one packet of a page holds: the bytes of packet k of page p in     *)
(* image v, or bytes damaged on the way, and whether a loader has written  *)
(* addresses of its node into them.  Version 0 stands for the blank file a *)
(* sensor creates at boot.                                                 *)
Image   == Versions \X Pages \X Packets \X BOOLEAN
Garbage == <<-1, -1, -1, FALSE>>
Original(v, p, k) == <<v, p, k, FALSE>>
Relocated(data)   == <<data[1], data[2], data[3], TRUE>>
Payload == Image \cup {Garbage, Relocated(Garbage)}
ImageFile(v) == [p \in Pages |-> [k \in Packets |-> Original(v, p, k)]]
(* The packet as it was built, or with addresses in it.                    *)
Copies(v, p, k) == {Original(v, p, k), Relocated(Original(v, p, k))}

VARIABLES
  version,        \* version[n]: the image n runs, current_object.version
  updateVersion,  \* update_version: the image n is after
  pageVersion,    \* pages[p].version
  complete,       \* the pages with PAGE_COMPLETE set
  packetSet,      \* pages[p].packet_set
  rxPage,         \* current_rx_page
  buffer,         \* current_page: one payload per packet
  flash,          \* the file on the node's flash
  updateState,    \* update_state: a new image waits for check_update
  state,          \* deluge_state
  timers,         \* the ctimers that are set
  txPage,         \* current_tx_page
  txSet,          \* tx_set
  recvAdv,        \* recv_adv, counted up to CONST_K
  bcastProfile,   \* broadcast_profile
  summaryFrom,    \* summary_from
  air,            \* the deliveries that can still happen
  events,         \* deluge_events posted to gateway_process and not yet run
  told,           \* history: the sensors whose completion the gateway heard
  reported        \* the sensors the gateway reported to the UAV

imageVars == <<version, updateVersion, pageVersion, complete, packetSet, rxPage>>
fileVars  == <<buffer, flash, updateState>>
fsmVars   == <<state, timers>>
txVars    == <<txPage, txSet>>
advVars   == <<recvAdv, bcastProfile>>
gwVars    == <<events, told, reported>>
vars == <<imageVars, fileVars, fsmVars, txVars, advVars, summaryFrom, air, gwVars>>
-----------------------------------------------------------------------------
(* Messages.  A frame of `air` is one delivery: the message, its sender    *)
(* and one node that can still hear it.  ContikiMAC repeats a frame until  *)
(* the receiver wakes up and drops repeated copies, so a node hears a      *)
(* frame at most once, and perhaps never.                                  *)
SummaryMsg == [cmd: {"summary"}, version: Versions, available: 0..NPages]
RequestMsg == [cmd: {"request"}, version: Versions, pagenum: 0..NPages, set: SUBSET Bits]
PacketMsg  == [cmd: {"packet"}, version: Versions, pagenum: Pages, num: Packets, data: Payload]
ProfileMsg == [cmd: {"profile"}, version: Versions, vector: [Pages -> Versions]]
Messages   == SummaryMsg \cup RequestMsg \cup PacketMsg \cup ProfileMsg
Frames     == [from: Nodes, to: Nodes, msg: Messages]

Queue(n) == {f.msg : f \in {g \in air : g.from = n}}
Room(n)  == QueueBufs - Cardinality(Queue(n))

Neighbours(n) == {t \in Nodes \ {n} : <<n, t>> \in Links}
Broadcast(n, msgs)  == [from: {n}, to: Neighbours(n), msg: msgs]
(* unicast_recv drops a frame that is not addressed to the node itself.    *)
Unicast(n, to, msg) == [from: {n}, to: Neighbours(n) \cap {to}, msg: {msg}]
-----------------------------------------------------------------------------
(* highest_available_page: the number of leading complete pages.           *)
FirstMissingMut(C) == Cardinality(C) + 1  \* mutation: counts one page too many
FirstMissing(C) ==
  CHOOSE i \in 0..NPages : (\A p \in 0..i-1 : p \in C) /\ (i = NPages \/ i \notin C)
Available(n) == FirstMissing(complete[n])

(* transition: leaving a state stops the timers that belong to it.         *)
StateTimers(s) == CASE s = "maintain" -> {"summary", "profile"}
                    [] s = "rx"       -> {"rx"}
                    [] s = "tx"       -> {"tx"}
Stopped(old, new) == IF old = new THEN {} ELSE StateTimers(old)

(* Go from state[n] to s; `set` are the timers armed at that moment and    *)
(* `armed` those the handler arms afterwards.                              *)
Transition(n, s, set, armed) ==
  /\ state' = [state EXCEPT ![n] = s]
  /\ timers' = [timers EXCEPT ![n] = (set \ Stopped(state[n], s)) \cup armed]

SummaryOf(n, C) ==
  [cmd |-> "summary", version |-> updateVersion[n], available |-> FirstMissing(C)]
RequestOfMut(n, v) ==                     \* mutation: asks for what it has, ~ forgotten
  [cmd |-> "request", version |-> v, pagenum |-> rxPage[n],
   set |-> IF rxPage[n] \in Pages THEN packetSet[n][rxPage[n]] ELSE Bits]
RequestOf(n, v) ==
  [cmd |-> "request", version |-> v, pagenum |-> rxPage[n],
   set |-> IF rxPage[n] \in Pages THEN Bits \ packetSet[n][rxPage[n]] ELSE Bits]
PacketOf(n, p, k) ==
  [cmd |-> "packet", version |-> pageVersion[n][p], pagenum |-> p, num |-> k,
   data |-> flash[n][p][k]]
ProfileOf(n) == [cmd |-> "profile", version |-> version[n], vector |-> pageVersion[n]]

Sends(n, deliveries) == IF Room(n) > 0 THEN deliveries ELSE {}

(* advertise_summary is silent once a node heard its own summary this round. *)
Suppressed(n) == recvAdv[n] >= CONST_K
Advertisement(n, C) ==
  IF Suppressed(n) THEN {} ELSE Sends(n, Broadcast(n, {SummaryOf(n, C)}))
-----------------------------------------------------------------------------
Init ==
  LET v == [n \in Nodes |-> IF n = Gateway THEN 1 ELSE 0] IN
  /\ version = v
  /\ updateVersion = v
  /\ pageVersion = [n \in Nodes |-> [p \in Pages |-> v[n]]]
  /\ complete = [n \in Nodes |-> Pages]
  /\ packetSet = [n \in Nodes |-> [p \in Pages |-> Packets]]
  /\ rxPage = [n \in Nodes |-> 0]
  /\ buffer = [n \in Nodes |-> [k \in Packets |-> Original(0, 0, k)]]
  /\ flash = [n \in Nodes |-> ImageFile(v[n])]
  /\ updateState = [n \in Nodes |-> FALSE]
  /\ state = [n \in Nodes |-> "maintain"]
  /\ timers = [n \in Nodes |-> {}]
  /\ txPage = [n \in Nodes |-> 0]
  /\ txSet = [n \in Nodes |-> {}]
  /\ recvAdv = [n \in Nodes |-> 0]
  /\ bcastProfile = [n \in Nodes |-> FALSE]
  /\ summaryFrom = [n \in Nodes |-> NoNode]
  /\ air = {}
  /\ events = 0 /\ told = {} /\ reported = {}

(* The radio: a frame its receiver does not hear.                          *)
Lose(f) ==
  /\ f \in air
  /\ air' = air \ {f}
  /\ UNCHANGED <<imageVars, fileVars, fsmVars, txVars, advVars, summaryFrom, gwVars>>

(* A node takes a frame off the air and runs the handler of its command.   *)
Hears(n, f, cmd) == f \in air /\ f.to = n /\ f.msg.cmd = cmd

(* deluge_process starts a round.  Only the gateway arms timers in it, at  *)
(* most T_LOW - 1 seconds ahead of a round of T_LOW seconds, so they have  *)
(* run or been stopped before the next round.                              *)
Round(n) ==
  /\ n = Gateway => timers[n] \cap {"summary", "profile"} = {}
  /\ recvAdv' = [recvAdv EXCEPT ![n] = 0]
  /\ timers' = [timers EXCEPT ![n] = IF n = Gateway THEN @ \cup {"summary", "profile"} ELSE @]
  /\ UNCHANGED <<imageVars, fileVars, state, txVars, bcastProfile, summaryFrom, air, gwVars>>

(* summary_timer runs advertise_summary.                                   *)
SummaryTimer(n) ==
  /\ "summary" \in timers[n]
  /\ timers' = [timers EXCEPT ![n] = @ \ {"summary"}]
  /\ air' = air \cup Advertisement(n, complete[n])
  /\ UNCHANGED <<imageVars, fileVars, state, txVars, advVars, summaryFrom, gwVars>>

(* profile_timer runs send_profile.                                        *)
ProfileTimer(n) ==
  LET send == bcastProfile[n] /\ recvAdv[n] < CONST_K IN
  /\ "profile" \in timers[n]
  /\ timers' = [timers EXCEPT ![n] = @ \ {"profile"}]
  /\ bcastProfile' = [bcastProfile EXCEPT ![n] = @ /\ ~send]
  /\ air' = air \cup (IF send THEN Sends(n, Broadcast(n, {ProfileOf(n)})) ELSE {})
  /\ UNCHANGED <<imageVars, fileVars, state, txVars, recvAdv, summaryFrom, gwVars>>

(* rx_timer runs send_request; CONST_LAMBDA is 1, so every request ends    *)
(* the RX state.  With rxPage = NPages the code reads the version past the *)
(* end of pages[]: any value.                                              *)
RequestTimerMut(n) ==                     \* mutation: the state is left to a retry
  /\ "rx" \in timers[n]
  /\ \E v \in Versions :
       /\ rxPage[n] \in Pages => v = pageVersion[n][rxPage[n]]
       /\ air' = air \cup Sends(n, Unicast(n, summaryFrom[n], RequestOf(n, v)))
  /\ Transition(n, state[n], timers[n] \ {"rx"}, {})
  /\ UNCHANGED <<imageVars, fileVars, txVars, advVars, summaryFrom, gwVars>>
RequestTimer(n) ==
  /\ "rx" \in timers[n]
  /\ \E v \in Versions :
       /\ rxPage[n] \in Pages => v = pageVersion[n][rxPage[n]]
       /\ air' = air \cup Sends(n, Unicast(n, summaryFrom[n], RequestOf(n, v)))
  /\ Transition(n, "maintain", timers[n] \ {"rx"}, {})
  /\ UNCHANGED <<imageVars, fileVars, txVars, advVars, summaryFrom, gwVars>>

(* handle_summary.  A consistent summary counts towards suppression; an    *)
(* older one asks for the profile.                                         *)
Consistent(n, m) == m.version = version[n] /\ m.available = Available(n)
(* A sensor without an update in progress answers a newer summary with its *)
(* own, so that the advertiser learns it needs the profile.                *)
Answers(n, m) == n \in Sensors /\ updateVersion[n] = version[n] /\ m.version > version[n]
(* Deluge M.5: the sender has pages that n is after.                       *)
WantedMut(n, m) ==                        \* mutation: off by one, never the last page
  m.version = updateVersion[n] /\ m.available \in Available(n)+2..NPages
Wanted(n, m) == m.version = updateVersion[n] /\ m.available \in Available(n)+1..NPages

NoteSummary(n, m) ==
  /\ recvAdv' = [recvAdv EXCEPT ![n] = IF Consistent(n, m) THEN CONST_K ELSE @]
  /\ bcastProfile' = [bcastProfile EXCEPT ![n] = @ \/ m.version < version[n]]

(* deluge_tx.c posts deluge_event with a pointer to the one summary_from;  *)
(* process_post drops the event when the queue is full.                    *)
PostEventMut(n, f) ==                     \* mutation: posts for every summary
  LET done == n = Gateway IN
  /\ told' = IF done THEN told \cup {f.from} ELSE told
  /\ events' = IF done /\ events < MaxEvents THEN events + 1 ELSE events
  /\ UNCHANGED reported
PostEvent(n, f) ==
  LET done == n = Gateway /\ Consistent(n, f.msg) IN
  /\ told' = IF done THEN told \cup {f.from} ELSE told
  /\ events' = IF done /\ events < MaxEvents THEN events + 1 ELSE events
  /\ UNCHANGED reported

(* Nothing to request, or the rate limit returned early (last_request and  *)
(* last_data are not modelled: the limit may hold whenever it is read).    *)
RecvSummary(n, f) ==
  /\ Hears(n, f, "summary")
  /\ NoteSummary(n, f.msg)
  /\ PostEvent(n, f)
  /\ timers' = [timers EXCEPT ![n] = IF Answers(n, f.msg) THEN @ \cup {"summary"} ELSE @]
  /\ summaryFrom' = [summaryFrom EXCEPT ![n] =
       IF Answers(n, f.msg) \/ (n = Gateway /\ Consistent(n, f.msg)) THEN f.from ELSE @]
  /\ air' = air \ {f}
  /\ UNCHANGED <<imageVars, fileVars, state, txVars>>

(* The sender has a page n is after: ask it for the page.                  *)
RecvSummaryWanted(n, f) ==
  /\ Hears(n, f, "summary")
  /\ Wanted(n, f.msg)
  /\ NoteSummary(n, f.msg)
  /\ PostEvent(n, f)
  /\ summaryFrom' = [summaryFrom EXCEPT ![n] = f.from]
  /\ Transition(n, "rx", timers[n], {"rx"})
  /\ air' = air \ {f}
  /\ UNCHANGED <<imageVars, fileVars, txVars>>

(* handle_request, Deluge M.6 and T.1.  The bound is <=, one more than the *)
(* pages the node has.                                                     *)
Serves(n, m) ==
  m.pagenum \in Pages /\ m.version = version[n] /\ m.pagenum <= Available(n)

RecvRequest(n, f) ==
  LET m == f.msg IN
  /\ Hears(n, f, "request")
  /\ air' = air \ {f}
  /\ IF Serves(n, m)
     THEN /\ txSet' = [txSet EXCEPT ![n] = IF txPage[n] = m.pagenum THEN @ \cup m.set ELSE m.set]
          /\ txPage' = [txPage EXCEPT ![n] = m.pagenum]
          /\ Transition(n, "tx", timers[n], {"tx"})
     ELSE UNCHANGED <<fsmVars, txVars>>
  /\ UNCHANGED <<imageVars, fileVars, advVars, summaryFrom, gwVars>>

(* tx_timer runs tx_callback: send_page broadcasts the packets of txSet in *)
(* order, as many as the MAC has room for.                                 *)
PageBurst(n) ==
  LET wanted == txSet[n] \cap Packets
      sent   == {k \in wanted : Cardinality({j \in wanted : j <= k}) <= Room(n)}
  IN  Broadcast(n, {PacketOf(n, txPage[n], k) : k \in sent})

TxTimer(n) ==
  /\ "tx" \in timers[n]
  /\ IF txPage[n] >= 0 /\ txSet[n] # {}
     THEN /\ air' = air \cup PageBurst(n)
          /\ txSet' = [txSet EXCEPT ![n] = {}]
          /\ txPage' = [txPage EXCEPT ![n] = -1]
          /\ Transition(n, "maintain", timers[n] \ {"tx"}, {})
     ELSE /\ timers' = [timers EXCEPT ![n] = @ \ {"tx"}]
          /\ UNCHANGED <<state, txVars, air>>
  /\ UNCHANGED <<imageVars, fileVars, advVars, summaryFrom, gwVars>>

(* handle_packet.  A packet counts only for the page n is after, in the    *)
(* version it expects there.                                               *)
TakesMut(n, m) ==                         \* mutation: whichever page it is missing
  m.pagenum \notin complete[n] /\ m.version = pageVersion[n][m.pagenum]
Takes(n, m) ==
  m.pagenum = rxPage[n] /\ m.pagenum \notin complete[n] /\ m.version = pageVersion[n][m.pagenum]
FilledMut(n, m) == 0..m.num               \* mutation: packets taken to come in order
Filled(n, m)   == packetSet[n][m.pagenum] \cup {m.num}
BufferedMut(n, m) ==                      \* mutation: the payload lands one slot late
  [buffer[n] EXCEPT ![(m.num + 1) % NPkt] = m.data]
Buffered(n, m) == [buffer[n] EXCEPT ![m.num] = m.data]

IgnorePacket(n, f) ==
  /\ Hears(n, f, "packet")
  /\ ~Takes(n, f.msg)
  /\ air' = air \ {f}
  /\ UNCHANGED <<imageVars, fileVars, fsmVars, txVars, advVars, summaryFrom, gwVars>>

(* The payload is copied to the page buffer before its CRC is checked, and *)
(* the copy stays when the check fails.                                    *)
GarbledPacket(n, f) ==
  /\ Garbles
  /\ Hears(n, f, "packet")
  /\ Takes(n, f.msg)
  /\ buffer' = [buffer EXCEPT ![n][f.msg.num] = Garbage]
  /\ air' = air \ {f}
  /\ UNCHANGED <<imageVars, flash, updateState, fsmVars, txVars, advVars, summaryFrom, gwVars>>

StorePacket(n, f) ==
  LET m == f.msg IN
  /\ Hears(n, f, "packet")
  /\ Takes(n, m)
  /\ Filled(n, m) # Packets
  /\ buffer' = [buffer EXCEPT ![n] = Buffered(n, m)]
  /\ packetSet' = [packetSet EXCEPT ![n][m.pagenum] = Filled(n, m)]
  /\ air' = air \ {f}
  /\ UNCHANGED <<version, updateVersion, pageVersion, complete, rxPage, flash, updateState,
                 fsmVars, txVars, advVars, summaryFrom, gwVars>>

(* The page's last packet: write the page; then request the next page, or, *)
(* with the last page, adopt the version, advertise it to the gateway and  *)
(* raise update_state.  The rx_timer is armed before the transition.       *)
CompletePage(n, f) ==
  LET m    == f.msg
      last == m.pagenum = NPages - 1
      done == complete[n] \cup {m.pagenum}
      mute == IF last /\ Suppressed(n) THEN {"summary"} ELSE {}
      next == IF last THEN {} ELSE {"rx"}
  IN
  /\ Hears(n, f, "packet")
  /\ Takes(n, m)
  /\ Filled(n, m) = Packets
  /\ buffer' = [buffer EXCEPT ![n] = Buffered(n, m)]
  /\ packetSet' = [packetSet EXCEPT ![n][m.pagenum] = Filled(n, m)]
  /\ flash' = [flash EXCEPT ![n][m.pagenum] = Buffered(n, m)]
  /\ complete' = [complete EXCEPT ![n] = done]
  /\ rxPage' = [rxPage EXCEPT ![n] = m.pagenum + 1]
  /\ version' = [version EXCEPT ![n] = IF last THEN updateVersion[n] ELSE @]
  /\ updateState' = [updateState EXCEPT ![n] = @ \/ last]
  /\ air' = (air \ {f}) \cup (IF last THEN Advertisement(n, done) ELSE {})
  /\ Transition(n, "maintain", (timers[n] \ mute) \cup next, {})
  /\ UNCHANGED <<updateVersion, pageVersion, txVars, advVars, summaryFrom, gwVars>>

(* handle_profile.  command_dispatcher wants npages * version_vector[0]    *)
(* bytes after the header, where the sender appended npages.               *)
LongEnough(m) == NPages >= NPages * m.vector[0]
NewProfile(n, m) == LongEnough(m) /\ m.version > updateVersion[n]
StaleMut(n, m) ==                         \* mutation: the loop stops one page early
  {p \in 0..NPages-2 : m.vector[p] > pageVersion[n][p]}
Stale(n, m) == {p \in Pages : m.vector[p] > pageVersion[n][p]}

RecvProfile(n, f) ==
  LET m == f.msg
      old == Stale(n, m)
      left == complete[n] \ old
  IN
  /\ Hears(n, f, "profile")
  /\ air' = air \ {f}
  /\ IF NewProfile(n, m)
     THEN /\ txSet' = [txSet EXCEPT ![n] = {}]
          /\ packetSet' = [packetSet EXCEPT ![n] =
               [p \in Pages |-> IF p \in old THEN {} ELSE @[p]]]
          /\ complete' = [complete EXCEPT ![n] = left]
          /\ pageVersion' = [pageVersion EXCEPT ![n] =
               [p \in Pages |-> IF p \in old THEN m.vector[p] ELSE @[p]]]
          /\ rxPage' = [rxPage EXCEPT ![n] = FirstMissing(left)]
          /\ updateVersion' = [updateVersion EXCEPT ![n] = m.version]
          /\ Transition(n, "rx", timers[n], {"rx"})
     ELSE UNCHANGED <<imageVars, fsmVars, txSet>>
  /\ UNCHANGED <<version, fileVars, txPage, advVars, summaryFrom, gwVars>>

(* gateway_process runs on a deluge_event and reports the address that the *)
(* event's pointer now holds.                                              *)
GatewayReport ==
  /\ events > 0
  /\ events' = events - 1
  /\ reported' = reported \cup {summaryFrom[Gateway]}
  /\ UNCHANGED <<imageVars, fileVars, fsmVars, txVars, advVars, summaryFrom, air, told>>

(* ota_test_process polls check_update, which clears the flag, and calls   *)
(* codeload (OtaLoad models its tries and its outcomes).  The loader links *)
(* the image inside the file: it writes addresses into the first pages, as *)
(* far as it gets, and they stay complete and are served as they are.      *)
Linked(file, count) ==
  [p \in Pages |-> IF p < count THEN [k \in Packets |-> Relocated(file[p][k])] ELSE file[p]]
PollUpdate(n) ==
  /\ updateState[n]
  /\ updateState' = [updateState EXCEPT ![n] = FALSE]
  /\ \E count \in 0..NPages : flash' = [flash EXCEPT ![n] = Linked(@, count)]
  /\ UNCHANGED <<imageVars, buffer, fsmVars, txVars, advVars, summaryFrom, air, gwVars>>

(* A node that starts in version v: RAM is cleared and the frames in its   *)
(* MAC are gone.                                                           *)
Restart(n, v) ==
  /\ version' = [version EXCEPT ![n] = v]
  /\ updateVersion' = [updateVersion EXCEPT ![n] = v]
  /\ pageVersion' = [pageVersion EXCEPT ![n] = [p \in Pages |-> v]]
  /\ complete' = [complete EXCEPT ![n] = Pages]
  /\ packetSet' = [packetSet EXCEPT ![n] = [p \in Pages |-> Packets]]
  /\ rxPage' = [rxPage EXCEPT ![n] = 0]
  /\ buffer' = [buffer EXCEPT ![n] = [k \in Packets |-> Original(0, 0, k)]]
  /\ flash' = [flash EXCEPT ![n] = ImageFile(v)]
  /\ updateState' = [updateState EXCEPT ![n] = FALSE]
  /\ state' = [state EXCEPT ![n] = "maintain"]
  /\ timers' = [timers EXCEPT ![n] = {}]
  /\ txPage' = [txPage EXCEPT ![n] = 0]
  /\ txSet' = [txSet EXCEPT ![n] = {}]
  /\ recvAdv' = [recvAdv EXCEPT ![n] = 0]
  /\ bcastProfile' = [bcastProfile EXCEPT ![n] = FALSE]
  /\ summaryFrom' = [summaryFrom EXCEPT ![n] = NoNode]
  /\ air' = {f \in air : f.from # n}

(* A sensor formats its flash at boot and disseminates a blank file as     *)
(* version 0.                                                              *)
Reboot(n) ==
  /\ Reboots
  /\ Restart(n, 0)
  /\ UNCHANGED gwVars

(* The gateway is programmed with a newer image.                           *)
Reflash ==
  /\ version[Gateway] < MaxVersion
  /\ Restart(Gateway, version[Gateway] + 1)
  /\ events' = 0 /\ told' = {} /\ reported' = {}

RecvPacket(n, f) ==
  IgnorePacket(n, f) \/ GarbledPacket(n, f) \/ StorePacket(n, f) \/ CompletePage(n, f)

Receive(n, f) ==
  \/ RecvSummary(n, f) \/ RecvSummaryWanted(n, f)
  \/ RecvRequest(n, f) \/ RecvPacket(n, f) \/ RecvProfile(n, f)

TimerStep(n) ==
  Round(n) \/ SummaryTimer(n) \/ ProfileTimer(n) \/ RequestTimer(n) \/ TxTimer(n)

Next ==
  \/ \E f \in air : Lose(f) \/ Receive(f.to, f)
  \/ \E n \in Nodes : TimerStep(n)
  \/ \E n \in Sensors : PollUpdate(n) \/ Reboot(n)
  \/ GatewayReport
  \/ Reflash

Spec == Init /\ [][Next]_vars

(* Fairness.  Timers expire and processes get the processor: weak.  The    *)
(* MAC gives every frame up after a bounded number of tries: weak.  The    *)
(* radio loses frames but not all of a kind: a message that is sent again  *)
(* and again is heard in the end: strong, per receiver, sender and kind,   *)
(* for packets per packet number; the pages go to sensors only.  The rate  *)
(* limit of handle_summary ends when the node has been silent for a round: *)
(* strong for RecvSummaryWanted.                                           *)
Hearing(n, s) ==
  /\ SF_vars(\E f \in air : f.from = s /\ RecvSummary(n, f))
  /\ SF_vars(\E f \in air : f.from = s /\ RecvRequest(n, f))
HearingPages(n, s) ==
  /\ SF_vars(\E f \in air : f.from = s /\ RecvSummaryWanted(n, f))
  /\ SF_vars(\E f \in air : f.from = s /\ RecvProfile(n, f))
  /\ \A k \in Packets :
       SF_vars(\E f \in air : /\ f.from = s /\ f.msg.cmd = "packet" /\ f.msg.num = k
                              /\ RecvPacket(n, f))

Fairness ==
  /\ \A n \in Nodes :
       /\ WF_vars(Round(n))
       /\ WF_vars(SummaryTimer(n)) /\ WF_vars(ProfileTimer(n))
       /\ WF_vars(RequestTimer(n)) /\ WF_vars(TxTimer(n))
       /\ WF_vars(\E f \in air : f.from = n /\ Lose(f))
  /\ \A n \in Nodes : \A s \in Nodes \ {n} : Hearing(n, s)
  /\ \A n \in Sensors : \A s \in Nodes \ {n} : HearingPages(n, s)
  /\ WF_vars(GatewayReport)
  /\ \A n \in Sensors : WF_vars(PollUpdate(n))

FairSpec == Spec /\ Fairness
-----------------------------------------------------------------------------
(* Properties.                                                             *)

(* Every variable keeps the type its C declaration and its use give it.    *)
TypeOK ==
  /\ version \in [Nodes -> Versions]
  /\ updateVersion \in [Nodes -> Versions]
  /\ pageVersion \in [Nodes -> [Pages -> Versions]]
  /\ complete \in [Nodes -> SUBSET Pages]
  /\ packetSet \in [Nodes -> [Pages -> SUBSET Packets]]
  /\ rxPage \in [Nodes -> 0..NPages]
  /\ buffer \in [Nodes -> [Packets -> Payload]]
  /\ flash \in [Nodes -> [Pages -> [Packets -> Payload]]]
  /\ updateState \in [Nodes -> BOOLEAN]
  /\ state \in [Nodes -> States]
  /\ timers \in [Nodes -> SUBSET Timers]
  /\ txPage \in [Nodes -> Pages \cup {-1}]
  /\ txSet \in [Nodes -> SUBSET Bits]
  /\ recvAdv \in [Nodes -> 0..CONST_K]
  /\ bcastProfile \in [Nodes -> BOOLEAN]
  /\ summaryFrom \in [Nodes -> Nodes \cup {NoNode}]
  /\ air \subseteq Frames
  /\ events \in 0..MaxEvents
  /\ told \subseteq Nodes
  /\ reported \subseteq Nodes \cup {NoNode}

(* The version a node runs changes only with all its pages: between        *)
(* updates every page is complete in that version; during one, every page  *)
(* belongs to the newer image and exactly the pages before current_rx_page *)
(* are complete.                                                           *)
UpdateAtomic ==
  \A n \in Nodes :
    IF version[n] = updateVersion[n]
    THEN complete[n] = Pages /\ pageVersion[n] = [p \in Pages |-> version[n]]
    ELSE /\ version[n] < updateVersion[n]
         /\ pageVersion[n] = [p \in Pages |-> updateVersion[n]]
         /\ rxPage[n] < NPages
         /\ complete[n] = 0..rxPage[n]-1

(* A page flagged PAGE_COMPLETE holds on flash the data of its version,    *)
(* whatever order, loss or mixture of senders brought it, except for the   *)
(* addresses that a loader has written into it, the node's own or that of  *)
(* a node it came from.                                                    *)
ImageIntegrity ==
  \A n \in Nodes : \A p \in complete[n] : \A k \in Packets :
    flash[n][p][k] \in Copies(pageVersion[n][p], p, k)

(* A node is never left in RX or TX without the timer that ends it: in RX  *)
(* the request is due, in TX a page is queued and its timer is due.        *)
NoStuckState ==
  \A n \in Nodes :
    /\ state[n] = "rx" => "rx" \in timers[n]
    /\ state[n] = "tx" => "tx" \in timers[n] /\ txSet[n] # {} /\ txPage[n] >= 0

(* While a load is pending, the file that codeload will read is one whole  *)
(* image, of the version the node says it runs (with the addresses of the  *)
(* loaders of the nodes it came from, which its own relocation overwrites).*)
PendingImageWhole ==
  \A n \in Nodes : updateState[n] =>
    \A p \in Pages : \A k \in Packets : flash[n][p][k] \in Copies(version[n], p, k)

(* A sensor sends the packets of an image as they were built.              *)
SentAsBuilt ==
  \A f \in air : f.msg.cmd = "packet" =>
    f.msg.data = Original(f.msg.version, f.msg.pagenum, f.msg.num)

(* Deluge is an image transfer: a sensor's file goes page by page, whole   *)
(* and in order, from the image it runs to a newer one of the gateway's,   *)
(* and is left alone until it is loaded.  The loader's addresses do not    *)
(* count: a page with addresses in it is still a page of its image.        *)
PageImage(page, p) ==
  LET v == page[0][1] IN IF \A k \in Packets : page[k] \in Copies(v, p, k) THEN v ELSE -1
FileOf(n) == [p \in Pages |-> PageImage(flash[n][p], p)]
Transfer == INSTANCE ImageTransfer WITH
  latest    <- version[Gateway],
  installed <- [n \in Sensors |-> version[n]],
  target    <- [n \in Sensors |-> updateVersion[n]],
  have      <- [n \in Sensors |-> Available(n)],
  file      <- [n \in Sensors |-> FileOf(n)],
  pending   <- [n \in Sensors |-> updateState[n]]
KeepsTransfer == Transfer!Spec

(* The gateway reports to the UAV only sensors that run its version, also  *)
(* when reports wait in the event queue while other summaries arrive.      *)
ReportSound == \A n \in reported : n \in Sensors /\ version[n] = version[Gateway]

(* A due request names a page of the object.                               *)
NoWildRequest == \A n \in Nodes : "rx" \in timers[n] => rxPage[n] < NPages

(* A due request has an address to go to.                                  *)
RightAddress == \A n \in Nodes : "rx" \in timers[n] => summaryFrom[n] # NoNode

(* Once every posted event has run, every sensor whose completion the      *)
(* gateway heard has been reported.                                        *)
EveryArrivalReported == events = 0 => told \subseteq reported

(* A sensor that adopts a new version tells the gateway in the same step.  *)
CompletionTold ==
  [][\A n \in Sensors : version'[n] > version[n] =>
       \E f \in air' : f.from = n /\ f.msg.cmd = "summary" /\ f.msg.version = version'[n]]_vars

(* A sensor in range of the gateway ends up with the gateway's version,    *)
(* whatever is lost on the way, and with nothing left to load.             *)
Converges ==
  \A n \in Sensors : <>[](version[n] = version[Gateway] /\ ~updateState[n])

(* An update that a sensor has begun comes to an end: the sensor has every *)
(* page of the image it is after, or gives the update up.                  *)
UpdateEnds == \A n \in Sensors : version[n] # updateVersion[n] ~> version[n] = updateVersion[n]

(* A sensor with no update in progress that is behind the gateway's last   *)
(* image comes to accept the profile of that image.                        *)
TakesLastImage ==
  \A n \in Sensors :
    (version[n] = updateVersion[n] /\ version[n] < MaxVersion /\ version[Gateway] = MaxVersion)
      ~> updateVersion[n] = MaxVersion
-----------------------------------------------------------------------------
(* The inductive invariant of DelugeProofs: what else holds in every       *)
(* reachable state and carries the properties above from step to step.     *)

(* The gateway itself never updates, nobody is ahead of it, and only the   *)
(* gateway has a profile to send.                                          *)
GatewayLeads ==
  /\ version[Gateway] = updateVersion[Gateway]
  /\ \A n \in Nodes : /\ updateVersion[n] <= version[Gateway]
                      /\ "profile" \in timers[n] => n = Gateway

(* A profile on the air is that of a whole image no newer than the         *)
(* gateway's: one version for all pages.                                   *)
UniformProfiles ==
  \A f \in air : f.msg.cmd = "profile" =>
    /\ f.msg.vector = [p \in Pages |-> f.msg.version]
    /\ f.msg.version <= version[Gateway]

(* A sensor is at most after version 1, the only one whose profile is long *)
(* enough; a request is due only for a page that is missing.               *)
SensorsUpdateOnce == \A n \in Sensors : updateVersion[n] <= 1
RequestsMissing ==
  \A n \in Nodes : "rx" \in timers[n] /\ rxPage[n] < NPages => version[n] # updateVersion[n]

(* The packets of a page are counted until the page is complete, one page  *)
(* at a time.                                                              *)
PacketsCounted ==
  \A n \in Nodes : \A p \in Pages :
    /\ p \in complete[n] <=> packetSet[n][p] = Packets
    /\ p > rxPage[n] /\ p \notin complete[n] => packetSet[n][p] = {}

(* A request on the air asks for something, in a version newer than blank. *)
UsefulRequests ==
  \A f \in air : f.msg.cmd = "request" /\ f.msg.pagenum < NPages =>
    f.msg.set # {} /\ f.msg.version > 0

(* A page is queued for sending only at a node without an update in        *)
(* progress.                                                               *)
ServesWhole == \A n \in Nodes : txSet[n] # {} => version[n] = updateVersion[n]

(* A load is pending only after an update, and before the next one starts. *)
PendingFinished ==
  \A n \in Nodes : updateState[n] => version[n] = updateVersion[n] /\ version[n] > 0

(* Without damaged packets, every packet on the air and every counted      *)
(* packet in a page buffer carries the data it is labelled with, but for   *)
(* the addresses of a loader.                                              *)
TrueLabels ==
  /\ \A f \in air : f.msg.cmd = "packet" =>
       f.msg.data \in Copies(f.msg.version, f.msg.pagenum, f.msg.num)
  /\ \A n \in Nodes : version[n] # updateVersion[n] =>
       \A k \in packetSet[n][rxPage[n]] :
         buffer[n][k] \in Copies(updateVersion[n], rxPage[n], k)

IndInv ==
  /\ TypeOK /\ UpdateAtomic /\ GatewayLeads /\ UniformProfiles
  /\ SensorsUpdateOnce /\ RequestsMissing /\ PacketsCounted /\ UsefulRequests
  /\ ServesWhole /\ NoStuckState /\ PendingFinished
  /\ ~Garbles => TrueLabels /\ ImageIntegrity
=============================================================================
