-------------------------------- MODULE Flood --------------------------------
(***************************************************************************)
(* Flooding: aerialnet/flood/test-flood.c sends numbered packages, the     *)
(* relays of flood_rx/test-flood.c send each new one on, the UAV of        *)
(* flood_rx_uav/test-flood.c only listens.  Receivers log what they hear.  *)
(***************************************************************************)
EXTENDS Integers, FiniteSets

CONSTANTS
  Source,       \* the node that runs flood
  Relays,       \* the nodes that run flood_rx
  Uavs,         \* the nodes that run flood_rx_uav
  Hears,        \* [node -> the receivers in its range]
  MAX_PACKAGE,
  Loss          \* BOOLEAN: may the radio lose a package?

Receivers == Relays \cup Uavs
Nodes     == {Source} \cup Receivers

ASSUME NodesAssumption ==
  /\ IsFiniteSet(Relays) /\ Source \notin Receivers /\ Relays \cap Uavs = {}
  /\ Hears \in [Nodes -> SUBSET Receivers]
(* data_buf[0] is a char.                                                  *)
ASSUME BoundsAssumption == MAX_PACKAGE \in 0..127 /\ Loss \in BOOLEAN

VARIABLES
  packet_count,        \* packages the source has sent
  max_package_number,  \* the newest package of each receiver
  data_buf,            \* the id of the message each receiver keeps
  air,                 \* what each receiver has yet to hear
  line,                \* the id in the last line of each log, and the id it was written for
  lost,                \* history: the radio has lost a package
  resends              \* history: how often each relay has sent each package on

vars == <<packet_count, max_package_number, data_buf, air, line, lost, resends>>

Ids    == 0..MAX_PACKAGE
(* Who sent it, package id and hop count.  via is history: the relays that *)
(* sent this copy on.                                                      *)
Frames == [from: Nodes, to: Receivers, id: Ids, hop: 0..Cardinality(Relays), via: SUBSET Relays]

(* broadcast_send: everybody in range may hear it.                         *)
Broadcast(n, i, h, via) ==
  {[from |-> n, to |-> r, id |-> i, hop |-> h, via |-> via] : r \in Hears[n]}

Init ==
  /\ packet_count = 0
  /\ max_package_number = [n \in Receivers |-> 0]
  /\ data_buf = [n \in Receivers |-> 0]
  /\ air = {}
  /\ line = [n \in Receivers |-> [entry |-> 0, heard |-> 0]]
  /\ lost = FALSE
  /\ resends = [n \in Relays |-> [i \in Ids |-> 0]]

(* A second is over at the source: flood_encode and broadcast_send.        *)
SendMut ==  \* mutation: the message is sent before it is built
  /\ packet_count < MAX_PACKAGE
  /\ packet_count' = packet_count + 1
  /\ air' = air \cup Broadcast(Source, packet_count, 0, {})
  /\ UNCHANGED <<max_package_number, data_buf, line, lost, resends>>
Send ==
  /\ packet_count < MAX_PACKAGE
  /\ packet_count' = packet_count + 1
  /\ air' = air \cup Broadcast(Source, packet_count + 1, 0, {})
  /\ UNCHANGED <<max_package_number, data_buf, line, lost, resends>>

(* The line is written before packetbuf_copyto fills data_buf.             *)
Record(f) == line' = [line EXCEPT ![f.to] = [entry |-> data_buf[f.to], heard |-> f.id]]

(* broadcast_recv of a relay, for a package newer than all others...       *)
ResendMut(f) ==  \* mutation: the newest package counts as new again
  /\ f.to \in Relays /\ f.id >= max_package_number[f.to]
  /\ data_buf' = [data_buf EXCEPT ![f.to] = f.id]
  /\ air' = (air \ {f}) \cup Broadcast(f.to, f.id, f.hop + 1, f.via \cup {f.to})
  /\ max_package_number' = [max_package_number EXCEPT ![f.to] = f.id]
  /\ Record(f)
  /\ resends' = [resends EXCEPT ![f.to][f.id] = @ + 1]
  /\ UNCHANGED <<packet_count, lost>>
Resend(f) ==
  /\ f.to \in Relays /\ f.id > max_package_number[f.to]
  /\ data_buf' = [data_buf EXCEPT ![f.to] = f.id]
  /\ air' = (air \ {f}) \cup Broadcast(f.to, f.id, f.hop + 1, f.via \cup {f.to})
  /\ max_package_number' = [max_package_number EXCEPT ![f.to] = f.id]
  /\ Record(f)
  /\ resends' = [resends EXCEPT ![f.to][f.id] = @ + 1]
  /\ UNCHANGED <<packet_count, lost>>
(* ...and for any other, or on the UAV.                                    *)
Keep(f) ==
  /\ f.to \in Uavs \/ f.id <= max_package_number[f.to]
  /\ data_buf' = [data_buf EXCEPT ![f.to] = f.id]
  /\ air' = air \ {f}
  /\ Record(f)
  /\ UNCHANGED <<packet_count, max_package_number, lost, resends>>

Lose(f) ==
  /\ Loss
  /\ air' = air \ {f}
  /\ lost' = TRUE
  /\ UNCHANGED <<packet_count, max_package_number, data_buf, line, resends>>

Next == Send \/ \E f \in air : Resend(f) \/ Keep(f) \/ Lose(f)

Spec == Init /\ [][Next]_vars

(* The source's timer expires; a receiver hears what nothing disturbs.     *)
Hearing(n, i) == \E f \in air : f.to = n /\ f.id = i /\ (Resend(f) \/ Keep(f))
FairSpec ==
  Spec /\ WF_vars(Send) /\ \A n \in Receivers, i \in Ids : WF_vars(Hearing(n, i))
-----------------------------------------------------------------------------
(* Properties.                                                             *)

(* Every variable keeps its type; no copy makes more hops than there are   *)
(* relays.                                                                 *)
TypeOK ==
  /\ packet_count \in Ids
  /\ max_package_number \in [Receivers -> Ids]
  /\ data_buf \in [Receivers -> Ids]
  /\ air \subseteq Frames
  /\ line \in [Receivers -> [entry: Ids, heard: Ids]]
  /\ lost \in BOOLEAN
  /\ resends \in [Relays -> [Ids -> Nat]]

(* A relay sends each package on at most once, over however many ways and  *)
(* in whatever order its copies come.                                      *)
SentOnce == \A n \in Relays, i \in Ids : resends[n][i] <= 1

(* The last package reaches everybody that a chain of relays connects to   *)
(* the source, in whatever order the packages before it arrived, unless    *)
(* the radio loses something.                                              *)
LastReaches == \A n \in Receivers : <>(lost \/ data_buf[n] = MAX_PACKAGE)

(* flood_rx/test-flood.c:85 promises a log line with the package id, the   *)
(* sender and the hop count of the message it is written for.              *)
LogsTheMessage == \A n \in Receivers : line[n].entry = line[n].heard
-----------------------------------------------------------------------------
(* The inductive invariant of FloodProofs.                                 *)

(* The hop count of a copy is the number of relays on its way, each once.  *)
HopsCountRelays == \A f \in air : f.hop = Cardinality(f.via)

(* Who sent a copy on has seen its package.                                *)
SeenByRelays == \A f \in air : \A n \in f.via : max_package_number[n] >= f.id

(* A package that a relay has not seen yet it has not sent on either.      *)
NewUnsent == \A n \in Relays, i \in Ids : i > max_package_number[n] => resends[n][i] = 0

IndInv == TypeOK /\ HopsCountRelays /\ SeenByRelays /\ NewUnsent /\ SentOnce
=============================================================================
