------------------------------ MODULE MCDeluge ------------------------------
(* Model values and symmetry for checking Deluge on small networks.        *)
EXTENDS Deluge, TLC

(* Every node in range of every other, or the sensors only of the gateway. *)
Mesh == Nodes \X Nodes
Star == ({Gateway} \X Sensors) \cup (Sensors \X {Gateway})

(* What decides about the files when a page is a single packet: all but    *)
(* the page buffer (each packet overwrites it), the reports, and the       *)
(* profiles a sensor would send but has no timer for.                      *)
ProtocolView ==
  <<imageVars, flash, updateState, fsmVars, txVars, recvAdv, bcastProfile[Gateway],
    [n \in Sensors |-> summaryFrom[n]], air>>

(* What decides about states and reports when only the gateway is asked    *)
(* for pages: all but the files, which no guard reads.                     *)
ReportView ==
  <<imageVars, updateState, fsmVars, txVars, advVars, summaryFrom, air, gwVars>>

(* No variable of either view depends on one left out, so it merges only   *)
(* states with the same futures.                                           *)
SensorSymmetry == Permutations(Sensors)
=============================================================================
