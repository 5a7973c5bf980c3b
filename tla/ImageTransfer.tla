---------------------------- MODULE ImageTransfer ----------------------------
(***************************************************************************)
(* What Deluge promises to the applications on the sensors: a sensor that  *)
(* has accepted an image of the gateway's gets its pages one after         *)
(* another, each whole, and runs it from the moment it has the last one.   *)
(* Then the file is left alone until the application has loaded it.        *)
(***************************************************************************)
EXTENDS Integers

CONSTANTS Sensors, NPages

Pages == 0..NPages-1

VARIABLES
  latest,     \* the gateway's image
  installed,  \* the image a sensor runs
  target,     \* the image it has accepted
  have,       \* how many pages of that it has
  file,       \* for each page of its file, the image it is from
  pending     \* an image waits for the application to load it

vars == <<latest, installed, target, have, file, pending>>

(* A sensor starts with a blank file, image 0.                             *)
Init ==
  /\ latest = 1
  /\ installed = [n \in Sensors |-> 0] /\ target = [n \in Sensors |-> 0]
  /\ have = [n \in Sensors |-> NPages]
  /\ file = [n \in Sensors |-> [p \in Pages |-> 0]]
  /\ pending = [n \in Sensors |-> FALSE]

Release ==
  /\ latest' = latest + 1
  /\ UNCHANGED <<installed, target, have, file, pending>>

Accept(n) ==
  /\ ~pending[n]
  /\ \E v \in target[n]+1..latest : target' = [target EXCEPT ![n] = v]
  /\ have' = [have EXCEPT ![n] = 0]
  /\ UNCHANGED <<latest, installed, file, pending>>

NextPage(n) ==
  /\ have[n] < NPages
  /\ file' = [file EXCEPT ![n][have[n]] = target[n]]
  /\ have' = [have EXCEPT ![n] = @ + 1]
  /\ UNCHANGED <<latest, target>>

ReceivePage(n) ==
  /\ NextPage(n) /\ have[n] + 1 < NPages
  /\ UNCHANGED <<installed, pending>>

Install(n) ==
  /\ NextPage(n) /\ have[n] + 1 = NPages
  /\ installed' = [installed EXCEPT ![n] = target[n]]
  /\ pending' = [pending EXCEPT ![n] = TRUE]

(* The pages that a loader links stay pages of their image.                *)
Load(n) ==
  /\ pending[n]
  /\ pending' = [pending EXCEPT ![n] = FALSE]
  /\ UNCHANGED <<latest, installed, target, have, file>>

Restart(n) ==
  /\ installed' = [installed EXCEPT ![n] = 0]
  /\ target' = [target EXCEPT ![n] = 0]
  /\ have' = [have EXCEPT ![n] = NPages]
  /\ file' = [file EXCEPT ![n] = [p \in Pages |-> 0]]
  /\ pending' = [pending EXCEPT ![n] = FALSE]
  /\ UNCHANGED latest

Next ==
  \/ Release
  \/ \E n \in Sensors : Accept(n) \/ ReceivePage(n) \/ Install(n) \/ Load(n) \/ Restart(n)

Spec == Init /\ [][Next]_vars
=============================================================================
