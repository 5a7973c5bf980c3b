----------------------------- MODULE OtaProofs ------------------------------
(***************************************************************************)
(* Proofs about OtaLoad for every number of pages, retries, queue places,  *)
(* versions, slots and kinds of image: each safety property that its run   *)
(* checks, from one inductive invariant.                                   *)
(***************************************************************************)
EXTENDS OtaLoad, SequenceTheorems, TLAPS

-----------------------------------------------------------------------------
(* The inductive invariant.                                                *)

(* The pages of the update in progress come in order; the version that was *)
(* completed is older, or it is the one that is being received.            *)
Progress ==
  /\ \A p \in Pages : p <= current_rx_page => file[p].version = update_version
  /\ completed <= update_version
  /\ current_rx_page < NPages => completed < update_version

(* What waits to be loaded, or is being loaded, is what was completed; a   *)
(* file of something else has been noted as overtaken when it was taken.   *)
Pending ==
  /\ update_state = 1 \/ tries > 0 =>
       /\ completed > 0
       /\ VersionsOf(file) = {completed} \/ update_version > completed
  /\ tries > 0 => overtaken \/ VersionsOf(file) = {completed}

(* The lists of processes and timers name only the program that was loaded *)
(* last and that autostart_exit would stop.                                *)
Lists ==
  /\ running \in {None, memory} /\ running \in {None, elfloader_autostart_processes}
  /\ timers \subseteq {running} \ {None}

NoStartBefore == \E v \in 1..completed : kind[v] = "nostart"
(* Only an image without a starting point leaves the list astray.          *)
ListAstray ==
  elfloader_autostart_processes \notin {None, memory} => overtaken \/ NoStartBefore

OtaInv == TypeOK /\ Progress /\ Pending /\ Lists /\ ListAstray /\ RelocatedOnce /\ SafeOtherwise

-----------------------------------------------------------------------------
(* Lemmas about the operators.                                             *)

(* A file is not the absence of one.                                       *)
LEMMA NoneIsNoFile == None \notin Files
<1>1. \A f \in Files : 1 \in DOMAIN f
  BY SizesAssumption DEF Files, Pages
<1>2. 1 \notin DOMAIN None
  BY DEF None
<1> QED
  BY <1>1, <1>2

(* Linking gives a file of the same versions.                              *)
LEMMA LinkedFile ==
  ASSUME file \in Files, NEW n
  PROVE  /\ Linked(n) \in Files
         /\ \A p \in Pages : Linked(n)[p].version = file[p].version
         /\ VersionsOf(Linked(n)) = VersionsOf(file)
<1>1. Linked(n) \in Files
  BY DEF Linked, Relocated, Files, Page
<1>2. \A p \in Pages : Linked(n)[p].version = file[p].version
  BY DEF Linked, Relocated, Files, Page
<1> QED
  BY <1>1, <1>2 DEF VersionsOf

(* A file that is linked to its end has each address relocated once.       *)
LEMMA LinkedOnce ==
  ASSUME file \in Files, NEW p \in Pages
  PROVE  Linked(NPages)[p].rel = 1
BY SizesAssumption DEF Linked, Relocated, Files, Page, Pages

(* A file of one version has that image's outcome.                         *)
LEMMA OutcomeOfOne ==
  ASSUME NEW f, NEW v \in Versions, VersionsOf(f) = {v}
  PROVE  Outcome(f) = {kind[v]}
BY DEF Outcome

(* Calling a program leaves types as they are.                             *)
LEMMA RunsType ==
  ASSUME NEW prog \in Files, NEW q \in Seq([to: Files \cup {None}]),
         Len(q) <= PROCESS_CONF_NUMEVENTS, NEW t, t \subseteq Files, Runs(prog, q, t)
  PROVE  /\ running' \in {prog, None}
         /\ timers' \subseteq t \cup {prog}
         /\ running' = None => timers' \subseteq t \ {prog}
         /\ events' \in Seq([to: Files \cup {None}]) /\ Len(events') <= PROCESS_CONF_NUMEVENTS
<1>1. prog # None
  BY NoneIsNoFile
<1>2. ASSUME NEW e \in [to: Files \cup {None}], Len(q) < PROCESS_CONF_NUMEVENTS
      PROVE  /\ Append(q, e) \in Seq([to: Files \cup {None}])
             /\ Len(Append(q, e)) <= PROCESS_CONF_NUMEVENTS
  BY <1>2, SizesAssumption
<1>3. [to |-> prog] \in [to: Files \cup {None}]
  OBVIOUS
<1> QED
  BY <1>1, <1>2, <1>3 DEF Runs

-----------------------------------------------------------------------------
(* Types.                                                                  *)

(* The types hold when the node starts.                                    *)
LEMMA TypeInit == Init => TypeOK
<1> SUFFICES ASSUME Init PROVE TypeOK
  OBVIOUS
<1>1. Blank \in Files
  BY BoundsAssumption DEF Blank, Files, Page, Versions
<1>2. /\ update_version \in Versions /\ completed \in Versions /\ current_rx_page \in 0..NPages
      /\ update_state \in {0, 1} /\ tries \in 0..MAX_RETRY /\ reboots \in 0..MaxReboots
  BY SizesAssumption, BoundsAssumption DEF Init, Boot, Versions
<1>3. /\ et \in BOOLEAN /\ crashed \in BOOLEAN /\ astray \in BOOLEAN /\ overtaken \in BOOLEAN
  BY Zenon DEF Init, Boot
<1>4. events \in Seq([to: Files \cup {None}]) /\ Len(events) <= PROCESS_CONF_NUMEVENTS
  BY SizesAssumption DEF Init, Boot
<1> QED
  BY <1>1, <1>2, <1>3, <1>4 DEF Init, Boot, TypeOK

(* Every step keeps the types.                                             *)
LEMMA TypeStep ==
  ASSUME TypeOK, [Next]_vars
  PROVE  TypeOK'
<1> USE SizesAssumption, BoundsAssumption
<1> DEFINE Queue == Seq([to: Files \cup {None}])
<1>queue. events \in Queue /\ Len(events) <= PROCESS_CONF_NUMEVENTS
  BY DEF TypeOK
<1>taken. ASSUME events # <<>>
      PROVE  /\ Tail(events) \in Queue /\ Len(Tail(events)) <= PROCESS_CONF_NUMEVENTS
             /\ Head(events) \in [to: Files \cup {None}]
  <2> DEFINE E == [to: Files \cup {None}]
  <2>1. events \in Seq(E) /\ Len(events) \in Nat
    BY <1>queue
  <2> HIDE DEF E
  <2>2. Tail(events) \in Seq(E) /\ Len(Tail(events)) = Len(events) - 1 /\ Head(events) \in E
    BY <1>taken, <2>1, HeadTailProperties
  <2> QED
    BY <1>queue, <2>1, <2>2 DEF E
<1>posted. ASSUME NEW e \in [to: Files \cup {None}], Room
       PROVE  /\ Append(events, e) \in Queue
              /\ Len(Append(events, e)) <= PROCESS_CONF_NUMEVENTS
  BY <1>posted, <1>queue DEF Room
<1>1. CASE HearProfile
  BY <1>1 DEF TypeOK, HearProfile, imageVars, loadVars, progVars, Versions
<1>2. CASE CompletePage
  <2>0. file \in Files /\ update_version \in Versions
    BY DEF TypeOK
  <2>1. file' \in Files
    <3>1. PICK rel \in {0, 1} : file' = [file EXCEPT
            ![current_rx_page + 1] = [version |-> update_version, rel |-> rel]]
      BY <1>2 DEF CompletePage
    <3>2. [version |-> update_version, rel |-> rel] \in Page
      BY <2>0 DEF Page
    <3> QED
      BY <2>0, <3>1, <3>2 DEF Files
  <2>2. update_state' \in {0, 1} /\ completed' \in Versions
    BY <1>2 DEF TypeOK, CompletePage, delugeVars
  <2> QED
    BY <1>2, <2>1, <2>2 DEF TypeOK, CompletePage, imageVars, loadVars, progVars
<1>3. CASE TestTimer
  BY <1>3, <1>posted DEF TypeOK, TestTimer, Tick, imageVars, delugeVars, loadVars, progVars
<1>4. CASE ProgramTimer
  BY <1>4, <1>posted DEF TypeOK, ProgramTimer, imageVars, delugeVars, loadVars
<1>5. CASE ProgramEvent
  <2> DEFINE prog == Head(events).to
             there == running # None /\ SlotOf(running) = SlotOf(prog)
  <2>1. CASE there
    <3>1. Runs(running, Tail(events), timers)
      BY <1>5, <2>1 DEF ProgramEvent
    <3>2. /\ running \in Files /\ timers \subseteq Files
          /\ Tail(events) \in Queue /\ Len(Tail(events)) <= PROCESS_CONF_NUMEVENTS
      BY <1>5, <2>1, <1>taken DEF TypeOK, ProgramEvent
    <3>3. /\ running' \in {running, None} /\ timers' \subseteq timers \cup {running}
          /\ events' \in Queue /\ Len(events') <= PROCESS_CONF_NUMEVENTS
      BY <3>1, <3>2, RunsType
    <3>4. astray' \in BOOLEAN /\ crashed' \in BOOLEAN
      BY <1>5 DEF ProgramEvent, TypeOK
    <3> QED
      BY <1>5, <3>2, <3>3, <3>4 DEF TypeOK, ProgramEvent, imageVars, delugeVars, loadVars
  <2>2. CASE ~there
    <3>1. events' = Tail(events) /\ UNCHANGED progVars
      BY <1>5, <2>2 DEF ProgramEvent
    <3>2. astray' \in BOOLEAN /\ crashed' \in BOOLEAN
      BY <1>5 DEF ProgramEvent, TypeOK
    <3>3. events # <<>>
      BY <1>5 DEF ProgramEvent
    <3> QED
      BY <1>5, <1>taken, <3>1, <3>2, <3>3
      DEF TypeOK, ProgramEvent, imageVars, delugeVars, loadVars, progVars
  <2> QED
    BY <2>1, <2>2
<1>6. CASE TestEvent
  <2>1. tries' \in 0..MAX_RETRY
    BY <1>6 DEF TypeOK, TestEvent
  <2>2. et' \in BOOLEAN
    BY <1>6, Zenon DEF TypeOK, TestEvent
  <2>3. overtaken' \in BOOLEAN
    BY <1>6, Zenon DEF TypeOK, TestEvent
  <2> QED
    BY <1>6, <1>taken, <2>1, <2>2, <2>3 DEF TypeOK, TestEvent, imageVars, delugeVars, loadVars, progVars
<1>7. CASE codeload
  <2>0. \A n : Linked(n) \in Files
    BY LinkedFile DEF TypeOK
  <2>1. ASSUME NextTry PROVE tries' \in 0..MAX_RETRY /\ et' \in BOOLEAN
    <3>1. tries' \in 0..MAX_RETRY
      BY <2>1 DEF NextTry, TypeOK
    <3>2. et' \in BOOLEAN
      BY <2>1, Zenon DEF NextTry, TypeOK
    <3> QED
      BY <3>1, <3>2
  <2>2. ASSUME Exit PROVE running' \in Files \cup {None} /\ timers' \subseteq Files
    BY <2>2 DEF Exit, Remain, TypeOK
  <2>3. CASE ExitAstray
    BY <2>3 DEF TypeOK, ExitAstray, imageVars, delugeVars, loadVars, progVars
  <2>4. CASE LoadBad
    BY <2>4, <2>1, <2>2 DEF TypeOK, LoadBad, Loads, imageVars, delugeVars, loadVars
  <2>5. CASE LoadNoSymbol
    BY <2>5, <2>0, <2>1, <2>2 DEF TypeOK, LoadNoSymbol, Loads, imageVars, delugeVars, loadVars
  <2>6. CASE LoadNoStart
    BY <2>6, <2>0, <2>1, <2>2 DEF TypeOK, LoadNoStart, Loads, imageVars, delugeVars
  <2>7. CASE LoadTooBig
    BY <2>7 DEF TypeOK, LoadTooBig, Loads, imageVars, delugeVars, loadVars, progVars
  <2>8. CASE LoadGood
    <3>1. file' \in Files /\ memory' = file' /\ elfloader_autostart_processes' = file'
      BY <2>8, <2>0 DEF LoadGood
    <3>2. Remain \subseteq Files
      BY DEF Remain, TypeOK
    <3>3. /\ running' \in {file', None} /\ timers' \subseteq Remain \cup {file'}
          /\ events' \in Queue /\ Len(events') <= PROCESS_CONF_NUMEVENTS
      <4>1. events \in Queue /\ Len(events) <= PROCESS_CONF_NUMEVENTS
        BY DEF TypeOK
      <4>2. Runs(file', events, Remain)
        BY <2>8 DEF LoadGood
      <4> QED
        BY <4>1, <4>2, <3>1, <3>2, RunsType
    <3>4. crashed' \in BOOLEAN /\ tries' = 0 /\ et' = TRUE
      BY <2>8 DEF LoadGood
    <3> QED
      BY <2>8, <3>1, <3>2, <3>3, <3>4 DEF TypeOK, LoadGood, Loads, imageVars, delugeVars
  <2> QED
    BY <1>7, <2>3, <2>4, <2>5, <2>6, <2>7, <2>8 DEF codeload
<1>8. CASE Reboot
  <2>1. Blank \in Files
    BY DEF Blank, Files, Page, Versions
  <2>2. /\ update_version' \in Versions /\ completed' \in Versions
        /\ current_rx_page' \in 0..NPages /\ update_state' \in {0, 1}
        /\ tries' \in 0..MAX_RETRY /\ reboots' \in 0..MaxReboots
    BY <1>8 DEF TypeOK, Reboot, Versions
  <2>3. /\ et' \in BOOLEAN /\ crashed' \in BOOLEAN /\ astray' \in BOOLEAN
        /\ overtaken' \in BOOLEAN
    BY <1>8, Zenon DEF Reboot
  <2>4. events' \in Queue /\ Len(events') <= PROCESS_CONF_NUMEVENTS
    BY <1>8 DEF Reboot
  <2> QED
    BY <1>8, <2>1, <2>2, <2>3, <2>4 DEF TypeOK, Reboot, imageVars
<1>9. CASE UNCHANGED vars
  BY <1>9 DEF TypeOK, vars, imageVars, delugeVars, loadVars, progVars
<1> QED
  BY <1>1, <1>2, <1>3, <1>4, <1>5, <1>6, <1>7, <1>8, <1>9 DEF Next, Deluge

-----------------------------------------------------------------------------
(* What codeload leaves alone.                                             *)

(* codeload changes the relocation of pages, never their version.          *)
LEMMA CodeloadKeeps ==
  ASSUME TypeOK, codeload
  PROVE  /\ VersionsOf(file') = VersionsOf(file)
         /\ \A p \in Pages : file'[p].version = file[p].version
         /\ UNCHANGED <<imageVars, delugeVars, update_state, astray, overtaken>>
         /\ tries > 0
<1>1. file \in Files
  BY DEF TypeOK
<1>2. file' = file \/ \E n : file' = Linked(n)
  BY DEF codeload, ExitAstray, LoadBad, LoadNoSymbol, LoadNoStart, LoadTooBig, LoadGood
<1>3. UNCHANGED <<imageVars, delugeVars, update_state, astray, overtaken>> /\ tries > 0
  BY DEF codeload, ExitAstray, LoadBad, LoadNoSymbol, LoadNoStart, LoadTooBig, LoadGood, Loads
<1> QED
  BY <1>1, <1>2, <1>3, LinkedFile

(* The steps that neither Deluge, codeload nor a reboot takes.             *)
Events == TestTimer \/ ProgramTimer \/ ProgramEvent

(* Timers and events of programs leave image and file alone.               *)
LEMMA EventsKeep ==
  ASSUME Events
  PROVE  UNCHANGED <<imageVars, file, delugeVars, update_state, tries, loadVars, overtaken>>
BY DEF Events, TestTimer, ProgramTimer, ProgramEvent

(* The cases of a step.                                                    *)
LEMMA NextCases ==
  ASSUME [Next]_vars
  PROVE  \/ HearProfile \/ CompletePage \/ Events \/ TestEvent \/ codeload \/ Reboot
         \/ UNCHANGED vars
BY DEF Next, Deluge, Events

-----------------------------------------------------------------------------
(* The update in progress.                                                 *)

(* Every step keeps the state of the update consistent with the file.      *)
LEMMA ProgressStep ==
  ASSUME TypeOK, Progress, [Next]_vars
  PROVE  Progress'
<1> USE SizesAssumption, BoundsAssumption
<1>1. CASE HearProfile
  <2>1. /\ update_version' = update_version + 1 /\ completed' = completed
        /\ current_rx_page' = 0
    BY <1>1 DEF HearProfile
  <2> QED
    BY <2>1 DEF Progress, Pages, TypeOK, Versions
<1>2. CASE CompletePage
  <2>1. PICK rel \in {0, 1} : file' = [file EXCEPT
          ![current_rx_page + 1] = [version |-> update_version, rel |-> rel]]
    BY <1>2 DEF CompletePage
  <2>2. /\ current_rx_page < NPages /\ current_rx_page' = current_rx_page + 1
        /\ update_version' = update_version
        /\ completed' \in {completed, update_version}
        /\ completed' = completed \/ current_rx_page' = NPages
    BY <1>2 DEF CompletePage
  <2>3. /\ file \in Files /\ current_rx_page \in 0..NPages
        /\ update_version \in Nat /\ completed \in Nat
    BY DEF TypeOK, Versions
  <2>4. ASSUME NEW p \in Pages, p <= current_rx_page'
        PROVE  file'[p].version = update_version'
    <3>1. CASE p = current_rx_page + 1
      BY <2>1, <2>2, <2>3, <3>1 DEF Files
    <3>2. CASE p # current_rx_page + 1
      <4>1. p <= current_rx_page
        BY <2>2, <2>3, <2>4, <3>2 DEF Pages
      <4>2. file'[p] = file[p]
        BY <2>1, <2>3, <3>2 DEF Files
      <4> QED
        BY <2>2, <4>1, <4>2 DEF Progress
    <3> QED
      BY <3>1, <3>2
  <2> QED
    BY <2>2, <2>3, <2>4 DEF Progress
<1>3. CASE Events
  BY <1>3, EventsKeep DEF Progress, delugeVars
<1>4. CASE TestEvent
  BY <1>4 DEF TestEvent, Progress, delugeVars
<1>5. CASE codeload
  BY <1>5, CodeloadKeeps DEF Progress, delugeVars
<1>6. CASE Reboot
  BY <1>6 DEF Reboot, Progress, Blank
<1>7. CASE UNCHANGED vars
  BY <1>7 DEF vars, Progress, delugeVars
<1> QED
  BY <1>1, <1>2, <1>3, <1>4, <1>5, <1>6, <1>7, NextCases

(* When its last page comes, the file is of the version being received.    *)
LEMMA CompletedWhole ==
  ASSUME TypeOK, Progress, CompletePage, current_rx_page + 1 = NPages
  PROVE  VersionsOf(file') = {update_version} /\ completed' = update_version
<1> USE SizesAssumption
<1>1. TypeOK' /\ Progress'
  BY TypeStep, ProgressStep DEF Next, Deluge
<1>2. current_rx_page' = NPages /\ completed' = update_version /\ update_version' = update_version
  BY DEF CompletePage
<1>3. \A p \in Pages : file'[p].version = update_version
  BY <1>1, <1>2 DEF Progress, Pages
<1>4. NPages \in Pages
  BY DEF Pages
<1> QED
  BY <1>2, <1>3, <1>4 DEF VersionsOf

-----------------------------------------------------------------------------
(* What waits to be loaded.                                                *)

(* Every step keeps the pending load consistent with what was reported.    *)
LEMMA PendingStep ==
  ASSUME TypeOK, Progress, Pending, [Next]_vars
  PROVE  Pending'
<1> USE SizesAssumption, BoundsAssumption
<1>0. update_version \in Nat /\ completed \in Nat /\ tries \in Nat /\ update_state \in {0, 1}
  BY DEF TypeOK, Versions
<1>1. CASE HearProfile
  <2>1. /\ update_version' = update_version + 1 /\ file' = file
        /\ UNCHANGED <<completed, update_state, tries, overtaken>> /\ tries = 0
    BY <1>1 DEF HearProfile, Idle
  <2>2. update_version' > completed'
    BY <1>0, <2>1 DEF Progress
  <2> QED
    BY <1>0, <2>1, <2>2 DEF Pending
<1>2. CASE CompletePage
  <2>1. tries = 0 /\ tries' = tries /\ update_version' = update_version
        /\ completed < update_version
    BY <1>2 DEF CompletePage, Idle, Progress
  <2>2. CASE current_rx_page + 1 = NPages
    BY <1>0, <1>2, <2>1, <2>2, CompletedWhole DEF Pending
  <2>3. CASE current_rx_page + 1 # NPages
    <3>1. completed' = completed /\ update_state' = update_state
      BY <1>2, <2>3 DEF CompletePage
    <3> QED
      BY <1>0, <2>1, <3>1 DEF Pending
  <2> QED
    BY <2>2, <2>3
<1>3. CASE Events
  BY <1>3, EventsKeep DEF Pending, delugeVars, VersionsOf
<1>4. CASE TestEvent
  <2>1. /\ file' = file /\ update_version' = update_version /\ completed' = completed
        /\ update_state' = 0 /\ tries = 0
        /\ tries' = 0 \/ update_state = 1
        /\ overtaken' = (overtaken \/ (update_state = 1 /\ VersionsOf(file) # {completed}))
    BY <1>4 DEF TestEvent, delugeVars, Idle
  <2>2. VersionsOf(file') = VersionsOf(file)
    BY <2>1 DEF VersionsOf
  <2>3. tries' > 0 => update_state = 1
    BY <2>1
  <2>4. update_state = 1 => overtaken' \/ VersionsOf(file') = {completed'}
    BY <2>1, <2>2, Zenon
  <2>5. update_state' = 1 \/ tries' > 0 =>
          completed' > 0 /\ (VersionsOf(file') = {completed'} \/ update_version' > completed')
    BY <2>1, <2>2, <2>3 DEF Pending
  <2> QED
    BY <2>3, <2>4, <2>5 DEF Pending
<1>5. CASE codeload
  BY <1>5, CodeloadKeeps DEF Pending, delugeVars
<1>6. CASE Reboot
  BY <1>6 DEF Reboot, Pending
<1>7. CASE UNCHANGED vars
  BY <1>7 DEF vars, Pending, delugeVars, VersionsOf
<1> QED
  BY <1>1, <1>2, <1>3, <1>4, <1>5, <1>6, <1>7, NextCases

-----------------------------------------------------------------------------
(* The lists.                                                              *)

(* Every step keeps the list of processes consistent with what was loaded. *)
LEMMA ListsStep ==
  ASSUME TypeOK, Lists, [Next]_vars
  PROVE  Lists'
<1>1. CASE HearProfile \/ CompletePage \/ TestTimer \/ TestEvent
  BY <1>1 DEF HearProfile, CompletePage, TestTimer, TestEvent, Lists, loadVars, progVars
<1>2. CASE ProgramTimer
  BY <1>2 DEF ProgramTimer, Lists, loadVars
<1>3. CASE ProgramEvent
  <2>1. \/ Runs(running, Tail(events), timers) /\ running # None
        \/ UNCHANGED progVars
    BY <1>3 DEF ProgramEvent
  <2>2. UNCHANGED loadVars
    BY <1>3 DEF ProgramEvent
  <2> QED
    BY <2>1, <2>2 DEF Runs, Lists, loadVars, progVars
<1>4. CASE codeload
  <2> DEFINE elf == elfloader_autostart_processes
  (* After the exit nothing is left on either list.                        *)
  <2>1. Exit => running' = None /\ timers' = {}
    BY DEF Exit, Remain, Lists
  <2>2. Remain = {}
    BY DEF Remain, Lists
  <2>3. CASE ExitAstray \/ LoadTooBig
    BY <2>3 DEF ExitAstray, LoadTooBig, Lists, loadVars, progVars
  <2>4. CASE LoadBad \/ LoadNoSymbol \/ LoadNoStart
    BY <2>1, <2>4 DEF LoadBad, LoadNoSymbol, LoadNoStart, Lists
  <2>5. CASE LoadGood
    <3>1. memory' = file' /\ elf' = file' /\ Runs(file', events, {})
      BY <2>2, <2>5 DEF LoadGood
    <3>2. file' # None
      BY <2>5, LinkedFile, NoneIsNoFile DEF LoadGood, TypeOK
    <3> QED
      BY <3>1, <3>2 DEF Runs, Lists
  <2> QED
    BY <1>4, <2>3, <2>4, <2>5 DEF codeload
<1>5. CASE Reboot
  BY <1>5 DEF Reboot, Lists
<1>6. CASE UNCHANGED vars
  BY <1>6 DEF vars, Lists, loadVars, progVars
<1> QED
  BY <1>1, <1>2, <1>3, <1>4, <1>5, <1>6, NextCases DEF Events

-----------------------------------------------------------------------------
(* What the loader may meet.                                               *)

(* What was completed stays completed, or something newer is.              *)
LEMMA CompletedGrows ==
  ASSUME TypeOK, Progress, [Next]_vars, ~Reboot
  PROVE  completed' >= completed /\ kind' = kind
<1>0. completed \in Nat
  BY DEF TypeOK, Versions
<1>1. CASE CompletePage
  <2>1. completed' \in {completed, update_version}
    BY <1>1 DEF CompletePage
  <2> QED
    BY <1>0, <1>1, <2>1 DEF CompletePage, imageVars, Progress, TypeOK, Versions
<1>2. CASE HearProfile \/ TestEvent
  BY <1>0, <1>2 DEF HearProfile, TestEvent, imageVars, delugeVars
<1>3. CASE Events
  BY <1>0, <1>3, EventsKeep DEF imageVars, delugeVars
<1>4. CASE codeload
  BY <1>0, <1>4, CodeloadKeeps DEF imageVars, delugeVars
<1>5. CASE UNCHANGED vars
  BY <1>0, <1>5 DEF vars, imageVars, delugeVars
<1> QED
  BY <1>1, <1>2, <1>3, <1>4, <1>5, NextCases

(* Once a program without a start point was loaded it stays known.         *)
LEMMA NoStartStays ==
  ASSUME TypeOK, TypeOK', Progress, [Next]_vars, ~Reboot, NoStartBefore
  PROVE  NoStartBefore'
BY CompletedGrows DEF NoStartBefore, TypeOK, Versions

(* While it loads, the outcome is that of the image that was completed,    *)
(* unless a newer one has overtaken it.                                    *)
LEMMA LoadsWhatWasCompleted ==
  ASSUME TypeOK, Pending, NEW outcome, Loads(outcome), ~overtaken
  PROVE  /\ VersionsOf(file) = {completed} /\ completed \in 1..completed
         /\ outcome = kind[completed]
<1>1. tries > 0 /\ outcome \in Outcome(file)
  BY DEF Loads
<1>2. VersionsOf(file) = {completed} /\ completed > 0
  BY <1>1 DEF Pending
<1>3. Outcome(file) = {kind[completed]}
  BY <1>2, OutcomeOfOne DEF TypeOK
<1> QED
  BY <1>1, <1>2, <1>3 DEF TypeOK, Versions

(* Once a load was overtaken by a newer image it stays known.              *)
LEMMA OvertakenStays ==
  ASSUME [Next]_vars, ~Reboot, overtaken
  PROVE  overtaken'
<1>1. CASE HearProfile \/ CompletePage \/ TestEvent
  BY <1>1, Zenon DEF HearProfile, CompletePage, TestEvent
<1>2. CASE Events
  BY <1>2, EventsKeep, Zenon
<1>3. CASE codeload
  BY <1>3, Zenon DEF codeload, ExitAstray, LoadBad, LoadNoSymbol, LoadNoStart, LoadTooBig,
                     LoadGood, Loads
<1>4. CASE UNCHANGED vars
  BY <1>4, Zenon DEF vars
<1> QED
  BY <1>1, <1>2, <1>3, <1>4, NextCases, Zenon

(* Every step keeps what is known of a list that points astray.            *)
LEMMA ListAstrayStep ==
  ASSUME TypeOK, TypeOK', Progress, Pending, ListAstray, [Next]_vars
  PROVE  ListAstray'
<1>1. CASE Reboot
  BY <1>1 DEF Reboot, ListAstray
<1>2. CASE ~Reboot /\ UNCHANGED loadVars
  <2>1. overtaken \/ NoStartBefore => overtaken' \/ NoStartBefore'
    BY <1>2, OvertakenStays, NoStartStays, Zenon
  <2> QED
    BY <1>2, <2>1, Zenon DEF ListAstray, loadVars
<1>3. CASE LoadNoStart
  <2>1. UNCHANGED <<overtaken, kind, completed>>
    BY <1>3 DEF LoadNoStart, Loads, imageVars, delugeVars
  <2>2. ~overtaken => NoStartBefore
    BY <1>3, LoadsWhatWasCompleted DEF LoadNoStart, NoStartBefore
  <2> QED
    BY <2>1, <2>2 DEF ListAstray, NoStartBefore
<1>4. CASE LoadGood
  BY <1>4 DEF LoadGood, ListAstray
<1>5. ASSUME \/ HearProfile \/ CompletePage \/ Events \/ TestEvent \/ UNCHANGED vars
             \/ ExitAstray \/ LoadBad \/ LoadNoSymbol \/ LoadTooBig
      PROVE  UNCHANGED loadVars
  BY <1>5, EventsKeep DEF HearProfile, CompletePage, TestEvent, vars, ExitAstray, LoadBad,
                    LoadNoSymbol, LoadTooBig
<1> QED
  BY <1>1, <1>2, <1>3, <1>4, <1>5, NextCases DEF codeload

-----------------------------------------------------------------------------
(* The program that runs.                                                  *)

(* Every step keeps what is known of the pages that were relocated.        *)
LEMMA RelocatedStep ==
  ASSUME TypeOK, Lists, RelocatedOnce, [Next]_vars
  PROVE  RelocatedOnce'
<1>1. CASE running' = running \/ running' = None
  BY <1>1 DEF RelocatedOnce
<1>2. CASE LoadGood
  <2>1. file' = Linked(NPages) /\ Runs(file', events, Remain)
    BY <1>2 DEF LoadGood
  <2>2. running' \in {file', None}
    BY <2>1 DEF Runs
  <2> QED
    BY <2>1, <2>2, LinkedOnce DEF RelocatedOnce, TypeOK
<1>3. ProgramEvent => running' = running \/ running' = None
  BY DEF ProgramEvent, Runs, progVars
<1>4. Exit => running' = running \/ running' = None
  BY DEF Exit
<1> QED
  BY <1>1, <1>2, <1>3, <1>4, NextCases
  DEF HearProfile, CompletePage, Events, TestTimer, ProgramTimer, TestEvent, codeload, ExitAstray,
      LoadBad, LoadNoSymbol, LoadNoStart, LoadTooBig, Reboot, vars, progVars

-----------------------------------------------------------------------------
(* How a load goes wrong.                                                  *)

Excused ==
  \/ astray \/ overtaken
  \/ \E v \in 1..completed : kind[v] = "big"
  \/ elfloader_autostart_processes # None /\ NoStartBefore

(* Every step keeps what explains a crash.                                 *)
LEMMA SafeStep ==
  ASSUME TypeOK, TypeOK', Pending, ListAstray, SafeOtherwise, [Next]_vars
  PROVE  SafeOtherwise'
<1>now. SafeOtherwise <=> (crashed => Excused)
  BY Zenon DEF SafeOtherwise, Excused, NoStartBefore
<1>then. (SafeOtherwise <=> (crashed => Excused))'
  BY Zenon DEF SafeOtherwise, Excused, NoStartBefore
(* A step of codeload finds the excuse where it goes wrong.                *)
<1>1. CASE codeload
  <2>1. UNCHANGED <<kind, completed, astray, overtaken>> /\ ~crashed
    BY <1>1, CodeloadKeeps, Zenon DEF imageVars, delugeVars, codeload, ExitAstray, LoadBad,
       LoadNoSymbol, LoadNoStart, LoadTooBig, LoadGood, Loads
  <2>2. CASE ExitAstray
    <3>1. elfloader_autostart_processes \notin {None, memory} /\ UNCHANGED loadVars
      BY <2>2 DEF ExitAstray
    <3> QED
      BY <1>then, <2>1, <3>1, Zenon DEF Excused, ListAstray, NoStartBefore, loadVars
  <2>3. CASE LoadTooBig
    <3>1. ~overtaken => \E v \in 1..completed : kind[v] = "big"
      BY <2>3, LoadsWhatWasCompleted DEF LoadTooBig
    <3> QED
      BY <1>then, <2>1, <3>1, Zenon DEF Excused
  <2>4. CASE LoadGood
    <3>1. crashed' => \A v \in Versions : VersionsOf(file) # {v}
      BY <2>4, Zenon DEF LoadGood
    <3>2. crashed' => overtaken
      BY <2>4, <3>1, LoadsWhatWasCompleted DEF LoadGood, TypeOK
    <3> QED
      BY <1>then, <2>1, <3>2, Zenon DEF Excused
  <2>5. LoadBad \/ LoadNoSymbol \/ LoadNoStart => crashed' = crashed
    BY DEF LoadBad, LoadNoSymbol, LoadNoStart
  <2> QED
    BY <1>1, <1>then, <2>1, <2>2, <2>3, <2>4, <2>5 DEF codeload
(* An event went astray.                                                   *)
<1>2. CASE ProgramEvent
  <2>1. crashed' => astray'
    BY <1>2, Zenon DEF ProgramEvent
  <2> QED
    BY <1>then, <2>1, Zenon DEF Excused
<1>3. CASE Reboot
  BY <1>3, <1>then, Zenon DEF Reboot
<1>4. HearProfile \/ CompletePage \/ TestTimer \/ ProgramTimer \/ TestEvent => ~crashed'
  BY Zenon DEF HearProfile, CompletePage, TestTimer, ProgramTimer, TestEvent, Idle
<1>5. CASE UNCHANGED vars
  <2>1. UNCHANGED <<kind, completed, elfloader_autostart_processes>>
    BY <1>5 DEF vars, imageVars, delugeVars, loadVars
  <2>2. UNCHANGED <<crashed, astray, overtaken>>
    BY <1>5 DEF vars
  <2>3. Excused => Excused'
    BY <2>1, <2>2 DEF Excused, NoStartBefore
  <2> QED
    BY <2>2, <2>3, <1>now, <1>then
<1> QED
  BY <1>then, <1>1, <1>2, <1>3, <1>4, <1>5, NextCases, Zenon DEF Events

-----------------------------------------------------------------------------
(* The theorems.                                                           *)

(* The invariant holds when the sensor starts.                             *)
LEMMA InvInit == Init => OtaInv
<1> SUFFICES ASSUME Init PROVE OtaInv
  OBVIOUS
<1>1. TypeOK
  BY TypeInit
<1>2. Progress
  BY SizesAssumption DEF Init, Boot, Progress, Blank
<1>3. Pending
  BY DEF Init, Boot, Pending
<1>4. Lists /\ ListAstray /\ RelocatedOnce
  BY DEF Init, Boot, Lists, ListAstray, RelocatedOnce
<1>5. SafeOtherwise
  BY Zenon DEF Init, Boot, SafeOtherwise
<1> QED
  BY <1>1, <1>2, <1>3, <1>4, <1>5 DEF OtaInv

(* OtaInv holds in every reachable state, whatever images are disseminated *)
(* and however their completion, the poll, the events of the old program   *)
(* and restarts interleave.                                                *)
THEOREM Invariance == Spec => []OtaInv
<1>1. OtaInv /\ [Next]_vars => OtaInv'
  BY TypeStep, ProgressStep, PendingStep, ListsStep, ListAstrayStep, RelocatedStep, SafeStep
  DEF OtaInv
<1> QED
  BY InvInit, <1>1, PTL DEF Spec

(* Every variable keeps its type.                                          *)
THEOREM TypeCorrect == Spec => []TypeOK
BY Invariance, PTL DEF OtaInv

(* No process and no timer of a program that was loaded over stays listed. *)
THEOREM NeverStale == Spec => []NothingStale
<1>1. OtaInv => NothingStale
  BY DEF OtaInv, Lists, NothingStale
<1> QED
  BY Invariance, <1>1, PTL

(* What codeload loads is the version that check_update reported, unless a *)
(* newer one has begun to overwrite it.                                    *)
THEOREM LoadsWhatItReported == Spec => []LoadsCompleted
<1>1. OtaInv => LoadsCompleted
  BY DEF OtaInv, Pending, LoadsCompleted
<1> QED
  BY Invariance, <1>1, PTL

(* Linking into the file is harmless: a program that runs has each of its  *)
(* addresses relocated once.                                               *)
THEOREM LinkedForGood == Spec => []RelocatedOnce
BY Invariance, PTL DEF OtaInv

(* The list of what can go wrong is complete.                              *)
THEOREM CrashesExplained == Spec => []SafeOtherwise
BY Invariance, PTL DEF OtaInv
=============================================================================
