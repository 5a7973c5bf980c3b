------------------------------ MODULE OtaLoad -------------------------------
(***************************************************************************)
(* What a sensor does with an image it has received: ota_test_process      *)
(* (OTA_RX/test-ota.c) looks every 5 s whether Deluge has completed one,   *)
(* and codeload (codeload.c) stops the old program, links the file into    *)
(* memory (core/loader/elfloader.c) and starts the new program, all in one *)
(* call while core/sys/process.c still holds events of the old one.        *)
(*                                                                         *)
(* There is one file and one memory.  Deluge goes on writing the file,     *)
(* linking writes into it too, and neighbours are served from it.  Each    *)
(* program is loaded over the one before it.                               *)
(*                                                                         *)
(* How many images come after one another without a restart is for Deluge  *)
(* to say: its length check (LongEnough of Deluge) lets the profile of     *)
(* version 1 through and none after it, which is MaxVersion = 1 here.      *)
(* codeload and the loader are written for any number, and a larger        *)
(* MaxVersion asks what they do where Deluge accepts it.                   *)
(***************************************************************************)
EXTENDS Integers, Sequences

CONSTANTS
  NPages,                  \* pages of the image
  MAX_RETRY,               \* 3
  PROCESS_CONF_NUMEVENTS,  \* places in the event queue (8)
  Slots,                   \* addresses in memory where a process may come to lie
  Kinds,                   \* what images there are, see Outcome
  MaxVersion,              \* the last version that Deluge accepts
  MaxReboots               \* bound: restarts of the sensor

ASSUME SizesAssumption == {NPages, MAX_RETRY, PROCESS_CONF_NUMEVENTS} \subseteq Nat \ {0}
ASSUME KindsAssumption == Kinds \subseteq {"good", "bad", "symbol", "nostart", "big"}
ASSUME BoundsAssumption == MaxVersion \in Nat /\ MaxReboots \in Nat

Pages    == 1..NPages
Versions == 0..MaxVersion
(* A page of the file: the version it was received with, and how many      *)
(* times its addresses have been relocated.                                *)
Page  == [version: Versions, rel: Nat]
Blank == [p \in Pages |-> [version |-> 0, rel |-> 0]]
None  == <<>>

VARIABLES
  kind, slot,      \* of each version: what image it is, and where its process lies
  file,
  update_version,  \* the version Deluge is receiving,
  current_rx_page, \* and how many of its pages it has
  update_state,    \* Deluge has completed an image
  completed,       \* history: which version
  et,              \* the timer of ota_test_process is pending
  tries,           \* calls of codeload so far; 0 in the main loop
  memory,          \* the image that is in memory
  elfloader_autostart_processes,  \* the image whose list of processes it points to
  running,         \* the program on the process list
  timers,          \* the programs that have an event timer on the timer list
  events,          \* the event queue
  crashed,         \* the sensor has run into memory that is not what it takes it for
  astray,          \* history: an event went to what was not there when it was posted
  overtaken,       \* history: pages of a newer version were in a file that was loaded
  reboots          \* for the bound

imageVars  == <<kind, slot>>
delugeVars == <<update_version, current_rx_page, completed>>
loadVars   == <<memory, elfloader_autostart_processes>>
progVars   == <<running, timers>>
vars == <<imageVars, file, delugeVars, update_state, et, tries, loadVars, progVars,
          events, crashed, astray, overtaken, reboots>>

Boot ==
  /\ file = Blank /\ update_version = 0 /\ current_rx_page = NPages
  /\ update_state = 0 /\ completed = 0 /\ et = TRUE /\ tries = 0
  /\ memory = None /\ elfloader_autostart_processes = None
  /\ running = None /\ timers = {} /\ events = <<>>
  /\ crashed = FALSE /\ astray = FALSE /\ overtaken = FALSE
Init ==
  /\ kind \in [1..MaxVersion -> Kinds] /\ slot \in [1..MaxVersion -> Slots]
  /\ Boot /\ reboots = 0

(* A file of more than one version links to anything.                      *)
VersionsOf(f) == {f[p].version : p \in Pages}
Outcome(f) == IF \E v \in Versions : VersionsOf(f) = {v}
              THEN {kind[v] : v \in VersionsOf(f)} ELSE {"good", "bad", "symbol", "nostart"}
SlotOf(f) == slot[f[1].version]

Idle == tries = 0 /\ ~crashed
Room == Len(events) < PROCESS_CONF_NUMEVENTS
-----------------------------------------------------------------------------
(* Deluge, as far as it changes the file.                                  *)

HearProfile ==
  /\ Idle /\ update_version < MaxVersion
  /\ update_version' = update_version + 1
  /\ current_rx_page' = 0
  /\ UNCHANGED <<imageVars, file, update_state, completed, et, tries, loadVars, progVars,
                 events, crashed, astray, overtaken, reboots>>

(* A page comes from the gateway, or from a sensor that has linked it.     *)
CompletePageMut ==  \* mutation: a page completed counts for the image
  /\ Idle /\ current_rx_page < NPages
  /\ \E rel \in {0, 1} : file' = [file EXCEPT
       ![current_rx_page + 1] = [version |-> update_version, rel |-> rel]]
  /\ current_rx_page' = current_rx_page + 1
  /\ update_state' = 1 /\ completed' = update_version
  /\ UNCHANGED <<imageVars, update_version, et, tries, loadVars, progVars, events,
                 crashed, astray, overtaken, reboots>>
CompletePage ==
  /\ Idle /\ current_rx_page < NPages
  /\ \E rel \in {0, 1} : file' = [file EXCEPT
       ![current_rx_page + 1] = [version |-> update_version, rel |-> rel]]
  /\ current_rx_page' = current_rx_page + 1
  /\ IF current_rx_page + 1 = NPages
     THEN update_state' = 1 /\ completed' = update_version
     ELSE UNCHANGED <<update_state, completed>>
  /\ UNCHANGED <<imageVars, update_version, et, tries, loadVars, progVars, events,
                 crashed, astray, overtaken, reboots>>
-----------------------------------------------------------------------------
(* Events.  An event is for ota_test_process, or for a program's process,  *)
(* which is known by its address only.                                     *)

Tick == [to |-> None]

(* etimer_process posts for every timer that has expired.                  *)
TestTimer ==
  /\ Idle /\ et /\ Room
  /\ et' = FALSE
  /\ events' = Append(events, Tick)
  /\ UNCHANGED <<imageVars, file, delugeVars, update_state, tries, loadVars, progVars,
                 crashed, astray, overtaken, reboots>>
ProgramTimer ==
  /\ Idle /\ Room
  /\ \E prog \in timers :
       /\ timers' = timers \ {prog}
       /\ events' = Append(events, [to |-> prog])
  /\ UNCHANGED <<imageVars, file, delugeVars, update_state, et, tries, loadVars, running,
                 crashed, astray, overtaken, reboots>>

(* A program that is called may set its timer, post an event to itself (no *)
(* second one before the first has come), or end, which takes its timer    *)
(* off the list.                                                           *)
Runs(prog, q, t) ==
  \/ running' = prog /\ timers' \in {t, t \cup {prog}}
     /\ \/ events' = q
        \/ /\ Len(q) < PROCESS_CONF_NUMEVENTS /\ \A i \in DOMAIN q : q[i].to # prog
           /\ events' = Append(q, [to |-> prog])
  \/ running' = None /\ timers' = t \ {prog} /\ events' = q

(* call_process looks whether the process at that address is running.  If  *)
(* its memory was loaded over, that is whatever lies there now.            *)
ProgramEvent ==
  /\ Idle /\ events # <<>> /\ Head(events) # Tick
  /\ LET prog == Head(events).to
         there == running # None /\ SlotOf(running) = SlotOf(prog)
     IN
     /\ IF there THEN Runs(running, Tail(events), timers)
                 ELSE events' = Tail(events) /\ UNCHANGED progVars
     /\ astray' = (astray \/ memory # prog)
     /\ crashed' \in IF ~there /\ memory # prog THEN BOOLEAN ELSE {FALSE}
  /\ UNCHANGED <<imageVars, file, delugeVars, update_state, et, tries, loadVars, overtaken,
                 reboots>>

(* ota_test_process takes the flag; etimer_reset ends its turn.            *)
TestEvent ==
  /\ Idle /\ events # <<>> /\ Head(events) = Tick
  /\ events' = Tail(events)
  /\ update_state' = 0
  /\ IF update_state = 1 THEN tries' = 1 /\ UNCHANGED et ELSE et' = TRUE /\ UNCHANGED tries
  /\ overtaken' = (overtaken \/ (update_state = 1 /\ VersionsOf(file) # {completed}))
  /\ UNCHANGED <<imageVars, file, delugeVars, loadVars, progVars, crashed, astray, reboots>>
-----------------------------------------------------------------------------
(* codeload.                                                               *)

(* autostart_exit: the process leaves the list, and etimer_process, told   *)
(* of its exit, takes its timers off.                                      *)
RemainMut == timers  \* mutation: etimer_process ignores the exit
Remain == timers \ {elfloader_autostart_processes}
Exit ==
  /\ running' = IF elfloader_autostart_processes = None THEN running ELSE None
  /\ timers' = Remain

(* An entry of .rela holds its addend: what was in the file is overwritten. *)
RelocatedMut(page) == [page EXCEPT !.rel = @ + 1]  \* mutation: the addend of the file
Relocated(page) == [page EXCEPT !.rel = 1]
Linked(n) == [p \in Pages |-> IF p <= n THEN Relocated(file[p]) ELSE file[p]]

NextTryMut ==  \* mutation: no etimer_reset after the last
  IF tries < MAX_RETRY THEN tries' = tries + 1 /\ UNCHANGED et ELSE tries' = 0 /\ UNCHANGED et
NextTryMore ==  \* mutation: one call too many
  IF tries <= MAX_RETRY THEN tries' = tries + 1 /\ UNCHANGED et ELSE tries' = 0 /\ et' = TRUE
NextTry ==
  IF tries < MAX_RETRY THEN tries' = tries + 1 /\ UNCHANGED et ELSE tries' = 0 /\ et' = TRUE

(* After an image without a starting point the list of processes lies in   *)
(* memory that was loaded over.                                            *)
ExitAstray ==
  /\ tries > 0 /\ elfloader_autostart_processes \notin {None, memory} /\ ~crashed
  /\ crashed' = TRUE
  /\ UNCHANGED <<imageVars, file, delugeVars, update_state, et, tries, loadVars, progVars,
                 events, astray, overtaken, reboots>>

Loads(outcome) ==
  /\ tries > 0 /\ elfloader_autostart_processes \in {None, memory} /\ ~crashed
  /\ outcome \in Outcome(file)
  /\ UNCHANGED <<imageVars, delugeVars, update_state, astray, overtaken, reboots>>

(* No ELF header, no symbols, no text.                                     *)
LoadBad ==
  /\ Loads("bad")
  /\ Exit /\ NextTry
  /\ UNCHANGED <<file, loadVars, events, crashed>>
(* Addresses are written into the file up to the symbol that is not found. *)
LoadNoSymbolMut ==  \* mutation: memory is written before the addresses are known
  /\ Loads("symbol")
  /\ Exit /\ NextTry
  /\ \E n \in 0..NPages : file' = Linked(n)
  /\ memory' = file'
  /\ UNCHANGED <<elfloader_autostart_processes, events, crashed>>
LoadNoSymbol ==
  /\ Loads("symbol")
  /\ Exit /\ NextTry
  /\ \E n \in 0..NPages : file' = Linked(n)
  /\ UNCHANGED <<loadVars, events, crashed>>
(* Memory is loaded over before the starting point is looked for.          *)
LoadNoStart ==
  /\ Loads("nostart")
  /\ Exit /\ NextTry
  /\ file' = Linked(NPages) /\ memory' = file'
  /\ UNCHANGED <<elfloader_autostart_processes, events, crashed>>
(* elfloader_arch_allocate_ram does not look at the size.                  *)
LoadTooBig ==
  /\ Loads("big")
  /\ crashed' = TRUE
  /\ UNCHANGED <<file, et, tries, loadVars, progVars, events>>
LoadGood ==
  /\ Loads("good")
  /\ file' = Linked(NPages) /\ memory' = file' /\ elfloader_autostart_processes' = file'
  /\ Runs(file', events, Remain)
  /\ crashed' \in IF \E v \in Versions : VersionsOf(file) = {v} THEN {FALSE} ELSE BOOLEAN
  /\ tries' = 0 /\ et' = TRUE
-----------------------------------------------------------------------------
Reboot ==
  /\ reboots < MaxReboots /\ reboots' = reboots + 1
  /\ file' = Blank /\ update_version' = 0 /\ current_rx_page' = NPages
  /\ update_state' = 0 /\ completed' = 0 /\ et' = TRUE /\ tries' = 0
  /\ memory' = None /\ elfloader_autostart_processes' = None
  /\ running' = None /\ timers' = {} /\ events' = <<>>
  /\ crashed' = FALSE /\ astray' = FALSE /\ overtaken' = FALSE
  /\ UNCHANGED imageVars

Deluge   == HearProfile \/ CompletePage
codeload == ExitAstray \/ LoadBad \/ LoadNoSymbol \/ LoadNoStart \/ LoadTooBig \/ LoadGood
Next == Deluge \/ TestTimer \/ ProgramTimer \/ ProgramEvent \/ TestEvent \/ codeload \/ Reboot

Spec == Init /\ [][Next]_vars
(* The main loop takes the events that are queued; before each of them     *)
(* etimer_process tries again to post for the timers that have expired.    *)
FairSpec == /\ Spec
            /\ SF_vars(TestTimer) /\ WF_vars(ProgramEvent) /\ WF_vars(TestEvent)
            /\ WF_vars(codeload)
-----------------------------------------------------------------------------
(* Properties.                                                             *)

Files == [Pages -> Page]

(* Every variable keeps the type its declaration gives it.                 *)
TypeOK ==
  /\ kind \in [1..MaxVersion -> Kinds] /\ slot \in [1..MaxVersion -> Slots]
  /\ file \in Files
  /\ update_version \in Versions /\ completed \in Versions
  /\ current_rx_page \in 0..NPages /\ update_state \in {0, 1}
  /\ tries \in 0..MAX_RETRY /\ reboots \in 0..MaxReboots
  /\ et \in BOOLEAN /\ crashed \in BOOLEAN /\ astray \in BOOLEAN /\ overtaken \in BOOLEAN
  /\ memory \in Files \cup {None} /\ running \in Files \cup {None}
  /\ elfloader_autostart_processes \in Files \cup {None}
  /\ timers \subseteq Files
  /\ events \in Seq([to: Files \cup {None}]) /\ Len(events) <= PROCESS_CONF_NUMEVENTS

(* No process and no event timer lies in memory that has been loaded over: *)
(* a program is off both lists before the next one is loaded.              *)
NothingStale ==
  /\ running \in {None, memory}
  /\ timers \subseteq {running}

(* What is loaded is the version that Deluge completed, unless pages of a  *)
(* newer one have come since.                                              *)
LoadsCompleted ==
  tries > 0 => VersionsOf(file) = {completed} \/ update_version > completed

(* Addresses are relocated exactly once in a program that runs, whichever  *)
(* pages were linked before: by an earlier call or by the sensor they came *)
(* from.                                                                   *)
RelocatedOnce == running # None => \A p \in Pages : running[p].rel = 1

(* Loads go wrong only in ways that the loader does not look for: an event *)
(* to a program that was replaced, a file of mixed versions, an image that *)
(* is too big, or one without a starting point after one that started.     *)
SafeOtherwise ==
  crashed =>
    \/ astray \/ overtaken
    \/ \E v \in 1..completed : kind[v] = "big"
    \/ elfloader_autostart_processes # None /\ \E v \in 1..completed : kind[v] = "nostart"

(* A completed image does not wait for ever.                               *)
UpdateTaken == update_state = 1 ~> (update_state = 0 \/ crashed)

(* An event goes to the program for which it was posted, or to none.       *)
DeliveredToRunning == ~astray
=============================================================================
