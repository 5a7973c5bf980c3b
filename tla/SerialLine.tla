----------------------------- MODULE SerialLine -----------------------------
(***************************************************************************)
(* How a line from the UAV gets to the gateway's program.  The UART's DMA  *)
(* fills a circular buffer (cpu/msp430/f1xxx/uart1.c), a callback timer    *)
(* puts what came into a ring buffer (core/lib/ringbuf.c), and             *)
(* serial_line_process (core/dev/serial-line.c) gathers a line and posts   *)
(* it to ez240_uart_process (ota_gateway/serial_thread.c), which decodes   *)
(* it and posts an event to gateway_process.                               *)
(*                                                                         *)
(* Line, command and event are handed on by reference: there is one line   *)
(* buffer and one UAV_cmd.  Only the order of the events in the one queue  *)
(* of core/sys/process.c keeps their writer from overtaking the readers.   *)
(***************************************************************************)
EXTENDS Integers, Sequences

CONSTANTS
  BUFSIZE,                 \* of the ring buffer and of the line buffer (128)
  RXBUFSIZE,               \* of the DMA's buffer (128)
  PROCESS_CONF_NUMEVENTS,  \* places in the event queue (8)
  Burst,                   \* bytes that can come before the timer callback runs
  Others,                  \* bound: queued events of all other processes
  MaxLines, MaxLen         \* bounds: lines sent, bytes in a line

ASSUME SizesAssumption ==
  /\ BUFSIZE \in Nat \ {0, 1} /\ RXBUFSIZE \in Nat \ {0}
  /\ PROCESS_CONF_NUMEVENTS \in Nat \ {0}
(* The UAV sleeps 20 ms after each frame of 7 bytes; the callback runs     *)
(* every 1/64 s.                                                           *)
ASSUME PaceAssumption   == Burst \in 0..RXBUFSIZE-1
ASSUME BoundsAssumption == Others \in Nat /\ MaxLines \in Nat /\ MaxLen \in Nat

(* A byte is its place in what the UAV sent; place 0 is the END (0x0a) of  *)
(* its line.  NUL terminates a C string.                                   *)
Lines  == 1..MaxLines
Bytes  == [line: Lines, pos: 0..MaxLen]
IsEnd(c) == c.pos = 0
NUL    == [line |-> 0, pos |-> 0]

VARIABLES
  lens,       \* history: the lengths of the lines that have come completely
  pos,        \* bytes of the line that is coming
  rxbuf,      \* the DMA's buffer
  DMA0SZ,     \* places left before the DMA starts again
  last_size,  \* where the callback has read to
  size,       \* DMA0SZ when the callback started
  ring,       \* the ring buffer
  overflow,   \* the rest of the line is ignored
  buf, ptr,   \* the line buffer, and where the next byte goes
  waiting,    \* serial_line_process waits for PROCESS_EVENT_CONTINUE
  needspoll,  \* serial_line_process is to be polled
  pc,         \* what the one thread does: the main loop, the callback, the process
  events,     \* the event queue
  UAV_cmd,    \* the line of the last command decoded
  read,       \* history: the lines that the program was given
  spilled,    \* history: the lines that met a full ring buffer
  halfPosted  \* history: a line was posted, the CONTINUE after it was refused

inVars  == <<lens, pos, rxbuf, DMA0SZ>>
dmaVars == <<last_size, size, ring, overflow, spilled>>
bufVars == <<buf, ptr, waiting>>
appVars == <<UAV_cmd, read>>
vars == <<inVars, dmaVars, bufVars, needspoll, pc, events, appVars, halfPosted>>

Init ==
  /\ lens = <<>> /\ pos = 0
  /\ rxbuf = [i \in 0..RXBUFSIZE-1 |-> NUL]
  /\ DMA0SZ = RXBUFSIZE /\ last_size = RXBUFSIZE /\ size = RXBUFSIZE
  /\ ring = <<>> /\ overflow = FALSE /\ spilled = {}
  /\ buf = [i \in 0..BUFSIZE-1 |-> NUL] /\ ptr = 0 /\ waiting = FALSE
  /\ needspoll = FALSE /\ pc = "loop" /\ events = <<>>
  /\ UAV_cmd = 0 /\ read = <<>> /\ halfPosted = FALSE
-----------------------------------------------------------------------------
(* The UART.                                                               *)

(* DMA0SZ and last_size count down and start again from RXBUFSIZE.         *)
Down(s) == IF s = 1 THEN RXBUFSIZE ELSE s - 1
Unread  == (last_size - DMA0SZ) % RXBUFSIZE

(* A byte comes: the next one of the line, or its END.                     *)
Arrive(end) ==
  /\ Unread < Burst /\ Len(lens) < MaxLines
  /\ IF end THEN pos > 0 ELSE pos < MaxLen
  /\ rxbuf' = [rxbuf EXCEPT ![RXBUFSIZE - DMA0SZ] =
       [line |-> Len(lens) + 1, pos |-> IF end THEN 0 ELSE pos + 1]]
  /\ DMA0SZ' = Down(DMA0SZ)
  /\ lens' = IF end THEN Append(lens, pos) ELSE lens
  /\ pos' = IF end THEN 0 ELSE pos + 1
  /\ UNCHANGED <<dmaVars, bufVars, needspoll, pc, events, appVars, halfPosted>>

(* process_post: refused when the queue is full.                           *)
Room == Len(events) < PROCESS_CONF_NUMEVENTS
Event(e) == [ev |-> e, line |-> 0]

(* etimer_process finds the callback's timer expired; it tries again as    *)
(* long as the queue is full.                                              *)
Tick ==
  /\ pc = "loop" /\ Room
  /\ \A i \in DOMAIN events : events[i].ev # "timer"
  /\ events' = Append(events, Event("timer"))
  /\ UNCHANGED <<inVars, dmaVars, bufVars, needspoll, pc, appVars, halfPosted>>
-----------------------------------------------------------------------------
(* The main loop polls before it takes an event.                           *)
Takes(e) == pc = "loop" /\ ~needspoll /\ events # <<>> /\ Head(events).ev = e

(* ctimer_process runs handle_rxdma_timer.                                 *)
TimerEvent ==
  /\ Takes("timer")
  /\ events' = Tail(events)
  /\ size' = DMA0SZ
  /\ pc' = "drain"
  /\ UNCHANGED <<inVars, last_size, ring, overflow, spilled, bufVars, needspoll,
                 appVars, halfPosted>>

(* serial_line_input_byte: ringbuf_put keeps one place empty.  After a     *)
(* byte that finds no room, everything is skipped up to an END that does.  *)
RingRoomMut == Len(ring) < BUFSIZE  \* mutation: no place is kept empty
RingRoom == Len(ring) < BUFSIZE - 1
DrainByteMut ==  \* mutation: the first byte that fits ends the overflow
  LET c == rxbuf[RXBUFSIZE - last_size] IN
  /\ pc = "drain" /\ last_size # size
  /\ IF RingRoom
     THEN ring' = Append(ring, c) /\ overflow' = FALSE /\ UNCHANGED spilled
     ELSE overflow' = TRUE /\ spilled' = spilled \cup {c.line} /\ UNCHANGED ring
  /\ last_size' = Down(last_size)
  /\ needspoll' = TRUE
  /\ UNCHANGED <<inVars, size, bufVars, pc, events, appVars, halfPosted>>
DrainByte ==
  LET c == rxbuf[RXBUFSIZE - last_size] IN
  /\ pc = "drain" /\ last_size # size
  /\ IF RingRoom /\ (overflow => IsEnd(c))
     THEN ring' = Append(ring, c) /\ overflow' = FALSE /\ UNCHANGED spilled
     ELSE overflow' = TRUE /\ spilled' = spilled \cup {c.line} /\ UNCHANGED ring
  /\ last_size' = Down(last_size)
  /\ needspoll' = TRUE
  /\ UNCHANGED <<inVars, size, bufVars, pc, events, appVars, halfPosted>>

DrainDone ==
  /\ pc = "drain" /\ last_size = size
  /\ pc' = "loop"
  /\ UNCHANGED <<inVars, dmaVars, bufVars, needspoll, events, appVars, halfPosted>>

(* do_poll calls serial_line_process, which ignores it while it waits.     *)
PollMut ==  \* mutation: the poll ends the wait
  /\ pc = "loop" /\ needspoll
  /\ needspoll' = FALSE
  /\ pc' = "serial" /\ waiting' = FALSE /\ ptr' = 0
  /\ UNCHANGED <<inVars, dmaVars, buf, events, appVars, halfPosted>>
Poll ==
  /\ pc = "loop" /\ needspoll
  /\ needspoll' = FALSE
  /\ pc' = IF waiting THEN "loop" ELSE "serial"
  /\ UNCHANGED <<inVars, dmaVars, bufVars, events, appVars, halfPosted>>
-----------------------------------------------------------------------------
(* serial_line_process: its loop, one ringbuf_get at a time.               *)

(* The ring buffer is empty: PROCESS_YIELD.                                *)
Yield ==
  /\ pc = "serial" /\ ring = <<>>
  /\ pc' = "loop"
  /\ UNCHANGED <<inVars, dmaVars, bufVars, needspoll, events, appVars, halfPosted>>

GetByteMut ==  \* mutation: off by one, the last place is not used
  /\ pc = "serial" /\ ring # <<>> /\ ~IsEnd(Head(ring))
  /\ ring' = Tail(ring)
  /\ IF ptr < BUFSIZE - 2
     THEN buf' = [buf EXCEPT ![ptr] = Head(ring)] /\ ptr' = ptr + 1
     ELSE UNCHANGED <<buf, ptr>>
  /\ UNCHANGED <<inVars, last_size, size, overflow, spilled, waiting, needspoll, pc,
                 events, appVars, halfPosted>>
GetByte ==
  /\ pc = "serial" /\ ring # <<>> /\ ~IsEnd(Head(ring))
  /\ ring' = Tail(ring)
  /\ IF ptr < BUFSIZE - 1
     THEN buf' = [buf EXCEPT ![ptr] = Head(ring)] /\ ptr' = ptr + 1
     ELSE UNCHANGED <<buf, ptr>>
  /\ UNCHANGED <<inVars, last_size, size, overflow, spilled, waiting, needspoll, pc,
                 events, appVars, halfPosted>>

(* The line is posted, and behind it CONTINUE to the process itself; the   *)
(* process waits only if the queue took the second.                        *)
Posted(list) ==
  LET free == PROCESS_CONF_NUMEVENTS - Len(events) IN
  events \o SubSeq(list, 1, IF free < Len(list) THEN free ELSE Len(list))
GetEndMut ==  \* mutation: the line is overwritten while it is posted
  /\ pc = "serial" /\ ring # <<>> /\ IsEnd(Head(ring))
  /\ ring' = Tail(ring)
  /\ buf' = [buf EXCEPT ![ptr] = NUL]
  /\ events' = Posted(<<Event("line")>>)
  /\ ptr' = 0
  /\ UNCHANGED <<inVars, last_size, size, overflow, spilled, needspoll, appVars, waiting,
                 pc, halfPosted>>
GetEnd ==
  LET free == PROCESS_CONF_NUMEVENTS - Len(events) IN
  /\ pc = "serial" /\ ring # <<>> /\ IsEnd(Head(ring))
  /\ ring' = Tail(ring)
  /\ buf' = [buf EXCEPT ![ptr] = NUL]
  /\ events' = Posted(<<Event("line"), Event("continue")>>)
  /\ IF free >= 2
     THEN ptr' = ptr + 1 /\ waiting' = TRUE /\ pc' = "loop"
     ELSE ptr' = 0 /\ UNCHANGED <<waiting, pc>>
  /\ halfPosted' = (halfPosted \/ free = 1)
  /\ UNCHANGED <<inVars, last_size, size, overflow, spilled, needspoll, appVars>>

ContinueEventMut ==  \* mutation: it goes on only when polled
  /\ Takes("continue")
  /\ events' = Tail(events)
  /\ waiting' = FALSE /\ ptr' = 0 /\ UNCHANGED pc
  /\ UNCHANGED <<inVars, dmaVars, buf, needspoll, appVars, halfPosted>>
ContinueEvent ==
  /\ Takes("continue")
  /\ events' = Tail(events)
  /\ waiting' = FALSE /\ ptr' = 0 /\ pc' = "serial"
  /\ UNCHANGED <<inVars, dmaVars, buf, needspoll, appVars, halfPosted>>
-----------------------------------------------------------------------------
(* The programs.                                                           *)

(* The string in the line buffer.                                          *)
Text ==
  LET n == CHOOSE i \in 0..BUFSIZE-1 : buf[i] = NUL /\ \A j \in 0..i-1 : buf[j] # NUL
  IN  [i \in 1..n |-> buf[i - 1]]

(* ez240_uart_process feeds the line to frame_decode (module SerialFrame), *)
(* which may find a command in it: data_decode, process_post.              *)
LineEvent(found) ==
  /\ Takes("line")
  /\ read' = Append(read, Text)
  /\ found => Text # <<>>
  /\ UAV_cmd' = IF found THEN Text[1].line ELSE UAV_cmd
  /\ events' = Tail(events) \o
       (IF found THEN <<[ev |-> "serial", line |-> Text[1].line]>> ELSE <<>>)
  /\ UNCHANGED <<inVars, dmaVars, bufVars, needspoll, pc, halfPosted>>

(* gateway_process reads UAV_cmd; any other process handles its event.     *)
OtherEvent ==
  /\ Takes("serial") \/ Takes("other")
  /\ events' = Tail(events)
  /\ UNCHANGED <<inVars, dmaVars, bufVars, needspoll, pc, appVars, halfPosted>>

(* Any other process posts an event.                                       *)
OtherPosts ==
  /\ pc = "loop" /\ Room
  /\ Len(SelectSeq(events, LAMBDA e : e.ev = "other")) < Others
  /\ events' = Append(events, Event("other"))
  /\ UNCHANGED <<inVars, dmaVars, bufVars, needspoll, pc, appVars, halfPosted>>
-----------------------------------------------------------------------------
MainLoop ==
  \/ TimerEvent \/ DrainByte \/ DrainDone
  \/ Poll \/ Yield \/ GetByte \/ GetEnd \/ ContinueEvent
  \/ (\E found \in BOOLEAN : LineEvent(found)) \/ OtherEvent

Next == (\E end \in BOOLEAN : Arrive(end)) \/ Tick \/ MainLoop \/ OtherPosts

Spec == Init /\ [][Next]_vars

(* The main loop runs for ever.                                            *)
FairSpec == Spec /\ WF_vars(MainLoop)
-----------------------------------------------------------------------------
(* Properties.  Handing lines on by reference works as long as no CONTINUE *)
(* is refused behind a line that was not: that takes a queue with exactly  *)
(* one free place.                                                         *)

(* Every variable keeps its type, and every index its buffer.              *)
Events == [ev: {"timer", "line", "continue", "serial", "other"}, line: 0..MaxLines]
TypeOK ==
  /\ lens \in Seq(0..MaxLen) /\ Len(lens) <= MaxLines /\ pos \in 0..MaxLen
  /\ rxbuf \in [0..RXBUFSIZE-1 -> Bytes \cup {NUL}]
  /\ DMA0SZ \in 1..RXBUFSIZE /\ last_size \in 1..RXBUFSIZE /\ size \in 1..RXBUFSIZE
  /\ ring \in Seq(Bytes) /\ Len(ring) < BUFSIZE
  /\ overflow \in BOOLEAN /\ spilled \subseteq Lines
  /\ buf \in [0..BUFSIZE-1 -> Bytes \cup {NUL}]
  /\ ptr \in 0..BUFSIZE /\ (pc = "serial" => ptr < BUFSIZE)
  /\ waiting \in BOOLEAN /\ needspoll \in BOOLEAN /\ halfPosted \in BOOLEAN
  /\ pc \in {"loop", "drain", "serial"}
  /\ events \in Seq(Events) /\ Len(events) <= PROCESS_CONF_NUMEVENTS
  /\ UAV_cmd \in 0..MaxLines
  /\ read \in Seq(Seq(Bytes))

(* The program is given the beginning of one line, never parts of two,     *)
(* however the buffers overflow and whatever else is in the queue.         *)
OneLine ==
  halfPosted \/ \A k \in DOMAIN read : \A i \in DOMAIN read[k] :
                   read[k][i] = [line |-> read[k][1].line, pos |-> i]

(* It is given no line twice, and none after a later one.                  *)
InOrder ==
  halfPosted \/ \A j, k \in {m \in DOMAIN read : read[m] # <<>>} :
                   j < k => read[j][1].line < read[k][1].line

(* It is given a whole line, unless the line is too long for the buffer or *)
(* the ring buffer was full when it came.                                  *)
CutOnlyWhenFull ==
  halfPosted \/ \A k \in {m \in DOMAIN read : read[m] # <<>>} :
                   LET i == read[k][1].line IN
                   Len(read[k]) \in {lens[i], BUFSIZE - 1} \/ i \in spilled

(* The command that gateway_process finds in UAV_cmd is the one whose      *)
(* event it handles: no later line has overwritten it.                     *)
CommandOfEvent ==
  \/ halfPosted
  \/ events # <<>> /\ Head(events).ev = "serial" => Head(events).line = UAV_cmd

(* No byte is left behind in the ring buffer, and the process does not     *)
(* wait for ever, although polls that come while it waits have no effect.  *)
Drains == []<>(ring = <<>> /\ ~waiting)

(* core/dev/serial-line.c:131: "Wait until all processes have handled the  *)
(* serial line event".  While a line is posted, serial_line_process does   *)
(* not run.                                                                *)
WaitsForReaders == pc = "serial" => \A i \in DOMAIN events : events[i].ev # "line"
=============================================================================
