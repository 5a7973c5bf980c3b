# Verification of adler

adler is a wireless sensor network with a UAV as its base station.  Sensors run
Contiki 2.7 programs (`src/contiki-2.7/aerialnet`); a gateway mote hangs on the
UAV; the UAV's computer runs two ROS programs (`src/catkin_src`).  This
directory holds TLA+ models of the project's own programs, TLC configurations
that check them on small instances, and TLAPS proofs for all instances.

Run a configuration with `tlc -config X.cfg M`, where `M` is the module named in
the tables below, and check proofs with `tlapm M.tla`.

## 1. The system

| Part | Source | State it keeps | Operations | Talks to |
|---|---|---|---|---|
| Deluge, sensor side | `OTA_RX/deluge_rx.c`, `.h` | versions, complete pages, packet sets, page buffer, file, protocol state, four timers, queued page, suppression counter | handlers of summary, request, packet and profile; timer callbacks; the round | radio neighbours; the application polls its update flag |
| Deluge, gateway side | `ota_gateway/deluge_tx.c` | the same, without receiving pages | the same handlers; posts an event for a sensor that completed | radio; gateway application |
| OTA application, loader | `OTA_RX/test-ota.c`, `codeload.c`, `core/loader/elfloader*.c`, `core/sys/autostart.c` | update flag, file, memory, process and timer lists | boot, poll every 5 s, stop the old program, link, load, start, retry | Deluge, the kernel, the loaded program |
| Gateway application | `ota_gateway/gateway.c` | SLEEP or MISSION, mission timer | reacts to serial and Deluge events | Deluge, serial thread |
| Serial line | `cpu/msp430/f1xxx/uart1.c`, `core/lib/ringbuf.c`, `core/dev/serial-line.c`, `ota_gateway/serial_thread.c`, `network_control/src/net_interface.cpp` | DMA buffer, ring buffer, line buffer, event queue; decoder state, last command | callback timer, gather and post a line; decode a byte, send a frame | gateway application, network_control |
| network_control | `network_control/src/network_control.cpp` | network state, copy of the UAV's state, last command | main loop, topic callback, read thread | uav_control by two topics, gateway by the serial line |
| uav_control | `uav_control/src/uav_task.cpp`, `my_flight_control.cpp` | running state, waypoint count, target, counters of `Mission::step`, last network state | task state machine at every GPS tick, operator's menu, monitored take-off | network_control, the drone, the operator |
| Gathering | `gathering/gather.c`, `gathering_sink/gather.c` | route, parent, package count; record file | timer, button, forward; record | neighbours |
| Flooding | `flood/`, `flood_rx/`, `flood_rx_uav/test-flood.c` | package count; newest package, last message, log | send every second; send on what is new | neighbours |
| Deluge variants | `OTA_TX`, `deluge`, `deluge_rx`, `deluge_tx` | as above | earlier copies of the deployed pair | |
| Measurements, tests | `rssi_*`, `rpl-collect`, `burn_id`, `format-cfs`, `shell-exec` | none shared | sample and print | |
| Contiki 2.7, DJI SDK | the rest of `contiki-2.7`, `Onboard-SDK-ROS/dji_sdk*` | | upstream and vendor code | |

What makes the parts right, and what is hard about them:

* **Deluge.**  Every node has its own state and only sees messages that may be
  lost, late or damaged; two images may be on the air at once; sensors reboot.
  A page flagged complete must hold its own data, a version may change only
  with all pages, a node must never wait without a timer, and a sensor in range
  must get its image in the end.
* **Mission.**  Three programs without a common clock agree about whose turn it
  is by one-byte commands sent once.  The gateway's network mission may run
  only while the UAV holds at a point, once per stop.
* **Serial line.**  Towards the gateway everything is handed on by reference:
  one line buffer, one `UAV_cmd`; only the order of the event queue keeps the
  writer behind the readers.  On the way back the decoder has six states, no
  escape bytes and no timeout: a lost byte must not forge a frame, and it must
  find the next header.
* **Loader.**  A program is loaded over the one before it while the kernel may
  still hold its processes, timers and events; the file is linked in place and
  may be overwritten by Deluge or served to neighbours.
* **Gathering.**  Each sensor is switched to its route by hand, alone: at any
  time several routing tables are in force, and there is no hop limit.
* **Flooding.**  Copies come back and overtake each other; only a comparison of
  package numbers ends the flood.

The hazards, each at its line and with the properties that cover it, are in
`PROJECT.json`.

## 2. Modules

| Module | What it holds |
|---|---|
| `Deluge` | sensors and gateway as one network; one action per handler, timer callback and round; implements `ImageTransfer` |
| `MCDeluge` | networks, views and the symmetry of sensors for TLC |
| `ImageTransfer` | abstract: a sensor accepts an image, gets it page by page, runs it, loads it |
| `OtaLoad` | the poll, `codeload`, the ELF loader and the kernel's lists of one sensor |
| `Survey` | abstract: the UAV holds, a session opens and closes, the UAV leaves |
| `Mission` | uav_control, network_control and gateway with topics and line; implements `Survey` |
| `MCMission` | the states beyond which TLC does not follow `Mission` |
| `CommandLine` | abstract: a lossy line with frames in order, each at most once |
| `SerialFrame`, `MCSerialFrame` | bytes from gateway to network_control and the decoder; implements `CommandLine` |
| `SerialLine` | bytes from the UART's DMA to the command that `gateway_process` reads |
| `Gather`, `MCGather` | sensors and sink; the routing table of `gather.c` |
| `Flood`, `MCFlood` | source, relays, UAV; a small network |
| `DelugeProofs`, `PromiseProofs` | proofs about `Deluge`: its invariants; what it promises to the application and to the ground |
| `LineProofs`, `FrameProofs` | proofs about `SerialLine`, `SerialFrame` |
| `OtaProofs`, `MissionProofs`, `GatherProofs`, `FloodProofs` | proofs about `OtaLoad`, `Mission`, `Gather`, `Flood` |

How they compose: `CommandLine` is what `SerialFrame` shows of the bytes on the
serial line, and the sequences `toUav` and `toGateway` of `Mission` stand for it; `SerialLine` shows for the other
direction that the command an event was posted for is the one that is read,
which `Mission`'s queue `serialEvents` takes for granted.  `Deluge` holds the
radio side of gateway and sensors, `OtaLoad` what a sensor does with a completed
image; the two share the update flag and the file.

A definition whose name ends in `Mut` (or `Mute`, `More`, `Sum`, `Keep`, `Any`
after the name of its neighbour) is a small mutation of the definition it stands
before, for the sensitivity checks listed in `PROJECT.json`.

### Deluge

State corresponds one to one to the fields of `deluge_object`, `deluge_page` and
the static variables of `deluge_rx.c`, indexed by node; `air` is the set of
deliveries that can still happen.  Contiki runs one handler or callback at a
time to its end, so each is one action: `RecvSummary`..., `RecvRequest`,
`StorePacket` with `CompletePage`, `IgnorePacket`, `GarbledPacket`,
`RecvProfile`, `SummaryTimer`, `ProfileTimer`, `RequestTimer`, `TxTimer`,
`Round`.  `PollUpdate` and `Reboot` are those of `test-ota.c`;
`GatewayReport` is the event handler of `gateway.c`, and `Reflash` the gateway
with a newer `IMAGE_VERSION`.

Abstractions.  The 2.5 s rate limit (`last_request`, `last_data`) is a
nondeterministic choice, which covers every outcome of the comparison and the
wrap of the clock.  The interval's doubling is absent, since rounds may come at
any time; the gateway's round waits for its own summary timer because `r_rand`
is shorter than `r_interval`.  Statistics, LEDs, the object's id, `malloc` and
flash failures are left out.  Identical messages under way from one sender to
one node are one delivery.  ContikiMAC repeats a frame until it is heard and
drops copies, and frames have no order.  A damaged packet always fails its CRC.
What a request for a page past the end reads or overwrites is outside the
model: it asks for everything.  No sensor has the address of the sink
(`SINK_ID`), which would start as version 1 of a blank file.  `told` and
`reported` are histories.

The loader links an image inside the file that Deluge goes on serving
(`codeload.c:17`, `elfloader-msp430.c:105-114`): `PollUpdate` writes addresses into
the first pages of `flash`, as far as the loader may get, and leaves them complete.
So a packet here is its version, page and number and whether a loader has written
into it, and "the data of its version" (`ImageIntegrity`, `PendingImageWhole`,
`KeepsTransfer`, `TrueLabels` of `IndInv`) is meant modulo such addresses (`Copies`).
That a sensor sends what was built is false: `SentAsBuilt`, `deluge_linked`.

`KeepsTransfer` maps `version`, `updateVersion`, `Available` and the flash of the
sensors to `ImageTransfer`: a page of the file counts as image v only when all
its packets are v's.  The abstract file changes by whole pages in order, the
installed image only with the last page, and nothing at all while a load is
pending.

### OtaLoad

One sensor.  `file` has for each page its version and how often it has been
relocated; `memory`, `running`, `timers` and `elfloader_autostart_processes`
name images, so a pointer into memory that was loaded over is one that differs
from `memory`.  `TestTimer`, `ProgramTimer`, `ProgramEvent` and `TestEvent` are the
event timer and `do_event`; `LoadGood`, `LoadBad`, `LoadNoSymbol`,
`LoadNoStart`, `LoadTooBig` the outcomes of `elfloader_load`, each with
`autostart_exit` before it and the retry after it; `ExitAstray` is
`autostart_exit` on a list that was loaded over.  `codeload` keeps the
processor, so its tries follow each other.

Abstractions.  An image is of one of five kinds instead of sections and
symbols; where its process lies is one of two places.  A program has one
process and at most one self-posted event in the queue; child processes outside
its list, callback timers and Rime connections of the program are left out, as
is a file that cannot be opened.  A file of mixed versions links to anything.

How many images follow one another without a restart is for Deluge to say.  At
this commit its length check lets version 1 through and no later one
(`deluge_later`), which is `MaxVersion = 1`; `codeload` and the loader are
written for any number, and the run asks what they do with two.  So what
`OtaLoad` says of a second image is about the loader's own code.

What the model shows besides its properties: the retries never change the
outcome, since the file is the same; relocation entries hold their addend, so a
file linked in place is linked again, here or by a neighbour that was served it,
without harm;
after an image without a starting point, `elfloader_autostart_processes` points
into memory that was loaded over.

### Mission

`running_state`, `waypoint_count`, `finished`, `network_msg` are uav_control's;
`net_state`, `uav_state`, `NET_cmd` network_control's; `gate_state`,
`UAV_cmd`, `serialEvents` the gateway's.  Topics and line are sequences.
Callbacks that wait inside `M100monitoredTakeoff` while `ros::spinOnce` runs
others are the stack `takeoffs`.  A take-off that returns to `main` or to a
callback sends the UAV on its way wherever it is by then; `interrupted` is the
history of one that sent it off from a point, `restarted` that `network_control`
has started again.  `Loss` covers a dropped frame and a full event
queue; `Crashes` restarts network_control or the gateway (not uav_control,
whose restart in the air no code handles).

`Sample(within)` is one call of `Mission::step` before the target is near,
with the code's `inbound_counter` and `outbound_counter`; `Brake` one after.
Whether a sample is in bounds is a choice, which covers the GPS arithmetic.
`seen` is a history of the last samples for the target, as many as the counters
can stand for, and `ArrivesInBounds` says of it what they are meant to say.

Left out: the byte format (see `SerialFrame`), REPORT frames and the log, the
drone's dynamics (`Rise`, `TouchDown` are its environment).  An M100 is assumed,
as in `main`.

### SerialLine and SerialFrame

`SerialLine` has a place in what was sent for each byte, so that any mixture of
lines shows.  `Arrive` is the DMA, `Tick` with `DrainByte` and `DrainDone` the
1/64 s callback that copies to the ring buffer, `Poll`, `GetByte`, `GetEnd`,
`Yield`, `ContinueEvent` the process that gathers a line, `LineEvent` and
`OtherEvent` the readers, `OtherPosts` every other process that uses the queue.
While the DMA's bytes are copied, more may come.  `OneLine`, `InOrder` and
`CommandOfEvent` hold unless a line was posted and the CONTINUE behind it
refused, by a queue with exactly one free place: `halfPosted` names that case.

`SerialFrame` has real bytes, the exclusive or and the decoder's six states.
A lost byte takes the decoder out of step.  If the length byte is lost, the id
is taken for it; other bytes may be such a length too: the decoder counts past
`frame_len + 1` and stays adrift until `data_buf` overruns, or reads on until a
longer length ends in the middle of whatever is being sent then.  `InBuffer` says
that an overrun has no other cause, and `Resyncs` that the second of two undamaged
frames gets through, counted from the last loss and from the end of the last
frame read adrift (`clean`).  Counted from the loss alone it is false: a frame
made up of 14 bytes can swallow two.  The address 12 of `MCSerialFrame` is there for
that.

The check is one exclusive or, and some losses it cannot tell.  The model names
them: a second byte of what the decoder reads as one frame (`SecondOfFrame`); a
loss that puts an AA behind another 55 (`MakesHeader`); a byte behind the length
which the next thing sent may begin with, since the check that is left would have
to be followed by just that byte (`MadeUpFor`: 55 of a header, the "s" of "sUAV",
the first letter of a text); and a restart of the gateway within a frame.  The
history `blurred` records them until something is sent while the decoder looks
for a header.  `KeepsLine` says that nothing is forged, repeated or overtaken
otherwise, for addresses that have all these bytes in them.  The exception is
real: one lost byte of a report of the sensor 2.85 makes a report that was never
sent (`serial_forged`, `ToldAsSent`), and so it is with 115 in an address.

### Gather and Flood

`Gather` takes the table `rout_list` as a constant and assumes of it that
parents are other sensors or the sink with smaller addresses; `MCGather`
evaluates the assumption on all twelve columns of the table in the code.  The
readings in a package, LEDs and the record file's number are left out.  In
`Flood` a message is its sender, package id and hop count; the payload's filling
is left out.  `via` (the nodes passed), `lost` and `resends` (how often a relay
has sent a package on) are histories.

## 3. Runs

| Run (cfg) | Module | Question | Bounds |
|---|---|---|---|
| `deluge_pair` | MCDeluge | Are complete pages and pending files whole, is nobody stuck, is `ImageTransfer` implemented, is the proved invariant one? Reboots, a second gateway image, linked files | 1 sensor, 2 pages of 2 packets, 2 versions, 2 queue places, no reports |
| `deluge_star` | MCDeluge | Is nobody stuck where two sensors contend for the gateway and packets are damaged; are reports true? | 2 sensors out of each other's range, 2 pages of 1 packet |
| `deluge_live` | MCDeluge | Does a sensor in range get its image whatever is lost? | 1 sensor, 2 pages of 1 packet |
| `deluge_later` | MCDeluge | fails: image 2 is never accepted | 1 sensor, 1 page, 2 versions |
| `deluge_crc` | MCDeluge | fails: a damaged duplicate reaches the flash | 1 sensor, 1 page of 2 packets |
| `mission_tour` | MCMission | One turn at a time, `Survey` kept, arrivals counted right, with lost commands, restarts and take-offs inside one another | the code's 5 waypoints, topics of 10; counters 2, 1, 1 for 50, 10, 50; 3 take-offs inside one another |
| `mission_live` | Mission | Does a flying UAV finish its tour? | the same, 2 take-offs, no loss |
| `gather_routes` | MCGather | No circle, no second copy, every package recorded or lost | first 3 columns of the table, 1 package each, all 4 routes |
| `flood_mesh` | MCFlood | No relay sends a package twice, last package reaches all | 3 relays, 1 UAV, 2 packages |
| `serial_line` | SerialLine | Whole lines in order, the command of the event, nothing left behind | buffers of 4 for 128, queue of 3 for 8, 3 lines of up to 4 bytes |
| `serial_frame` | MCSerialFrame | `CommandLine` kept, the decoder in its buffer and back in step | 6 frames or texts, 3 lost bytes or a restart, buffer of 20 for 500 (30 on the gateway) |
| `ota_load` | OtaLoad | Nothing stale listed, the completed image loaded, crashes explained, every update taken | 2 images of any kind, 2 pages, queue of 3 for 8, 1 restart |

The bounds are enough for the interesting cases to happen: two pages make page
order and mixed pages possible, two packets a half-filled page, two versions a
change of image in the middle of an update, two queue places a burst that does
not fit.  Two
sensors are enough for requests and events that overtake each other.  In
`deluge_pair`, where the sensor has one neighbour, the mixture of senders is
missing: the proofs below cover it for every network.  The same run has no place
for the gateway's events (`MaxEvents = 0`), which `deluge_star` has; `deluge_star`
looks at states without what its properties do not read (`ReportView`).  Three columns give
chains of three hops on one route and shortcuts on the others.  In `serial_line`
lines are as long as the buffers, so both overflow, and one event of others
is enough to fill the queue behind a line.  A buffer of 20 bytes is longer than
two frames, so the decoder can find its way back before it overruns.  With the
counters of `Mission::step` at 2 and 1 a UAV can drift out, be forgiven, drift
out again and start over.

`MaxPending`, the number of take-offs that wait inside one another, is 3 in
`mission_tour` and 2 in `mission_live`; one waits in `main` and the others in a
callback each.  Where one of them returns while the UAV holds at a point, it sends
the UAV off: `StaysAtPoint` is false (`mission_nested`), and the session at that
point is then not the one of `Survey`.  `KeepsSurvey` holds up to that departure
and `OneTurn` also after it, unless `network_control` restarts as well; the
constraint `InScope` stops TLC there, where neither says anything any more and
nothing bounds the missions under way.

`CHECK_DEADLOCK FALSE` stands in the configurations of `Mission` (the operator
quits), `Flood` (the last package has been heard), `SerialFrame` (all is sent)
and `OtaLoad` (the sensor has crashed): there the program stops.

Failing runs state what the code's comments promise; the findings in
`PROJECT.json` quote them.  Further configurations of that kind, not in the
list of runs: `deluge_wild` (a request for a page past the end), `deluge_addr` (a
request to nobody), `deluge_event` (one of two completions is never reported),
`deluge_told` (a completion is not told), `deluge_midway` (an update neither ends
nor gives up), `mission_climb` (a second take-off counts as an arrival),
`mission_callback` (a callback waits in itself), `mission_nested` (a take-off that
waited sends the UAV off from a point), `deluge_linked` (a sensor sends a page with
the addresses of a loader), `serial_forged` (one lost byte forges a report),
`serial_wait` (the process
runs before its readers have), `ota_stray` (an event for the old program goes to
the second one), `flood_log` (a log line holds the message before).  Further
ones that pass: `deluge_mesh` (3 nodes that all hear each other, without reports),
`deluge_live_packets` (liveness with a page of two packets),
`ota_one` (one image per boot, as Deluge delivers at this commit: no event goes
astray).

### Fairness

* `Deluge`: weak fairness of the round, of every set timer, of the gateway's
  process and of the update poll, since Contiki's clock and scheduler run; and
  of losing a frame per sender, since a frame does not stay in a MAC for ever.
  Strong fairness of hearing a given kind of message from a given neighbour: a
  neighbour in range that keeps sending is heard at some time.  Without it no
  image would ever arrive.  With room for one frame only (`QueueBufs = 1`) a
  page burst always meets a full queue and liveness fails; the platform has more.
* `OtaLoad`: weak fairness of the events and of `codeload`; strong fairness of the
  poll's timer, because `etimer_process` tries again to post before every event,
  so a queue that is not always full is found with a free place.
* `SerialLine`: weak fairness of the main loop, one action for whatever the one
  thread does next.
* `Mission`: weak fairness of every loop and callback, of samples in bounds and of
  braking; nothing is assumed of the operator.  `Timely` says that the
  gateway's 60 s outlast the 20 ms `usleep` of `serial_port_write`, `Steady` that
  the drone is held where it arrived.  Only `mission_live` uses them:
  `mission_tour` lets mission and `usleep` race and the UAV drift.
* `Gather`, `Flood`: weak fairness of a frame's arrival (losing it ends that
  too) and of the source's timer.

## 4. Proofs

Every theorem holds for all values of the constants that satisfy the named
assumptions of its module; TLC evaluates each assumption on the runs.

`DelugeProofs` proves for any sensors, links, page and packet counts, versions
and buffers that `IndInv` is an invariant.  None of the properties is inductive
alone.  `UpdateAtomic` needs to know that profiles carry one version for all
pages and none newer than the gateway's (`UniformProfiles`, `GatewayLeads`), and
that packets are counted for one page at a time (`PacketsCounted`), since it is
the last packet that completes a page.  `NoStuckState` needs that a queued page
has something to send (`UsefulRequests`) and that a node which serves has no
update in progress (`ServesWhole`): that is why it never enters RX with a page
queued.  `RequestsMissing` connects the request timer to the update, and
`SensorsUpdateOnce`, a consequence of the length check, bounds what a sensor can
be after.  `ImageIntegrity` and `PendingImageWhole` need `TrueLabels` (every
packet under way and every counted packet in a buffer carries its label's data, but
for the addresses of loaders)
and hold where no damaged packet gets to `handle_packet` (`~Garbles`);
`deluge_crc` shows that the assumption is needed.  Theorems: `Invariance`,
`TypeCorrect`, `UpdatesAtomic`, `NeverStuck`, `UpdateOnce`, `ImagesWhole`,
`LoadsWhole`.

`PromiseProofs` has two parts.  `TransfersImages` shows that `Deluge` implements
`ImageTransfer`, with `~Garbles`.  The initial states agree, and each action is a
step of the abstract transfer or a stutter for it.  A profile accepted by a
sensor is `Accept`: profiles are uniform, so every page turns stale, and a sensor
updates once, so nothing is pending that would be lost.  The last packet of a
page is `ReceivePage` or `Install`, which need `ImageIntegrity` after the step, for the page in
the file must be the image the label names.

`ReportsSound` proves that a sensor reported to the ground has the gateway's
image, without reboots (`~Reboots`): a rebooted sensor is at version 1 of its
file again while its earlier summary may still be under way.  The
invariant adds that summaries under way are true of their sender
(`TruthfulSummaries`), and that the event data points to a sensor that is up to
date (`PointerUpToDate`).

`OtaProofs`: `OtaInv` is the type invariant with `Progress` (pages
arrive in order), `Pending` (what waits to be loaded is what was completed, or it
was overtaken), `Lists` and `ListAstray` (what the lists of processes and timers
may name), `RelocatedOnce` and
`SafeOtherwise`.  Theorems, for any number of pages, queue and `MaxVersion`:
`TypeCorrect`, `NeverStale`, `LoadsWhatItReported`, `LinkedForGood`,
`CrashesExplained`.

`MissionProofs`: `TypeCorrect` (with `Counting`: the inbound counter passes its
bound only in the step that starts to brake), `OneTurnAtATime` and `SurveyKept`
hold for any topic length and number of take-offs inside one another, with lost
commands and restarts.  Up to the first departure from a point on a take-off's
return, the turn is one token (`Turns`: `interrupted \/ TurnInv`): `UnderWay`
counts the command to start, the gateway's mission and the answer, which is at
most one, and `served` tells on which side of the mission it is (`TurnOfGateway`);
unless the UAV holds at a point nothing is under way (`TurnOfUav`), and the UAV
hears SLEEPING only when everything is quiet again (`TurnOver`).  After such a
departure nothing can be said of the UAV, which may hover, fly and start over
inside its own take-off, and `OneTurn` rests on `network_control` alone: it puts
a command on the line only when it takes off for a point, and does not do so again
before it has read an answer (`Answered`), as long as it does not restart.
`BrakesInBounds` proves `ArrivesInBounds` for any bounds.  The counters are
related to the samples by `SightInv`: of as many last samples as the two
counters have counted together, at least `inbound_counter` were in bounds, and
the window has room for them; every sample moves the others one place further
from its end, and a reset empties counters and window together.

`LineProofs`: a byte of `SerialLine` is its place in what was sent, and the
invariant follows it.  `Stream`: the unread bytes of the DMA's buffer are the last
that came; distances in the circle take the place of the code's modulus
(`DistIsUnread`), and the pace leaves one place free, without which full and empty
look alike.  `LineInv`: for some last byte `g` taken out of the ring, the bytes in
the ring follow `g` and each other, with gaps only up to the END of a line
(`Chained`), and what the callback puts in next follows the last of them
(`CaughtUp`); the line buffer holds the line of `g` from its first byte on
(`Gathered`), and a posted line is that line (`PostedLine`).  `Waits` and `Queue`
are why nobody overwrites it: `serial_line_process` waits exactly while its
CONTINUE is queued, and that is behind the line, which is behind every event
for `gateway_process`.  One disjunct is `halfPosted`: when the queue took the
line and refused the CONTINUE, nothing more is claimed.  Theorems, for all sizes
of buffers and queue: `TypeCorrect`, `Invariance`, `LinesAreOne`, `LinesInOrder`,
`CutsExplained`, `CommandsStay`.

`FrameProofs`: while the decoder gathers a payload it holds no more bytes than
the length byte announced, and it goes adrift only if that byte is not the length
of a frame (`FrameInv`).  `StaysInBuffer` and `TypeCorrect` follow for any
addresses, texts and buffer and any number of lost bytes; that `get_check` yields a byte is
shown by unrolling its fold over the two lengths a frame has (`FoldIs`).

`LineKept` proves `KeepsLine`: the bytes implement `CommandLine`, for any addresses,
texts, buffer and number of lost bytes and restarts, up to the faults that blur
the line (section 2).  Three conditions are assumed.  `PlainTexts`: nothing printed
contains 55 AA or begins with AA; printed text is ASCII.  `PlainFrames`: no frame
contains 55 AA behind its header, which excludes only the addresses 85.170 and
254.85.  `XorLaws`: the check is commutative, associative, has 0 for its unit and
cancels itself (TLC evaluates these laws for the run's exclusive or).

The invariant is `blurred \/ SyncInv \/ Hurt`.  `SyncInv`: outside a frame, whatever
follows a header on the line is the payload of the frame sent last; inside one, the
bytes kept and the bytes to come together are that payload.  So a frame that passes
its check then is the last one sent, and `Deliver` of the abstract line.  `Hurt`: a
frame has lost one byte.  A command without its length byte is read until the buffer
is full (`Overlong`); a report without it is read as a frame of two, whose check
differs (`Early`); without another byte the frame lacks its check, which is now the
byte that was lost (`Short`), and what the gateway sends next does not begin with
that byte; and if the check itself is lost, the frame is one that was sent
(`Unchecked`).  A step that does not blur the line is one of these losses
(`SparseFaults`), and where the exception ends `SyncInv` holds again (`ClearAgain`).

`LineUndamaged` proves that without exception (`ToldAsSent`) and of any check, where
no byte is lost and the gateway does not restart while the decoder has begun to read
what it takes for a frame (`Undamaged`); bytes lost while it looks for a header,
and restarts of `network_control` at any point, are allowed.

`BackInStep` proves `Resyncs`, for any losses, restarts, addresses and buffer.
`PlainEnds` is assumed besides `PlainTexts`: no printed line ends with 55, nor does a
command; lines end with a line feed, and the command with 0.  Of the reports
nothing is assumed.  The invariant (`BackInv`, checked by TLC before) says where the
decoder is after one undamaged frame unless it is adrift: it looks for a header,
in bytes that hold none or that announce a frame (`Idle`, `Coming`); or
it is in another frame and will be done with it before the header it misses, or
after that in bytes that hold none (`Swallows`), since it reads at most four bytes
more and a report is announced by four; or it is about to go adrift (`Astray`).
After a second one it has decoded a frame or is reading it (`Coming`).

`GatherProofs`: from the assumption that parents descend, `Descends` (a package
is sent to an address smaller than all it has passed) is inductive together with
`ParentOfRoute`; `OnePlace` needs `Originated`, so that a new package differs
from all that exist.  Theorems: `TypeCorrect`, `NeverLoops`, `RecordedOnce`.

`FloodProofs`: whoever sent a copy on has seen its package (`SeenByRelays`), so a
relay for which it is new is not among them and the history grows with the hop
count; the hop count is then bounded by the number of relays, which
`TypeOK` states.  `SentOnce` needs that what a relay has not seen it has not sent on
(`NewUnsent`).  Theorems: `TypeCorrect`, `EachSentOnce`.

Only model-checked: every liveness property
(`Converges`, `AllPointsVisited`, `Delivered`, `LastReaches`, `Drains`,
`UpdateTaken`), since liveness under fairness and ENABLED are out of the prover's
reach.

## 5. Not modelled

* The other versions of Deluge in `aerialnet` (copies with other constants) and
  the radio measurement and test programs, which have no protocol.
* Contiki 2.7 beyond what the components stand on.  Its event queue, polls,
  event timers, start and exit of processes, ring buffer, serial line and ELF
  loader are modelled with their users; its ports, drivers, IP and Rime stacks
  are the upstream system.  They make up most of the lines of this repository,
  so the share of all lines that the modules translate is small while the share
  of Adler's own protocol code is large.
* DJI's Onboard SDK and its ROS node: modelled as `uav_control` uses them
  (take-off answers, samples of the position, touch-down).
* Reading the waypoint file and the GPS arithmetic of `Mission::step`: whether a
  sample is in bounds is a choice.
* Failures of `malloc` and of the flash, whose results the code ignores; a
  missing file in `codeload`; child processes, callback timers and connections of
  loaded programs; the clock arithmetic of Deluge's rounds, of which the model
  takes every outcome; a restart of `uav_control` in the air, which no code
  handles.

## 6. Plan

Done: the modules, runs and proofs above.  Left, in order:

1. `RoundTimer`: interval, random offset and clock with their widths
   (`deluge_rx.c:341`, `deluge_tx.c:688`), to justify the guard of `Round` and the
   free choice of the rate limit.
2. Flash writes that fail or write short in `Deluge` (`deluge_rx.c:499`).
