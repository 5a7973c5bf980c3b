---------------------------- MODULE SerialFrame -----------------------------
(***************************************************************************)
(* The bytes from the gateway to network_control, and the decoder that     *)
(* finds the frames in them: port_frame and sent_report of                 *)
(* ota_gateway/serial_thread.c, frame_decode of net_interface.cpp.  The    *)
(* gateway decodes with the same code, a buffer of 30 bytes and no memset. *)
(* A frame is                                                              *)
(*   55 AA <length of id and data> <id> <data> <xor of length, id, data>   *)
(* The gateway's printf goes to the same UART, so there is text between    *)
(* the frames.                                                             *)
(***************************************************************************)
EXTENDS Integers, Sequences, SequencesExt

CONSTANTS
  ByteXor(_, _),    \* of two bytes
  Addrs,        \* addresses of sensors that complete an image: pairs of bytes
  Texts,        \* what is printed
  RX_BUF_LEN,   \* bytes in the decoder's buffer, 500 (30 on the gateway)
  MaxItems,     \* bound: frames and texts sent
  MaxLosses     \* bound: bytes lost (or one restart)

Byte == 0..255
ASSUME BytesAssumption == /\ \A a, b \in Byte : ByteXor(a, b) \in Byte
                          /\ Addrs \subseteq Byte \X Byte /\ Texts \subseteq Seq(Byte)
ASSUME SizeAssumption  == RX_BUF_LEN \in Nat /\ RX_BUF_LEN > 3
ASSUME LimitsAssumption == MaxItems \in Nat /\ MaxLosses \in Nat

HEADER_0 == 85
HEADER_1 == 170
CMD_FRAME    == 1
REPORT_FRAME == 2
START_FLY    == 3
NoFrame == [id |-> 255, data |-> <<>>]

(* The two frames that are ever sent.                                      *)
CmdFrame  == [id |-> CMD_FRAME, data |-> <<START_FLY>>]
Report(a) == [id |-> REPORT_FRAME, data |-> a]
Frames    == {CmdFrame} \cup {Report(a) : a \in Addrs}

(* get_check: the first byte of s counts the others.                       *)
get_checkSum(s) ==  \* mutation: the sum
  FoldLeft(+, s[1], SubSeq(s, 2, s[1] + 1))
get_check(s) == FoldLeft(ByteXor, s[1], SubSeq(s, 2, s[1] + 1))

Body(f)    == <<Len(f.data) + 1, f.id>> \o f.data
Sealed(f)  == Body(f) \o <<get_check(Body(f))>>
Encoded(f) == <<HEADER_0, HEADER_1>> \o Sealed(f)

DAT_STATE == {"DAT_INIT", "DAT_HEADER", "DAT_LEN", "DAT_ID", "DAT_DATA", "DAT_CHACK"}
(* Past its buffer the decoder writes to other variables: nothing more is  *)
(* said about it.                                                          *)
UNDEFINED == "undefined"

VARIABLES
  rest,           \* bytes that are being sent and have not come yet
  receive_state,
  data_buf,       \* what the frame that is being read has put into data_buf
  got,            \* the frame that was decoded last
  line,           \* history: frames sent, up to the last that was decoded
  items, losses,  \* history: how many, for the bounds
  clean,          \* history: frames sent since the last byte was lost, or the
                  \* last frame was read adrift
  decoded,        \* history: a frame was decoded since the last one was sent
  blurred         \* history: a fault that the check cannot tell, and the decoder
                  \* was not looking for a header between two things sent since

decoderVars == <<receive_state, data_buf, got>>
historyVars == <<items, losses, clean, decoded, blurred>>
vars == <<rest, decoderVars, line, historyVars>>

Init ==
  /\ rest = <<>> /\ receive_state = "DAT_INIT" /\ data_buf = <<>> /\ got = NoFrame
  /\ line = <<>> /\ items = 0 /\ losses = 0
  /\ clean = 0 /\ decoded = FALSE /\ blurred = FALSE

(* Outside DAT_CHACK, where the code's data_count is 0 again, it is        *)
(* Len(data_buf).                                                          *)
frame_len == data_buf[1]

(* The decoder waits for the rest of a frame whose length no sender wrote: *)
(* it took another byte for the length, after bytes were lost.             *)
Adrift ==
  /\ receive_state \in {"DAT_ID", "DAT_DATA", "DAT_CHACK"}
  /\ \A f \in Frames : frame_len # Len(f.data) + 1
-----------------------------------------------------------------------------
(* The gateway sends one thing after the other.                            *)

StartsOn(s) ==
  /\ rest = <<>> /\ rest' = s
  /\ items < MaxItems /\ items' = items + 1
  /\ blurred' = (blurred /\ receive_state # "DAT_INIT")
  /\ UNCHANGED <<decoderVars, losses>>

Sends(f, s) ==
  /\ StartsOn(s)
  /\ line' = Append(line, f)
  /\ clean' = clean + 1 /\ decoded' = FALSE

sent_cmd == Sends(CmdFrame, Encoded(CmdFrame))

(* gateway_process prints "s[end report to ]UAV", then sends the report.   *)
sent_report == \E a \in Addrs : Sends(Report(a), <<115, 85, 65, 86>> \o Encoded(Report(a)))

printf == \E t \in Texts : StartsOn(t) /\ UNCHANGED <<line, clean, decoded>>

(* The states in which the decoder takes a byte for part of a frame, and   *)
(* the first bytes of what the gateway sends: the header, "sUAV", texts.   *)
Reads == {"DAT_LEN", "DAT_ID", "DAT_DATA", "DAT_CHACK"}
Heads == {HEADER_0, 115} \cup {t[1] : t \in Texts \ {<<>>}}

(* s is what follows the header of the frame that was sent last.           *)
Follows(s) == line # <<>> /\ s = Sealed(line[Len(line)])

(* Losses that the check cannot tell.  The loss puts HEADER_1 behind a     *)
(* HEADER_0 that it did not follow;                                        *)
MakesHeader == /\ receive_state = "DAT_HEADER" /\ rest[1] # HEADER_0
               /\ Len(rest) > 1 /\ rest[2] = HEADER_1
(* it is another byte of what the decoder reads as one frame;              *)
SecondOfFrame == receive_state \in Reads /\ ~Follows(data_buf \o rest)
(* or the check, which is read as data then, needs as the next byte the    *)
(* lost one, and what the gateway sends next may begin with it.            *)
MadeUpFor == receive_state \in {"DAT_ID", "DAT_DATA"} /\ rest[1] \in Heads

(* A restart uses up the bound on what is lost.                            *)
Fault(cost, misleads) ==
  /\ losses + cost <= MaxLosses
  /\ losses' = losses + cost /\ clean' = 0
  /\ blurred' = (blurred \/ misleads)
  /\ UNCHANGED <<line, items, decoded>>

LoseByte ==
  /\ rest # <<>> /\ rest' = Tail(rest)
  /\ Fault(1, MakesHeader \/ SecondOfFrame \/ MadeUpFor) /\ UNCHANGED decoderVars
(* The gateway restarts within a frame; what it prints first is "Rime ...". *)
GatewayRestart ==
  /\ rest # <<>> /\ rest' = <<82, 105, 109, 101>>
  /\ Fault(MaxLosses, receive_state \in Reads) /\ UNCHANGED decoderVars
(* network_control starts again, and opens the port as late as it likes.   *)
NetRestart ==
  /\ \E n \in 0..Len(rest) : rest' = SubSeq(rest, n + 1, Len(rest))
  /\ Fault(MaxLosses, FALSE)
  /\ receive_state' = "DAT_INIT" /\ data_buf' = <<>> /\ got' = NoFrame
-----------------------------------------------------------------------------
(* frame_decode: one action per state.                                     *)

Comes(state) == rest # <<>> /\ receive_state = state /\ rest' = Tail(rest)
ch == Head(rest)

InitByte ==
  /\ Comes("DAT_INIT")
  /\ receive_state' = IF ch = HEADER_0 THEN "DAT_HEADER" ELSE "DAT_INIT"
  /\ UNCHANGED <<data_buf, got, line, historyVars>>

HeaderByte ==
  /\ Comes("DAT_HEADER")
  /\ receive_state' = IF ch = HEADER_1 THEN "DAT_LEN" ELSE "DAT_INIT"
  /\ UNCHANGED <<data_buf, got, line, historyVars>>

(* The length, the id and the data are kept in data_buf.                   *)
Kept(next) ==
  /\ data_buf' = Append(data_buf, ch)
  /\ receive_state' = IF Len(data_buf) < RX_BUF_LEN THEN next ELSE UNDEFINED
  /\ UNCHANGED <<got, line, historyVars>>

LenByte == Comes("DAT_LEN") /\ Kept("DAT_ID")
IdByte  == Comes("DAT_ID") /\ Kept("DAT_DATA")
DataByte ==
  /\ Comes("DAT_DATA")
  /\ Kept(IF Len(data_buf) = frame_len THEN "DAT_CHACK" ELSE "DAT_DATA")

(* data_decode takes the two frames it knows.  The buffer is cleared up to *)
(* its first 0; what stays behind is overwritten before it is read.        *)
CheckByteMut ==  \* mutation: a wrong check leaves the state as it is
  LET f == [id |-> data_buf[2], data |-> SubSeq(data_buf, 3, Len(data_buf))]
      good == ch = get_check(data_buf) /\ f.id \in {CMD_FRAME, REPORT_FRAME}
      sent == {i \in 1..Len(line) : line[i] = f}
  IN
  /\ Comes("DAT_CHACK")
  /\ receive_state' = IF good THEN "DAT_INIT" ELSE receive_state
  /\ data_buf' = IF good THEN <<>> ELSE data_buf
  /\ got'  = IF good THEN f ELSE got
  /\ line' = IF good /\ sent # {}
             THEN SubSeq(line, 1 + CHOOSE i \in sent : \A j \in sent : i <= j, Len(line))
             ELSE line
  /\ decoded' = (decoded \/ good)
  /\ clean' = IF Adrift THEN 0 ELSE clean
  /\ UNCHANGED <<items, losses, blurred>>
CheckByteKeep ==  \* mutation: data_count is not reset
  LET f == [id |-> data_buf[2], data |-> SubSeq(data_buf, 3, frame_len + 1)]
      good == ch = get_check(data_buf) /\ f.id \in {CMD_FRAME, REPORT_FRAME}
      sent == {i \in 1..Len(line) : line[i] = f}
  IN
  /\ Comes("DAT_CHACK")
  /\ receive_state' = "DAT_INIT" /\ UNCHANGED data_buf
  /\ got'  = IF good THEN f ELSE got
  /\ line' = IF good /\ sent # {}
             THEN SubSeq(line, 1 + CHOOSE i \in sent : \A j \in sent : i <= j, Len(line))
             ELSE line
  /\ decoded' = (decoded \/ good)
  /\ clean' = IF Adrift THEN 0 ELSE clean
  /\ UNCHANGED <<items, losses, blurred>>
CheckByteAny ==  \* mutation: the check is not compared
  LET f == [id |-> data_buf[2], data |-> SubSeq(data_buf, 3, Len(data_buf))]
      good == f.id \in {CMD_FRAME, REPORT_FRAME}
      sent == {i \in 1..Len(line) : line[i] = f}
  IN
  /\ Comes("DAT_CHACK")
  /\ receive_state' = "DAT_INIT" /\ data_buf' = <<>>
  /\ got'  = IF good THEN f ELSE got
  /\ line' = IF good /\ sent # {}
             THEN SubSeq(line, 1 + CHOOSE i \in sent : \A j \in sent : i <= j, Len(line))
             ELSE line
  /\ decoded' = (decoded \/ good)
  /\ clean' = IF Adrift THEN 0 ELSE clean
  /\ UNCHANGED <<items, losses, blurred>>
CheckByte ==
  LET f == [id |-> data_buf[2], data |-> SubSeq(data_buf, 3, Len(data_buf))]
      good == ch = get_check(data_buf) /\ f.id \in {CMD_FRAME, REPORT_FRAME}
      sent == {i \in 1..Len(line) : line[i] = f}
  IN
  /\ Comes("DAT_CHACK")
  /\ receive_state' = "DAT_INIT" /\ data_buf' = <<>>
  /\ got'  = IF good THEN f ELSE got
  /\ line' = IF good /\ sent # {}
             THEN SubSeq(line, 1 + CHOOSE i \in sent : \A j \in sent : i <= j, Len(line))
             ELSE line
  /\ decoded' = (decoded \/ good)
  /\ clean' = IF Adrift THEN 0 ELSE clean
  /\ UNCHANGED <<items, losses, blurred>>
-----------------------------------------------------------------------------
Gateway == sent_cmd \/ sent_report \/ printf
Faults  == LoseByte \/ GatewayRestart \/ NetRestart
frame_decode == InitByte \/ HeaderByte \/ LenByte \/ IdByte \/ DataByte \/ CheckByte

Next == Gateway \/ Faults \/ frame_decode

Spec == Init /\ [][Next]_vars
-----------------------------------------------------------------------------
(* Properties.                                                             *)

(* Every variable keeps the type its declaration gives it.                 *)
TypeOK ==
  /\ rest \in Seq(Byte) /\ data_buf \in Seq(Byte)
  /\ receive_state \in DAT_STATE \cup {UNDEFINED}
  /\ line \in Seq(Frames)
  /\ got.id \in Byte /\ got.data \in Seq(Byte)
  /\ {items, losses, clean} \subseteq Nat /\ decoded \in BOOLEAN /\ blurred \in BOOLEAN

(* The decoder writes past its buffer only when it was adrift.             *)
InBuffer ==
  receive_state = UNDEFINED => \A f \in Frames : frame_len # Len(f.data) + 1

(* It has the second of two undamaged frames in a row, whatever it was     *)
(* doing before, counted from the end of a frame that it reads adrift.     *)
Resyncs ==
  (rest = <<>> /\ clean >= 2) => (decoded \/ Adrift \/ receive_state = UNDEFINED)

(* What network_control is told is what the gateway sent: nothing is made  *)
(* up, told twice, or told out of order, whatever the addresses and however *)
(* many bytes are lost, except behind the losses named above and a restart *)
(* of the gateway within a frame.  That exception ends when something is   *)
(* sent while the decoder is looking for a header.                         *)
Line == INSTANCE CommandLine WITH None <- NoFrame
KeepsLine ==
  Line!Init /\ [][blurred' \/ Line!Send \/ Line!Deliver \/ Line!Lose \/ Line!Forget]_<<line, got>>

(* The same without exception: one lost byte breaks it.                    *)
ToldAsSent == Line!Spec
=============================================================================
