----------------------------- MODULE FrameProofs ------------------------------
(***************************************************************************)
(* Proofs about SerialFrame, for every size of the buffer that holds a     *)
(* frame, all addresses and texts and any number of lost bytes: types; the *)
(* decoder leaves its buffer only when it took another byte for a length;  *)
(* network_control is told what the gateway sent, in order, but for the    *)
(* losses that the check cannot tell; and the decoder has the second of    *)
(* two frames that come undamaged.                                         *)
(***************************************************************************)
EXTENDS SerialFrame, SequenceTheorems, WellFoundedInduction, TLAPS

-----------------------------------------------------------------------------
(* The length byte of a frame the gateway sends.                           *)
Lengths == {2, 3}

-----------------------------------------------------------------------------
(* A command has one byte of data, a report two.                           *)
LEMMA FrameLengths ==
  ASSUME NEW f \in Frames
  PROVE  /\ f = [id |-> f.id, data |-> f.data] /\ f.id \in {CMD_FRAME, REPORT_FRAME}
         /\ f.id \in Byte /\ f.data \in Seq(Byte) /\ Len(f.data) + 1 \in Lengths
         /\ Len(f.data) \in {1, 2} /\ Len(f.data) + 1 \in Byte
<1>1. CASE f = CmdFrame
  BY <1>1 DEF CmdFrame, CMD_FRAME, REPORT_FRAME, START_FLY, Byte, Lengths
<1>2. CASE \E a \in Addrs : f = Report(a)
  <2>1. PICK a \in Addrs : f = Report(a)
    BY <1>2
  <2>2. PICK x \in Byte, y \in Byte : a = <<x, y>>
    BY BytesAssumption
  <2>3. f.id = 2 /\ f.data = <<x, y>> /\ f = [id |-> f.id, data |-> f.data]
    BY <2>1, <2>2 DEF Report, REPORT_FRAME
  <2> QED
    BY <2>2, <2>3 DEF Byte, Lengths, CMD_FRAME, REPORT_FRAME
<1> QED
  BY <1>1, <1>2 DEF Frames

-----------------------------------------------------------------------------
(* The maximum that FoldLeft takes its places in the order of.              *)
LEMMA MaxIs ==
  ASSUME NEW s \in SUBSET (1..3)
  PROVE  /\ 3 \in s => Max(s) = 3
         /\ 3 \notin s /\ 2 \in s => Max(s) = 2
         /\ s = {1} => Max(s) = 1
         /\ s = {} \/ 3 \in s \/ (3 \notin s /\ 2 \in s) \/ s = {1}
<1>1. \A m \in s : (\A y \in s : m >= y) => Max(s) = m
  <2>1. SUFFICES ASSUME NEW m \in s, \A y \in s : m >= y PROVE Max(s) = m
    OBVIOUS
  <2>2. Max(s) \in s /\ \A y \in s : Max(s) >= y
    BY <2>1 DEF Max
  <2> DEFINE n == Max(s)
  <2>3. m \in s /\ n \in s /\ m >= n /\ n >= m
    BY <2>1, <2>2
  <2> HIDE DEF n
  <2>4. m = n
    BY <2>3
  <2> QED
    BY <2>4 DEF n
<1>2. 3 \in s => Max(s) = 3
  BY <1>1
<1>3. 3 \notin s /\ 2 \in s => Max(s) = 2
  BY <1>1
<1>4. s = {1} => Max(s) = 1
  BY <1>1
<1>5. s = {} \/ 3 \in s \/ (3 \notin s /\ 2 \in s) \/ s = {1}
  <2>1. SUFFICES ASSUME 3 \notin s, 2 \notin s PROVE s \subseteq {1}
    OBVIOUS
  <2> QED
    BY <2>1
<1> QED
  BY <1>2, <1>3, <1>4, <1>5

(* FoldLeft over two or three bytes: its recursive function exists (h is   *)
(* one), so it is what CHOOSE finds, and it is applied step by step.       *)
LEMMA FoldIs ==
  ASSUME NEW b \in Byte, NEW q \in Seq(Byte), Len(q) \in {2, 3}
  PROVE  /\ FoldLeft(ByteXor, b, q) \in Byte
         /\ Len(q) = 2 => FoldLeft(ByteXor, b, q) = ByteXor(ByteXor(b, q[1]), q[2])
         /\ Len(q) = 3 => FoldLeft(ByteXor, b, q) = ByteXor(ByteXor(ByteXor(b, q[1]), q[2]), q[3])
<1> DEFINE S == DOMAIN q
           F(i) == [s \in SUBSET S |-> IF s = {} THEN b
                                       ELSE LET m == Max(s) IN ByteXor(i[s \ {m}], q[m])]
           iter == CHOOSE i : i = F(i)
           a1(s) == IF 1 \in s THEN ByteXor(b, q[1]) ELSE b
           a2(s) == IF 2 \in s THEN ByteXor(a1(s), q[2]) ELSE a1(s)
           a3(s) == IF 3 \in s THEN ByteXor(a2(s), q[3]) ELSE a2(s)
           h == [s \in SUBSET S |-> a3(s)]
<1>0. /\ S \in {{1, 2}, {1, 2, 3}} /\ S \subseteq 1..3
      /\ Len(q) = 2 => S = {1, 2}
      /\ Len(q) = 3 => S = {1, 2, 3}
  OBVIOUS
<1>1. FoldLeft(ByteXor, b, q) = iter[S]
  BY DEF FoldLeft, MapThenFoldSet
<1>q. \A m \in S : q[m] \in Byte
  OBVIOUS
<1> HIDE DEF S
<1>2. h = F(h)
  <2>1. \A s \in SUBSET S : a3(s) = IF s = {} THEN b ELSE LET m == Max(s) IN ByteXor(h[s \ {m}], q[m])
    <3>1. SUFFICES ASSUME NEW s \in SUBSET S
          PROVE a3(s) = IF s = {} THEN b ELSE LET m == Max(s) IN ByteXor(h[s \ {m}], q[m])
      OBVIOUS
    <3>2. \A m : h[s \ {m}] = a3(s \ {m})
      OBVIOUS
    <3>3. CASE s = {}
      BY <3>3
    <3>4. CASE 3 \in s
      <4>1. Max(s) = 3
        BY <1>0, <3>4, MaxIs
      <4> QED
        BY <3>2, <3>4, <4>1
    <3>5. CASE 3 \notin s /\ 2 \in s
      <4>1. Max(s) = 2
        BY <1>0, <3>5, MaxIs
      <4> QED
        BY <3>2, <3>5, <4>1
    <3>6. CASE s = {1}
      <4>1. Max(s) = 1
        BY <1>0, <3>6, MaxIs
      <4> QED
        BY <3>2, <3>6, <4>1
    <3> QED
      BY <1>0, <3>3, <3>4, <3>5, <3>6, MaxIs
  <2>2. h = [s \in SUBSET S |-> a3(s)]
    OBVIOUS
  <2> HIDE DEF a1, a2, a3, h
  <2> QED
    BY <2>1, <2>2
<1>fix. iter = F(iter)
  <2> HIDE DEF h, F
  <2> QED
    BY <1>2
<1>3. /\ iter[{}] = b
      /\ \A s \in SUBSET S : \A t, m : s # {} /\ m = Max(s) /\ t = s \ {m}
           => iter[s] = ByteXor(iter[t], q[m])
  <2> HIDE DEF iter
  <2> QED
    BY <1>fix
<1> HIDE DEF iter, h, a1, a2, a3
<1>4. iter[{}] = b
  BY <1>3
<1>5. iter[{1}] = ByteXor(b, q[1]) /\ iter[{1}] \in Byte
  <2>1. {1} \in SUBSET S /\ {1} # {} /\ Max({1}) = 1 /\ {1} \ {1} = {}
    BY <1>0, MaxIs
  <2>2. iter[{1}] = ByteXor(iter[{}], q[1])
    BY <1>3, <2>1
  <2> QED
    BY <1>4, <1>q, <2>1, <2>2, BytesAssumption
<1>6. iter[{1, 2}] = ByteXor(iter[{1}], q[2]) /\ iter[{1, 2}] \in Byte
  <2>1. {1, 2} \in SUBSET S /\ {1, 2} # {} /\ {1, 2} \ {2} = {1}
    BY <1>0
  <2>2. Max({1, 2}) = 2
    BY <1>0, <2>1, MaxIs
  <2>3. iter[{1, 2}] = ByteXor(iter[{1}], q[2])
    BY <1>3, <2>1, <2>2, SMT
  <2> QED
    BY <1>5, <1>q, <2>1, <2>3, BytesAssumption
<1>7. CASE Len(q) = 3
  <2>0. S = {1, 2, 3}
    BY <1>0, <1>7
  <2>1. {1, 2, 3} \in SUBSET S /\ {1, 2, 3} # {} /\ {1, 2, 3} \ {3} = {1, 2}
    BY <2>0
  <2>2. Max({1, 2, 3}) = 3
    BY <1>0, <2>1, MaxIs
  <2>3. iter[{1, 2, 3}] = ByteXor(iter[{1, 2}], q[3])
    BY <1>3, <2>1, <2>2
  <2>4. iter[{1, 2, 3}] \in Byte
    BY <1>6, <1>q, <2>1, <2>3, BytesAssumption
  <2> QED
    BY <1>1, <1>5, <1>6, <1>7, <2>0, <2>3, <2>4
<1>8. CASE Len(q) = 2
  <2>1. S = {1, 2} /\ Len(q) # 3
    BY <1>0, <1>8
  <2>2. FoldLeft(ByteXor, b, q) = iter[{1, 2}]
    BY <1>1, <2>1
  <2> HIDE DEF F
  <2> QED
    BY <1>5, <1>6, <2>1, <2>2
<1> QED
  BY <1>7, <1>8

(* get_check counts a whole payload, and yields a byte.                    *)
LEMMA BodyType ==
  ASSUME NEW f \in Frames
  PROVE  /\ Body(f) \in Seq(Byte) /\ Len(Body(f)) = Len(f.data) + 2
         /\ Body(f)[1] = Len(f.data) + 1 /\ Body(f)[2] = f.id
         /\ SubSeq(Body(f), 3, Len(Body(f))) = f.data
<1>1. f.id \in Byte /\ f.data \in Seq(Byte) /\ Len(f.data) + 1 \in Byte /\ Len(f.data) \in {1, 2}
  BY FrameLengths
<1> DEFINE p == <<Len(f.data) + 1, f.id>>
<1>2. p \in Seq(Byte) /\ Len(p) = 2 /\ p[1] = Len(f.data) + 1 /\ p[2] = f.id
  BY <1>1
<1> HIDE DEF p
<1>3. Body(f) = p \o f.data
  BY DEF Body, p
<1>4. /\ Body(f) \in Seq(Byte) /\ Len(Body(f)) = Len(f.data) + 2
      /\ \A i \in 1..2 : Body(f)[i] = p[i]
      /\ \A i \in 1..Len(f.data) : Body(f)[i + 2] = f.data[i]
  <2>1. /\ Body(f) \in Seq(Byte) /\ Len(Body(f)) = Len(p) + Len(f.data)
        /\ \A i \in 1..Len(p) + Len(f.data) :
             Body(f)[i] = IF i <= Len(p) THEN p[i] ELSE f.data[i - Len(p)]
    <3>1. /\ p \o f.data \in Seq(Byte) /\ Len(p \o f.data) = Len(p) + Len(f.data)
          /\ \A i \in 1..Len(p) + Len(f.data) :
               (p \o f.data)[i] = IF i <= Len(p) THEN p[i] ELSE f.data[i - Len(p)]
      BY <1>1, <1>2, ConcatProperties
    <3> QED
      BY <1>3, <3>1
  <2>2. \A i \in 1..Len(f.data) : i + 2 \in 1..2 + Len(f.data) /\ ~(i + 2 <= 2) /\ (i + 2) - 2 = i
    BY <1>1
  <2>3. \A i \in 1..2 : i \in 1..2 + Len(f.data) /\ i <= 2
    BY <1>1
  <2> QED
    BY <1>1, <1>2, <2>1, <2>2, <2>3
<1>5. SubSeq(Body(f), 3, Len(Body(f))) = f.data
  <2> DEFINE s == SubSeq(Body(f), 3, Len(Body(f)))
  <2>1. s \in Seq(Byte) /\ Len(s) = Len(f.data) /\ \A i \in 1..Len(s) : s[i] = Body(f)[i + 2]
    BY <1>1, <1>4, SubSeqProperties
  <2> HIDE DEF s
  <2> DEFINE d == f.data
  <2>2. /\ s \in Seq(Byte) /\ d \in Seq(Byte) /\ Len(s) = Len(d)
        /\ \A i \in 1..Len(s) : s[i] = d[i]
    BY <1>1, <1>4, <2>1
  <2> HIDE DEF d
  <2>3. s = d
    BY <2>2, SeqEqual
  <2> QED
    BY <2>3 DEF s, d
<1> QED
  BY <1>2, <1>4, <1>5

LEMMA SealedType ==
  ASSUME NEW f \in Frames
  PROVE  /\ get_check(Body(f)) \in Byte
         /\ Sealed(f) \in Seq(Byte) /\ Len(Sealed(f)) = Len(f.data) + 3
         /\ Sealed(f)[1] = Len(f.data) + 1
         /\ Encoded(f) = <<HEADER_0, HEADER_1>> \o Sealed(f) /\ Encoded(f) \in Seq(Byte)
<1> DEFINE b == Body(f)
           c == get_check(b)
<1>1. /\ b \in Seq(Byte) /\ Len(b) = Len(f.data) + 2 /\ b[1] = Len(f.data) + 1
      /\ b[1] \in Byte /\ Len(f.data) \in {1, 2}
  BY BodyType, FrameLengths
<1>d. Encoded(f) = <<HEADER_0, HEADER_1>> \o (b \o <<c>>) /\ Sealed(f) = b \o <<c>>
  BY DEF Encoded, Sealed
<1>2. c \in Byte
  <2> DEFINE q == SubSeq(b, 2, b[1] + 1)
  <2> HIDE DEF b, c, q
  <2>1. q \in Seq(Byte) /\ Len(q) \in {2, 3}
    <3>1. b[1] + 1 \in {3, 4} /\ b[1] + 1 <= Len(b)
      <4>1. (b[1] = 2 /\ Len(b) = 3) \/ (b[1] = 3 /\ Len(b) = 4)
        <5>1. CASE Len(f.data) = 1
          BY <1>1, <5>1
        <5>2. CASE Len(f.data) = 2
          BY <1>1, <5>2
        <5> QED
          BY <1>1, <5>1, <5>2
      <4>2. b[1] + 1 \in {3, 4}
        BY <4>1
      <4>3. b[1] + 1 <= Len(b)
        BY <4>1
      <4> QED
        BY <4>2, <4>3
    <3>2. \A i \in 2..b[1] + 1 : b[i] \in Byte
      BY <1>1, <3>1
    <3> QED
      BY <3>1, <3>2, SubSeqProperties DEF q
  <2>2. c = FoldLeft(ByteXor, b[1], q)
    BY DEF get_check, c, q
  <2> QED
    BY <1>1, <2>1, <2>2, FoldIs
<1> HIDE DEF b, c
<1>3. <<c>> \in Seq(Byte) /\ Len(<<c>>) = 1 /\ <<HEADER_0, HEADER_1>> \in Seq(Byte)
  BY <1>2 DEF HEADER_0, HEADER_1, Byte
<1>4. /\ b \o <<c>> \in Seq(Byte) /\ Len(b \o <<c>>) = Len(b) + 1
      /\ (b \o <<c>>)[1] = b[1]
  BY <1>1, <1>3, ConcatProperties
<1>5. <<HEADER_0, HEADER_1>> \o (b \o <<c>>) \in Seq(Byte)
  BY <1>3, <1>4, ConcatProperties
<1>6. c = get_check(Body(f))
  BY DEF b, c
<1> QED
  BY <1>1, <1>2, <1>4, <1>5, <1>6, <1>d

-----------------------------------------------------------------------------
(* What the decoder has kept, by its state.                                *)
Kept0 == receive_state \in {"DAT_INIT", "DAT_HEADER", "DAT_LEN"} => data_buf = <<>>
Kept1 == receive_state = "DAT_ID" => Len(data_buf) = 1
KeptN == receive_state = "DAT_DATA" =>
           Len(data_buf) >= 2 /\ (frame_len \in Lengths => Len(data_buf) <= frame_len)
KeptAll == receive_state = "DAT_CHACK" => Len(data_buf) >= 2 /\ Len(data_buf) = frame_len + 1
Overrun == receive_state = UNDEFINED => frame_len \notin Lengths

FrameInv == TypeOK /\ Kept0 /\ Kept1 /\ KeptN /\ KeptAll /\ Overrun

(* The rest of what is sent.                                               *)
LEMMA RestType ==
  ASSUME NEW T, NEW q \in Seq(T), NEW n \in 0..Len(q)
  PROVE  /\ SubSeq(q, n + 1, Len(q)) \in Seq(T) /\ Len(SubSeq(q, n + 1, Len(q))) = Len(q) - n
         /\ \A i \in 1..Len(q) - n : SubSeq(q, n + 1, Len(q))[i] = q[n + i]
<1>1. \A i \in n + 1..Len(q) : q[i] \in T
  OBVIOUS
<1>2. /\ SubSeq(q, n + 1, Len(q)) \in Seq(T)
      /\ Len(SubSeq(q, n + 1, Len(q))) = IF n + 1 <= Len(q) THEN Len(q) - (n + 1) + 1 ELSE 0
      /\ \A i \in 1..Len(q) - (n + 1) + 1 : SubSeq(q, n + 1, Len(q))[i] = q[n + 1 + i - 1]
  BY <1>1, SubSeqProperties
<1> QED
  BY <1>2

(* FrameInv holds before anything is sent.                                 *)
LEMMA FrameInit == Init => FrameInv
<1> SUFFICES ASSUME Init PROVE FrameInv
  OBVIOUS
<1>1. TypeOK
  <2>1. rest \in Seq(Byte) /\ data_buf \in Seq(Byte) /\ line \in Seq(Frames)
    BY DEF Init
  <2>2. got.id \in Byte /\ got.data \in Seq(Byte)
    BY DEF Init, NoFrame, Byte
  <2>3. items \in Nat /\ losses \in Nat /\ clean \in Nat
        /\ decoded \in BOOLEAN /\ blurred \in BOOLEAN
    BY DEF Init
  <2>4. receive_state \in DAT_STATE
    BY DEF Init, DAT_STATE
  <2> QED
    BY <2>1, <2>2, <2>3, <2>4 DEF TypeOK
<1> QED
  BY <1>1 DEF Init, FrameInv, Kept0, Kept1, KeptN, KeptAll, Overrun, UNDEFINED

(* The gateway's steps and lost bytes leave the decoder alone.             *)
LEMMA SenderStep ==
  ASSUME FrameInv, Gateway \/ LoseByte \/ GatewayRestart
  PROVE  FrameInv'
<1>1. rest' \in Seq(Byte)
  <2>1. CASE sent_cmd
    BY <2>1, SealedType DEF sent_cmd, Sends, StartsOn, Frames
  <2>2. CASE sent_report
    <3>1. PICK a \in Addrs : rest' = <<115, 85, 65, 86>> \o Encoded(Report(a))
      BY <2>2 DEF sent_report, Sends, StartsOn
    <3>2. <<115, 85, 65, 86>> \in Seq(Byte)
      BY DEF Byte
    <3>3. Encoded(Report(a)) \in Seq(Byte)
      BY SealedType DEF Frames
    <3> QED
      BY <3>1, <3>2, <3>3, ConcatProperties
  <2>3. CASE printf
    BY <2>3, BytesAssumption DEF printf, StartsOn
  <2>4. CASE LoseByte
    BY <2>4, HeadTailProperties DEF LoseByte, FrameInv, TypeOK
  <2>5. CASE GatewayRestart
    <3>1. rest' = <<82, 105, 109, 101>>
      BY <2>5 DEF GatewayRestart
    <3> QED
      BY <3>1 DEF Byte
  <2> QED
    BY <2>1, <2>2, <2>3, <2>4, <2>5 DEF Gateway
<1>2. UNCHANGED <<receive_state, data_buf, got>>
  BY DEF Gateway, sent_cmd, sent_report, Sends, StartsOn, printf, LoseByte, GatewayRestart, decoderVars
<1>3. line' \in Seq(Frames)
  <2>1. line' = line \/ \E f \in Frames : line' = Append(line, f)
    BY DEF Gateway, sent_cmd, sent_report, Sends, StartsOn, printf, LoseByte, GatewayRestart, Fault, Frames
  <2>2. line \in Seq(Frames)
    BY DEF FrameInv, TypeOK
  <2>3. ASSUME NEW f \in Frames, line' = Append(line, f) PROVE line' \in Seq(Frames)
    BY <2>2, <2>3, AppendProperties
  <2> QED
    BY <2>1, <2>2, <2>3
<1>4. items' \in Nat /\ losses' \in Nat /\ clean' \in Nat
      /\ decoded' \in BOOLEAN /\ blurred' \in BOOLEAN
  <2>1. items \in Nat /\ losses \in Nat /\ clean \in Nat
        /\ decoded \in BOOLEAN /\ blurred \in BOOLEAN
    BY DEF FrameInv, TypeOK
  <2>2. CASE Gateway
    <3>1. items' = items + 1 /\ losses' = losses /\ (clean' = clean \/ clean' = clean + 1)
      BY <2>2 DEF Gateway, sent_cmd, sent_report, Sends, StartsOn, printf
    <3>2. decoded' = decoded \/ decoded' = FALSE
      BY <2>2 DEF Gateway, sent_cmd, sent_report, Sends, StartsOn, printf
    <3>3. decoded' \in BOOLEAN /\ blurred' \in BOOLEAN
      <4>1. blurred' = (blurred /\ receive_state # "DAT_INIT")
        BY <2>2 DEF Gateway, sent_cmd, sent_report, Sends, printf, StartsOn
      <4> QED
        BY <2>1, <3>2, <4>1
    <3> QED
      BY <2>1, <3>1, <3>3
  <2>3. CASE LoseByte \/ GatewayRestart
    <3>1. items' = items /\ losses' \in {losses + 1, losses + MaxLosses} /\ clean' = 0
          /\ decoded' = decoded
      BY <2>3 DEF LoseByte, GatewayRestart, Fault
    <3>2. blurred' \in BOOLEAN
      BY <2>3 DEF LoseByte, GatewayRestart, Fault
    <3> QED
      BY <2>1, <3>1, <3>2, LimitsAssumption
  <2> QED
    BY <2>2, <2>3
<1> QED
  BY <1>1, <1>2, <1>3, <1>4
  DEF FrameInv, TypeOK, Kept0, Kept1, KeptN, KeptAll, Overrun, frame_len

(* network_control starts again.                                           *)
LEMMA RestartStep ==
  ASSUME FrameInv, NetRestart
  PROVE  FrameInv'
<1>1. PICK n \in 0..Len(rest) : rest' = SubSeq(rest, n + 1, Len(rest))
  BY DEF NetRestart
<1>2. rest' \in Seq(Byte)
  BY <1>1, RestType DEF FrameInv, TypeOK
<1>3. receive_state' = "DAT_INIT" /\ data_buf' = <<>> /\ got' = NoFrame
  BY DEF NetRestart
<1>4. line' = line /\ {items, losses, clean}' \subseteq Nat /\ decoded' \in BOOLEAN
      /\ blurred' \in BOOLEAN
  BY LimitsAssumption DEF NetRestart, Fault, FrameInv, TypeOK
<1> QED
  BY <1>2, <1>3, <1>4 DEF FrameInv, TypeOK, Kept0, Kept1, KeptN, KeptAll, Overrun, UNDEFINED,
     DAT_STATE, NoFrame, Byte

(* The frame in the decoder's buffer.                                      *)
Read == [id |-> data_buf[2], data |-> SubSeq(data_buf, 3, Len(data_buf))]
Sent == {i \in 1..Len(line) : line[i] = Read}
LEMMA FirstSent ==
  ASSUME NEW S, S # {}, S \subseteq Nat
  PROVE  LET i == CHOOSE i \in S : \A j \in S : i <= j IN i \in S /\ \A j \in S : i <= j
<1>1. PICK i \in S : \A j \in S : <<j, i>> \notin OpToRel(<, Nat)
  BY NatLessThanWellFounded, WFMin
<1>2. \A j \in S : i <= j
  <2>1. SUFFICES ASSUME NEW j \in S, ~(i <= j) PROVE FALSE
    OBVIOUS
  <2>2. i \in Nat /\ j \in Nat /\ j < i
    BY <2>1
  <2>3. <<j, i>> \in OpToRel(<, Nat)
    BY <2>2 DEF OpToRel
  <2> QED
    BY <1>1, <2>3
<1> QED
  BY <1>2

(* What the check decides.                                                 *)
LEMMA CheckIs ==
  ASSUME FrameInv, CheckByte
  PROVE  /\ receive_state' = "DAT_INIT" /\ data_buf' = <<>>
         /\ UNCHANGED <<items, losses, blurred>> /\ clean' \in {0, clean} /\ decoded' \in BOOLEAN
         /\ Read.id \in Byte /\ Read.data \in Seq(Byte)
         /\ \/ UNCHANGED <<got, line>>
            \/ got' = Read /\ line' = line /\ Sent = {}
            \/ /\ got' = Read
               /\ \E i \in Sent : /\ \A j \in Sent : i <= j
                                 /\ line' = SubSeq(line, i + 1, Len(line))
<1>1. /\ data_buf \in Seq(Byte) /\ Len(data_buf) \in Nat /\ Len(data_buf) >= 2
      /\ line \in Seq(Frames) /\ Len(line) \in Nat
  BY DEF CheckByte, Comes, FrameInv, TypeOK, KeptAll
<1>2. Read.id \in Byte /\ Read.data \in Seq(Byte)
  <2>1. \A i \in 3..Len(data_buf) : data_buf[i] \in Byte
    BY <1>1
  <2>2. SubSeq(data_buf, 3, Len(data_buf)) \in Seq(Byte)
    BY <1>1, <2>1, SubSeqProperties
  <2> QED
    BY <1>1, <2>2 DEF Read
<1> DEFINE good == ch = get_check(data_buf) /\ Read.id \in {CMD_FRAME, REPORT_FRAME}
           first == CHOOSE i \in Sent : \A j \in Sent : i <= j
<1>3. /\ receive_state' = "DAT_INIT" /\ data_buf' = <<>>
      /\ UNCHANGED <<items, losses, blurred>> /\ clean' \in {0, clean} /\ decoded' = (decoded \/ good)
      /\ got' = (IF good THEN Read ELSE got)
      /\ line' = IF good /\ Sent # {} THEN SubSeq(line, 1 + first, Len(line)) ELSE line
  BY DEF CheckByte, Read, Sent
<1>4. Sent # {} => first \in Sent /\ \A j \in Sent : first <= j
  <2>1. Sent \subseteq Nat
    BY DEF Sent
  <2> QED
    BY <2>1, FirstSent
<1>5. decoded' \in BOOLEAN
  BY <1>3 DEF FrameInv, TypeOK
<1> HIDE DEF good, first
<1>6. CASE ~good
  BY <1>2, <1>3, <1>5, <1>6
<1>7. CASE good /\ Sent = {}
  BY <1>2, <1>3, <1>5, <1>7
<1>8. CASE good /\ Sent # {}
  <2>1. 1 + first = first + 1
    BY <1>4, <1>8 DEF Sent
  <2> QED
    BY <1>2, <1>3, <1>4, <1>5, <1>8, <2>1
<1> QED
  BY <1>6, <1>7, <1>8

(* The decoder's steps: Len(data_buf) keeps up with the length byte.       *)
LEMMA DecoderStep ==
  ASSUME FrameInv, frame_decode
  PROVE  FrameInv'
<1> USE SizeAssumption
<1>t. /\ rest \in Seq(Byte) /\ data_buf \in Seq(Byte) /\ Len(data_buf) \in Nat
      /\ line \in Seq(Frames) /\ got.id \in Byte /\ got.data \in Seq(Byte)
      /\ {items, losses, clean} \subseteq Nat /\ decoded \in BOOLEAN /\ blurred \in BOOLEAN
  BY DEF FrameInv, TypeOK
<1>bytes. rest # <<>> /\ rest' = Tail(rest)
  BY DEF frame_decode, InitByte, HeaderByte, LenByte, IdByte, DataByte, CheckByte, Comes
<1>rest. rest' \in Seq(Byte) /\ ch \in Byte
  BY <1>t, <1>bytes, HeadTailProperties DEF ch
<1>append. /\ Append(data_buf, ch) \in Seq(Byte)
           /\ Len(Append(data_buf, ch)) = Len(data_buf) + 1
           /\ Len(data_buf) > 0 => Append(data_buf, ch)[1] = data_buf[1]
  BY <1>t, <1>rest, AppendProperties
<1>type. ASSUME data_buf' \in Seq(Byte), receive_state' \in DAT_STATE \cup {UNDEFINED},
                UNCHANGED <<got, line, historyVars>>
         PROVE  TypeOK'
  BY <1>t, <1>rest, <1>type DEF TypeOK, historyVars
<1>1. CASE InitByte
  <2>1. receive_state' \in {"DAT_INIT", "DAT_HEADER"} /\ data_buf' = <<>>
    BY <1>1 DEF InitByte, Comes, FrameInv, Kept0
  <2>2. TypeOK'
    BY <1>1, <1>type, <2>1 DEF InitByte, DAT_STATE
  <2> QED
    BY <2>1, <2>2 DEF FrameInv, Kept0, Kept1, KeptN, KeptAll, Overrun, UNDEFINED
<1>2. CASE HeaderByte
  <2>1. receive_state' \in {"DAT_INIT", "DAT_LEN"} /\ data_buf' = <<>>
    BY <1>2 DEF HeaderByte, Comes, FrameInv, Kept0
  <2>2. TypeOK'
    BY <1>2, <1>type, <2>1 DEF HeaderByte, DAT_STATE
  <2> QED
    BY <2>1, <2>2 DEF FrameInv, Kept0, Kept1, KeptN, KeptAll, Overrun, UNDEFINED
<1>3. CASE LenByte
  <2>1. Len(data_buf) = 0
    BY <1>3 DEF LenByte, Comes, FrameInv, Kept0
  <2>2. receive_state' = "DAT_ID" /\ data_buf' = Append(data_buf, ch)
    BY <1>3, <2>1 DEF LenByte, Kept
  <2>3. TypeOK'
    BY <1>3, <1>append, <1>type, <2>2 DEF LenByte, Kept, DAT_STATE
  <2>4. Len(data_buf') = 1
    BY <1>append, <2>1, <2>2
  <2> QED
    BY <2>2, <2>3, <2>4 DEF FrameInv, Kept0, Kept1, KeptN, KeptAll, Overrun, UNDEFINED
<1>4. CASE IdByte
  <2>1. Len(data_buf) = 1
    BY <1>4 DEF IdByte, Comes, FrameInv, Kept1
  <2>2. receive_state' = "DAT_DATA" /\ data_buf' = Append(data_buf, ch)
    BY <1>4, <2>1 DEF IdByte, Kept
  <2>3. Len(data_buf') = 2
    BY <1>append, <2>1, <2>2
  <2>4. TypeOK'
    BY <1>4, <1>append, <1>type, <2>2 DEF IdByte, Kept, DAT_STATE
  <2> QED
    BY <2>2, <2>3, <2>4
    DEF FrameInv, Kept0, Kept1, KeptN, KeptAll, Overrun, UNDEFINED, Lengths
<1>5. CASE DataByte
  <2>1. Len(data_buf) >= 2 /\ (frame_len \in Lengths => Len(data_buf) <= frame_len)
    BY <1>5 DEF DataByte, Comes, FrameInv, KeptN
  <2>2. data_buf' = Append(data_buf, ch)
    BY <1>5 DEF DataByte, Kept
  <2>3. frame_len' = frame_len /\ Len(data_buf') = Len(data_buf) + 1
    BY <1>t, <1>append, <2>1, <2>2 DEF frame_len
  <2>4. CASE Len(data_buf) < RX_BUF_LEN
    <3>1. receive_state' = IF Len(data_buf) = frame_len THEN "DAT_CHACK" ELSE "DAT_DATA"
      BY <1>5, <2>4 DEF DataByte, Kept
    <3>2. receive_state' = "DAT_DATA" =>
            Len(data_buf') >= 2 /\ (frame_len' \in Lengths => Len(data_buf') <= frame_len')
      BY <1>t, <2>1, <2>3, <3>1 DEF Lengths
    <3>3. receive_state' = "DAT_CHACK" => Len(data_buf') >= 2 /\ Len(data_buf') = frame_len' + 1
      BY <1>t, <2>1, <2>3, <3>1
    <3>4. TypeOK'
      BY <1>5, <1>append, <1>type, <2>2, <3>1 DEF DataByte, Kept, DAT_STATE
    <3> QED
      BY <3>1, <3>2, <3>3, <3>4
      DEF FrameInv, Kept0, Kept1, KeptN, KeptAll, Overrun, UNDEFINED
  <2>5. CASE ~(Len(data_buf) < RX_BUF_LEN)
    <3>1. receive_state' = UNDEFINED
      BY <1>5, <2>5 DEF DataByte, Kept
    <3>2. frame_len' \notin Lengths
      BY <1>t, <2>1, <2>3, <2>5 DEF Lengths
    <3>3. TypeOK'
      BY <1>5, <1>append, <1>type, <2>2, <3>1 DEF DataByte, Kept
    <3> QED
      BY <3>1, <3>2, <3>3 DEF FrameInv, Kept0, Kept1, KeptN, KeptAll, Overrun, UNDEFINED
  <2> QED
    BY <2>4, <2>5
<1>6. CASE CheckByte
  <2>1. /\ receive_state' = "DAT_INIT" /\ data_buf' = <<>>
        /\ UNCHANGED <<items, losses, blurred>> /\ clean' \in {0, clean} /\ decoded' \in BOOLEAN
        /\ Read.id \in Byte /\ Read.data \in Seq(Byte)
        /\ \/ UNCHANGED <<got, line>>
           \/ got' = Read /\ line' = line
           \/ got' = Read /\ \E i \in Sent : line' = SubSeq(line, i + 1, Len(line))
    BY <1>6, CheckIs
  <2>2. line' \in Seq(Frames)
    <3>1. ASSUME NEW i \in Sent, line' = SubSeq(line, i + 1, Len(line)) PROVE line' \in Seq(Frames)
      <4>1. i \in 0..Len(line)
        BY DEF Sent
      <4> QED
        BY <1>t, <3>1, <4>1, RestType
    <3> QED
      BY <1>t, <2>1, <3>1
  <2>3. got'.id \in Byte /\ got'.data \in Seq(Byte)
    BY <1>t, <2>1
  <2>4. TypeOK'
    BY <1>t, <1>rest, <2>1, <2>2, <2>3 DEF TypeOK, DAT_STATE
  <2> QED
    BY <2>1, <2>4 DEF FrameInv, Kept0, Kept1, KeptN, KeptAll, Overrun, UNDEFINED
<1> QED
  BY <1>1, <1>2, <1>3, <1>4, <1>5, <1>6 DEF frame_decode

LEMMA FrameStep ==
  ASSUME FrameInv, [Next]_vars
  PROVE  FrameInv'
<1>1. CASE UNCHANGED vars
  BY <1>1 DEF vars, decoderVars, historyVars, FrameInv, TypeOK, Kept0, Kept1, KeptN, KeptAll,
     Overrun, frame_len
<1> QED
  BY <1>1, SenderStep, RestartStep, DecoderStep DEF Next, Faults

(* The decoder has kept what its state says, of bytes.                     *)
THEOREM Invariance == Spec => []FrameInv
BY FrameInit, FrameStep, PTL DEF Spec

(* Every variable keeps its type: what get_check makes of a frame is a     *)
(* byte again.                                                             *)
THEOREM TypeCorrect == Spec => []TypeOK
<1>1. FrameInv => TypeOK
  BY DEF FrameInv
<1> QED
  BY <1>1, Invariance, PTL

(* The decoder writes past its buffer only when it took another byte for   *)
(* the length of a frame.                                                  *)
THEOREM StaysInBuffer == Spec => []InBuffer
<1>1. FrameInv => InBuffer
  BY FrameLengths DEF FrameInv, Overrun, InBuffer
<1> QED
  BY <1>1, Invariance, PTL

-----------------------------------------------------------------------------
(* The decoder in step with the gateway.                                   *)

(* The header occurs nowhere in what is printed, nor behind the header of  *)
(* a frame: printed text is ASCII, and the only addresses whose reports    *)
(* break it are <<85, 170>> and <<254, 85>>.                               *)
NoHeader(s) == \A i \in 1..Len(s)-1 : ~(s[i] = HEADER_0 /\ s[i + 1] = HEADER_1)
PlainTexts  == \A t \in Texts : NoHeader(t) /\ (t # <<>> => t[1] # HEADER_1)
PlainFrames == \A f \in Frames : NoHeader(Sealed(f))

(* No byte is lost, and the gateway does not restart, while the decoder is *)
(* in a frame.  network_control may restart at any time.                   *)
Undamaged == LoseByte \/ GatewayRestart => receive_state = "DAT_INIT"

(* Outside a frame, what follows the next header is that frame.            *)
Marked(s, after) == \A i \in 1..Len(s) :
  s[i] = HEADER_1 /\ (IF i = 1 THEN after ELSE s[i - 1] = HEADER_0)
    => Follows(SubSeq(s, i + 1, Len(s)))
OutOfFrame == receive_state \in {"DAT_INIT", "DAT_HEADER"} =>
                Marked(rest, receive_state = "DAT_HEADER")
InFrame == receive_state \in {"DAT_LEN", "DAT_ID", "DAT_DATA", "DAT_CHACK"} =>
             rest # <<>> /\ Follows(data_buf \o rest)
SyncInv == receive_state # UNDEFINED /\ OutOfFrame /\ InFrame

(* What is sent next, behind whatever the decoder has read.                *)
LEMMA PlainMarked ==
  ASSUME NEW s \in Seq(Byte), NoHeader(s), s # <<>> => s[1] # HEADER_1, NEW after
  PROVE  Marked(s, after)
<1>1. SUFFICES ASSUME NEW i \in 1..Len(s), s[i] = HEADER_1,
                      IF i = 1 THEN after ELSE s[i - 1] = HEADER_0
               PROVE  FALSE
  BY DEF Marked
<1>2. i # 1
  BY <1>1
<1>3. i - 1 \in 1..Len(s)-1 /\ (i - 1) + 1 = i
  BY <1>2
<1> QED
  BY <1>1, <1>2, <1>3 DEF NoHeader

(* A frame marks itself, and so does a report with what is printed before. *)
LEMMA FrameMarked ==
  ASSUME NEW f \in Frames, PlainFrames, NEW p \in Seq(Byte),
         \A i \in 1..Len(p) : p[i] # HEADER_1, NEW after
  PROVE  \A i \in 1..Len(p \o Encoded(f)) :
           /\ (p \o Encoded(f))[i] = HEADER_1
           /\ IF i = 1 THEN after ELSE (p \o Encoded(f))[i - 1] = HEADER_0
           => SubSeq(p \o Encoded(f), i + 1, Len(p \o Encoded(f))) = Sealed(f)
<1> DEFINE h == <<HEADER_0, HEADER_1>>
           z == Sealed(f)
           e == Encoded(f)
           s == p \o e
           n == Len(p)
<1>1. /\ z \in Seq(Byte) /\ Len(z) \in Nat /\ z[1] # HEADER_1 /\ NoHeader(z) /\ Len(z) >= 4
      /\ e = h \o z /\ e \in Seq(Byte)
  <2>1. Len(f.data) \in {1, 2}
    BY FrameLengths
  <2>2. z \in Seq(Byte) /\ Len(z) = Len(f.data) + 3 /\ z[1] = Len(f.data) + 1 /\ e = h \o z /\ e \in Seq(Byte)
    BY SealedType
  <2>3. NoHeader(z)
    BY DEF PlainFrames
  <2> HIDE DEF z, h, e
  <2>4. z[1] # HEADER_1 /\ Len(z) >= 4 /\ Len(z) \in Nat
    <3>1. CASE Len(f.data) = 1
      BY <2>2, <3>1 DEF HEADER_1
    <3>2. CASE Len(f.data) = 2
      BY <2>2, <3>2 DEF HEADER_1
    <3> QED
      BY <2>1, <3>1, <3>2
  <2> QED
    BY <2>2, <2>3, <2>4
<1> HIDE DEF z, e
<1>2. h \in Seq(Byte) /\ Len(h) = 2 /\ h[1] = HEADER_0 /\ h[2] = HEADER_1
  BY DEF HEADER_0, HEADER_1, Byte
<1> HIDE DEF h
<1>3. /\ Len(e) = Len(z) + 2 /\ e[1] = HEADER_0 /\ e[2] = HEADER_1
      /\ \A i \in 3..Len(e) : i - 2 \in 1..Len(z) /\ e[i] = z[i - 2]
  <2>1. /\ Len(h \o z) = Len(h) + Len(z)
        /\ \A i \in 1..Len(h) + Len(z) : (h \o z)[i] = IF i <= Len(h) THEN h[i] ELSE z[i - Len(h)]
    BY <1>1, <1>2, ConcatProperties
  <2> QED
    BY <1>1, <1>2, <2>1
<1>4. /\ s \in Seq(Byte) /\ Len(s) = n + Len(e) /\ n \in Nat
      /\ \A i \in 1..n : s[i] = p[i]
      /\ \A i \in n + 1..Len(s) : i - n \in 1..Len(e) /\ s[i] = e[i - n]
  <2>1. /\ s \in Seq(Byte) /\ Len(s) = Len(p) + Len(e)
        /\ \A i \in 1..Len(p) + Len(e) : s[i] = IF i <= Len(p) THEN p[i] ELSE e[i - Len(p)]
    BY <1>1, ConcatProperties
  <2>2. Len(p) \in Nat /\ Len(e) \in Nat
    BY <1>1
  <2> HIDE DEF s
  <2> QED
    BY <2>1, <2>2
<1> HIDE DEF s
<1> SUFFICES ASSUME NEW i \in 1..Len(s), s[i] = HEADER_1,
                    IF i = 1 THEN after ELSE s[i - 1] = HEADER_0
             PROVE  SubSeq(s, i + 1, Len(s)) = z
  BY DEF s, e, z
<1>neq. HEADER_0 # HEADER_1
  BY DEF HEADER_0, HEADER_1
<1> HIDE DEF n
<1>num. i \in Nat /\ n \in Nat /\ Len(e) \in Nat /\ Len(z) \in Nat
  BY <1>1, <1>3, <1>4
<1>5. i = n + 2
  <2>1. ~(i <= n)
    <3>1. SUFFICES ASSUME i <= n PROVE FALSE
      OBVIOUS
    <3>2. p[i] = HEADER_1
      BY <1>4, <1>num, <3>1
    <3> QED
      BY <1>neq, <1>num, <3>1, <3>2 DEF n
  <2>2. i # n + 1
    BY <1>3, <1>4, <1>neq, <1>num
  <2>3. i > n + 2 => FALSE
    <3>1. SUFFICES ASSUME i > n + 2 PROVE FALSE
      OBVIOUS
    <3>2. s[i - 1] = HEADER_0 /\ s[i] = HEADER_1
      BY <1>num, <3>1
    <3>3. i - n \in 3..Len(e) /\ s[i] = e[i - n] /\ e[i - n] = z[(i - n) - 2]
      BY <1>3, <1>4, <1>num, <3>1
    <3>4. CASE i = n + 3
      <4>1. (i - n) - 2 = 1
        BY <1>num, <3>4
      <4> QED
        BY <1>1, <3>2, <3>3, <4>1
    <3>5. CASE i > n + 3
      <4>1. /\ i - 1 \in n + 1..Len(s) /\ (i - 1) - n \in 3..Len(e)
            /\ ((i - 1) - n) - 2 = (i - n) - 3 /\ (i - n) - 3 \in 1..Len(z)-1
            /\ ((i - n) - 3) + 1 = (i - n) - 2
        <5>1. i <= n + Len(z) + 2 /\ i > n + 3 /\ Len(s) = n + Len(z) + 2 /\ Len(e) = Len(z) + 2
          BY <1>3, <1>4, <1>num, <3>5
        <5>2. i - 1 \in n + 1..Len(s) /\ (i - 1) - n \in 3..Len(e)
          BY <1>num, <5>1
        <5>3. /\ ((i - 1) - n) - 2 = (i - n) - 3 /\ (i - n) - 3 \in 1..Len(z)-1
              /\ ((i - n) - 3) + 1 = (i - n) - 2
          BY <1>num, <5>1
        <5> QED
          BY <5>2, <5>3
      <4>2. z[(i - n) - 3] = HEADER_0
        BY <1>3, <1>4, <3>2, <4>1
      <4> QED
        BY <1>1, <3>2, <3>3, <4>1, <4>2 DEF NoHeader
    <3> QED
      BY <1>num, <3>1, <3>4, <3>5
  <2> QED
    BY <1>num, <2>1, <2>2, <2>3
<1>6. SubSeq(s, i + 1, Len(s)) = z
  <2> DEFINE r == SubSeq(s, i + 1, Len(s))
  <2>1. i \in 0..Len(s) /\ Len(s) - i = Len(z)
    BY <1>3, <1>4, <1>5, <1>num
  <2>2. r \in Seq(Byte) /\ Len(r) = Len(s) - i /\ \A j \in 1..Len(s) - i : r[j] = s[i + j]
    BY <1>4, <2>1, RestType
  <2> HIDE DEF r
  <2>3. \A j \in 1..Len(z) : s[i + j] = z[j]
    <3>1. SUFFICES ASSUME NEW j \in 1..Len(z) PROVE s[i + j] = z[j]
      OBVIOUS
    <3>2. i + j \in n + 1..Len(s) /\ (i + j) - n = j + 2 /\ j + 2 \in 3..Len(e) /\ (j + 2) - 2 = j
      BY <1>3, <1>4, <1>5, <1>num
    <3> QED
      BY <1>3, <1>4, <3>2
  <2>4. r = z
    <3>1. Len(r) = Len(z) /\ \A j \in 1..Len(r) : r[j] = z[j]
      BY <2>1, <2>2, <2>3
    <3> QED
      BY <1>1, <2>2, <3>1, SeqEqual
  <2> QED
    BY <2>4 DEF r
<1> QED
  BY <1>6

(* Taking a byte drops one.                                                *)
LEMMA TailDrops ==
  ASSUME NEW T, NEW q \in Seq(T), q # <<>>
  PROVE  /\ 1 \in 0..Len(q) /\ Tail(q) = SubSeq(q, 1 + 1, Len(q)) /\ Head(q) = q[1]
         /\ q = <<q[1]>> \o Tail(q) /\ Len(Tail(q)) = Len(q) - 1 /\ Tail(q) \in Seq(T)
<1>1. Len(q) \in Nat \ {0} /\ 1 \in 0..Len(q)
  BY EmptySeq
<1>2. /\ Tail(q) \in Seq(T) /\ Len(Tail(q)) = Len(q) - 1 /\ Head(q) = q[1]
      /\ \A i \in 1..Len(q) - 1 : Tail(q)[i] = q[1 + i]
  BY <1>1, HeadTailProperties
<1>3. Tail(q) = SubSeq(q, 1 + 1, Len(q))
  <2> DEFINE r == SubSeq(q, 1 + 1, Len(q))
             t == Tail(q)
  <2>1. r \in Seq(T) /\ Len(r) = Len(q) - 1 /\ \A i \in 1..Len(q) - 1 : r[i] = q[1 + i]
    BY <1>1, RestType
  <2> HIDE DEF r
  <2>2. t \in Seq(T) /\ Len(t) = Len(r) /\ \A i \in 1..Len(t) : t[i] = r[i]
    BY <1>2, <2>1
  <2> HIDE DEF t
  <2>3. t = r
    BY <2>1, <2>2, SeqEqual
  <2> QED
    BY <2>3 DEF r, t
<1>4. q = <<q[1]>> \o Tail(q)
  BY <1>1, HeadTailProperties
<1> QED
  BY <1>1, <1>2, <1>3, <1>4

(* What is left when the first n bytes are taken or lost.                  *)
LEMMA DropMarked ==
  ASSUME NEW s \in Seq(Byte), NEW n \in 0..Len(s), NEW after, Marked(s, after)
  PROVE  Marked(SubSeq(s, n + 1, Len(s)), n > 0 /\ s[n] = HEADER_0)
<1> DEFINE r == SubSeq(s, n + 1, Len(s))
<1>1. r \in Seq(Byte) /\ Len(r) = Len(s) - n /\ \A i \in 1..Len(s) - n : r[i] = s[n + i]
  BY RestType
<1>num. Len(s) \in Nat /\ n \in Nat /\ n <= Len(s)
  OBVIOUS
<1> HIDE DEF r
<1>2. SUFFICES ASSUME NEW i \in 1..Len(r), r[i] = HEADER_1,
                      IF i = 1 THEN n > 0 /\ s[n] = HEADER_0 ELSE r[i - 1] = HEADER_0
               PROVE  Follows(SubSeq(r, i + 1, Len(r)))
  BY DEF Marked, r
<1>3. n + i \in 1..Len(s) /\ s[n + i] = HEADER_1
  BY <1>1, <1>2, <1>num
<1>4. n + i # 1 => s[(n + i) - 1] = HEADER_0
  <2>1. CASE i = 1
    BY <1>2, <1>num, <2>1
  <2>2. CASE i # 1
    <3>1. i - 1 \in 1..Len(s) - n /\ n + (i - 1) = (n + i) - 1
      BY <1>1, <1>num, <2>2
    <3> QED
      BY <1>1, <1>2, <2>2, <3>1
  <2> QED
    BY <2>1, <2>2
<1>5. n + i # 1
  BY <1>2, <1>num
<1>6. Follows(SubSeq(s, (n + i) + 1, Len(s)))
  BY <1>3, <1>4, <1>5 DEF Marked
<1>7. SubSeq(r, i + 1, Len(r)) = SubSeq(s, (n + i) + 1, Len(s))
  <2> DEFINE x == SubSeq(r, i + 1, Len(r))
             y == SubSeq(s, (n + i) + 1, Len(s))
             m == n + i
  <2>1. i \in 0..Len(r) /\ m \in 0..Len(s) /\ Len(r) - i = Len(s) - m /\ m \in Nat /\ i \in Nat
    BY <1>1, <1>num
  <2>2. x \in Seq(Byte) /\ Len(x) = Len(r) - i /\ \A j \in 1..Len(r) - i : x[j] = r[i + j]
    BY <1>1, <2>1, RestType
  <2> HIDE DEF m
  <2>3. y \in Seq(Byte) /\ Len(y) = Len(s) - m /\ \A j \in 1..Len(s) - m : y[j] = s[m + j]
    BY <2>1, RestType DEF m
  <2> HIDE DEF x, y
  <2>4. \A j \in 1..Len(s) - m : r[i + j] = s[m + j]
    <3>1. SUFFICES ASSUME NEW j \in 1..Len(s) - m PROVE r[i + j] = s[m + j]
      OBVIOUS
    <3>2. i + j \in 1..Len(s) - n /\ n + (i + j) = m + j
      BY <1>num, <2>1 DEF m
    <3> QED
      BY <1>1, <3>2
  <2>5. Len(x) = Len(y) /\ \A j \in 1..Len(x) : x[j] = y[j]
    BY <2>1, <2>2, <2>3, <2>4
  <2>6. x = y
    BY <2>2, <2>3, <2>5, SeqEqual
  <2> QED
    BY <2>6 DEF x, y
<1> QED
  BY <1>6, <1>7

(* What the decoder has read of a frame, and what is still to come.        *)
LEMMA InFrameIs ==
  ASSUME FrameInv, SyncInv,
         receive_state \in {"DAT_LEN", "DAT_ID", "DAT_DATA", "DAT_CHACK"}
  PROVE  \E f \in Frames :
           /\ Len(line) \in Nat \ {0} /\ f = line[Len(line)]
           /\ data_buf \o rest = Sealed(f)
           /\ Len(f.data) \in {1, 2} /\ Len(data_buf) + Len(rest) = Len(f.data) + 3
           /\ Len(data_buf) > 0 => frame_len = Len(f.data) + 1
<1>1. /\ rest \in Seq(Byte) /\ data_buf \in Seq(Byte) /\ line \in Seq(Frames)
      /\ line # <<>> /\ data_buf \o rest = Sealed(line[Len(line)])
  BY DEF FrameInv, TypeOK, SyncInv, InFrame, Follows
<1>2. Len(line) \in Nat \ {0} /\ Len(line) \in 1..Len(line)
  BY <1>1, EmptySeq
<1>3. PICK f \in Frames : f = line[Len(line)]
  BY <1>1, <1>2
<1>4. Len(f.data) \in {1, 2}
  BY FrameLengths
<1>5. Len(Sealed(f)) = Len(f.data) + 3 /\ Sealed(f)[1] = Len(f.data) + 1
  BY SealedType
<1>6. /\ Len(data_buf \o rest) = Len(data_buf) + Len(rest)
      /\ Len(data_buf) > 0 => (data_buf \o rest)[1] = data_buf[1]
  <2>1. /\ Len(data_buf \o rest) = Len(data_buf) + Len(rest)
        /\ \A i \in 1..Len(data_buf) + Len(rest) :
             (data_buf \o rest)[i] = IF i <= Len(data_buf) THEN data_buf[i]
                                     ELSE rest[i - Len(data_buf)]
    BY <1>1, ConcatProperties
  <2>2. Len(data_buf) \in Nat /\ Len(rest) \in Nat
    BY <1>1
  <2>3. Len(data_buf) > 0 => 1 \in 1..Len(data_buf) + Len(rest) /\ 1 <= Len(data_buf)
    BY <2>2
  <2> QED
    BY <2>1, <2>3
<1> QED
  BY <1>1, <1>2, <1>3, <1>4, <1>5, <1>6 DEF frame_len

LEMMA InFrameSizes ==
  ASSUME FrameInv, SyncInv,
         receive_state \in {"DAT_LEN", "DAT_ID", "DAT_DATA", "DAT_CHACK"}
  PROVE  \E g \in Lengths : /\ Len(data_buf) + Len(rest) = g + 2
                            /\ Len(data_buf) > 0 => frame_len = g
<1>1. PICK f \in Frames : /\ Len(f.data) \in {1, 2}
                          /\ Len(data_buf) + Len(rest) = Len(f.data) + 3
                          /\ Len(data_buf) > 0 => frame_len = Len(f.data) + 1
  BY InFrameIs
<1>2. CASE Len(f.data) = 1
  BY <1>1, <1>2 DEF Lengths
<1>3. CASE Len(f.data) = 2
  BY <1>1, <1>3 DEF Lengths
<1> QED
  BY <1>1, <1>2, <1>3

(* The header is not in what is left of a frame.                           *)
LEMMA RestPlain ==
  ASSUME FrameInv, SyncInv, PlainFrames, NEW n \in 0..Len(rest),
         receive_state \in {"DAT_LEN", "DAT_ID", "DAT_DATA", "DAT_CHACK"}
  PROVE  NoHeader(SubSeq(rest, n + 1, Len(rest)))
<1>1. PICK f \in Frames : data_buf \o rest = Sealed(f)
  BY InFrameIs
<1>2. NoHeader(Sealed(f))
  BY DEF PlainFrames
<1>t. rest \in Seq(Byte) /\ data_buf \in Seq(Byte)
  BY DEF FrameInv, TypeOK
<1> DEFINE r == SubSeq(rest, n + 1, Len(rest))
           k == Len(data_buf)
           z == data_buf \o rest
<1>3. r \in Seq(Byte) /\ Len(r) = Len(rest) - n /\ \A i \in 1..Len(rest) - n : r[i] = rest[n + i]
  BY <1>t, RestType
<1>4. /\ Len(z) = k + Len(rest) /\ k \in Nat /\ Len(rest) \in Nat /\ n \in Nat
      /\ \A i \in 1..k + Len(rest) : z[i] = IF i <= k THEN data_buf[i] ELSE rest[i - k]
  BY <1>t, ConcatProperties
<1> HIDE DEF r, k, z
<1>5. SUFFICES ASSUME NEW i \in 1..Len(r)-1, r[i] = HEADER_0, r[i + 1] = HEADER_1 PROVE FALSE
  BY DEF NoHeader, r
<1>6. /\ i \in 1..Len(rest) - n /\ i + 1 \in 1..Len(rest) - n
      /\ rest[n + i] = HEADER_0 /\ rest[n + (i + 1)] = HEADER_1
  BY <1>3, <1>4, <1>5
<1>7. /\ k + n + i \in 1..k + Len(rest) /\ ~(k + n + i <= k) /\ (k + n + i) - k = n + i
      /\ (k + n + i) + 1 \in 1..k + Len(rest) /\ ~((k + n + i) + 1 <= k)
      /\ ((k + n + i) + 1) - k = n + (i + 1)
      /\ k + n + i \in 1..Len(z)-1
  BY <1>4, <1>6
<1>8. z[k + n + i] = HEADER_0 /\ z[(k + n + i) + 1] = HEADER_1
  BY <1>4, <1>6, <1>7
<1>9. NoHeader(z)
  BY <1>1, <1>2 DEF z
<1> QED
  BY <1>7, <1>8, <1>9 DEF NoHeader

(* What is sent next is marked, whatever the decoder is doing.             *)
LEMMA SendMarked ==
  ASSUME FrameInv, PlainTexts, PlainFrames, Gateway
  PROVE  Marked(rest, receive_state = "DAT_HEADER")' /\ Marked(rest, FALSE)'
<1>1. UNCHANGED receive_state
  BY DEF Gateway, sent_cmd, sent_report, Sends, StartsOn, printf, decoderVars
<1> DEFINE after == receive_state = "DAT_HEADER"
<1>3. Marked(rest, after)'
  <2>1. ASSUME NEW f \in Frames, NEW p \in Seq(Byte), \A i \in 1..Len(p) : p[i] # HEADER_1,
               line' = Append(line, f), rest' = p \o Encoded(f)
        PROVE  Marked(rest, after)'
    <3>1. line' # <<>> /\ line'[Len(line')] = f
      <4>1. line \in Seq(Frames)
        BY DEF FrameInv, TypeOK
      <4> QED
        BY <2>1, <4>1, AppendProperties
    <3>2. PICK x : x = p \o Encoded(f)
      OBVIOUS
    <3>3. PICK a : a = after
      OBVIOUS
    <3>4. \A i \in 1..Len(x) : x[i] = HEADER_1 /\ (IF i = 1 THEN a ELSE x[i - 1] = HEADER_0)
            => SubSeq(x, i + 1, Len(x)) = Sealed(f)
      BY <2>1, <3>2, FrameMarked
    <3>5. rest' = x /\ after' = a
      BY <1>1, <2>1, <3>2, <3>3
    <3> QED
      BY <3>1, <3>4, <3>5 DEF Marked, Follows
  <2>2. CASE sent_cmd
    <3>1. Encoded(CmdFrame) \in Seq(Byte) /\ CmdFrame \in Frames
      BY SealedType DEF Frames
    <3>0. <<>> \in Seq(Byte)
      BY EmptySeq
    <3>2. PICK p \in Seq(Byte) : p = <<>>
      BY <3>0
    <3>3. /\ rest' = p \o Encoded(CmdFrame) /\ line' = Append(line, CmdFrame)
          /\ \A i \in 1..Len(p) : p[i] # HEADER_1
      BY <2>2, <3>1, <3>2, ConcatEmptySeq DEF sent_cmd, Sends, StartsOn
    <3> QED
      BY <2>1, <3>1, <3>2, <3>3
  <2>3. CASE sent_report
    <3>1. PICK a \in Addrs : /\ rest' = <<115, 85, 65, 86>> \o Encoded(Report(a))
                             /\ line' = Append(line, Report(a))
      BY <2>3 DEF sent_report, Sends, StartsOn
    <3>2. <<115, 85, 65, 86>> \in Seq(Byte)
      BY DEF Byte
    <3>3. \A i \in 1..Len(<<115, 85, 65, 86>>) : <<115, 85, 65, 86>>[i] # HEADER_1
      BY DEF HEADER_1
    <3>4. Report(a) \in Frames
      BY DEF Frames
    <3> QED
      BY <2>1, <3>1, <3>2, <3>3, <3>4
  <2>4. CASE printf
    <3>1. PICK t \in Texts : rest' = t
      BY <2>4 DEF printf, StartsOn
    <3>2. t \in Seq(Byte) /\ NoHeader(t) /\ (t # <<>> => t[1] # HEADER_1)
      BY BytesAssumption DEF PlainTexts
    <3>3. Marked(t, after)
      BY <3>2, PlainMarked
    <3>4. line' = line
      BY <2>4 DEF printf, StartsOn
    <3> QED
      BY <1>1, <3>1, <3>3, <3>4 DEF Marked, Follows
  <2> QED
    BY <2>2, <2>3, <2>4 DEF Gateway
<1> QED
  BY <1>3 DEF Marked

(* The gateway sends when all it sent before has come.                     *)
LEMMA SyncSend ==
  ASSUME FrameInv, SyncInv, PlainTexts, PlainFrames, Gateway
  PROVE  SyncInv'
<1>1. rest = <<>> /\ UNCHANGED <<receive_state, data_buf>>
  BY DEF Gateway, sent_cmd, sent_report, Sends, StartsOn, printf, decoderVars
<1>2. receive_state \in {"DAT_INIT", "DAT_HEADER"}
  BY <1>1 DEF SyncInv, InFrame, FrameInv, TypeOK, DAT_STATE
<1> QED
  BY <1>1, <1>2, SendMarked DEF SyncInv, OutOfFrame, InFrame, UNDEFINED

(* Bytes are lost outside of a frame, or the decoder starts again.         *)
LEMMA SyncFault ==
  ASSUME FrameInv, SyncInv, PlainTexts, PlainFrames, Faults, Undamaged
  PROVE  SyncInv'
<1>t. rest \in Seq(Byte) /\ Len(rest) \in Nat
  BY DEF FrameInv, TypeOK
<1>1. line' = line /\ receive_state' = "DAT_INIT"
  BY DEF Faults, LoseByte, GatewayRestart, NetRestart, Fault, Undamaged, decoderVars
<1>2. Marked(rest, FALSE)'
  <2>1. ASSUME NEW n \in 0..Len(rest), rest' = SubSeq(rest, n + 1, Len(rest))
        PROVE  Marked(rest, FALSE)'
    <3>1. PICK r : r = SubSeq(rest, n + 1, Len(rest))
      OBVIOUS
    <3>2. Marked(r, FALSE)
      <4>1. CASE receive_state \in {"DAT_INIT", "DAT_HEADER"}
        <5>1. Marked(rest, receive_state = "DAT_HEADER")
          BY <4>1 DEF SyncInv, OutOfFrame
        <5>2. Marked(r, n > 0 /\ rest[n] = HEADER_0)
          BY <1>t, <3>1, <5>1, DropMarked
        <5> QED
          BY <5>2 DEF Marked
      <4>2. CASE receive_state \notin {"DAT_INIT", "DAT_HEADER"}
        <5>1. NoHeader(r)
          BY <3>1, <4>2, RestPlain DEF SyncInv, FrameInv, TypeOK, DAT_STATE
        <5>2. r \in Seq(Byte) /\ Len(r) \in Nat
          BY <1>t, <3>1, RestType
        <5>3. SUFFICES ASSUME NEW i \in 1..Len(r), i # 1, r[i] = HEADER_1, r[i - 1] = HEADER_0
                       PROVE  FALSE
          BY DEF Marked
        <5>4. i - 1 \in 1..Len(r)-1 /\ (i - 1) + 1 = i
          BY <5>2, <5>3
        <5> QED
          BY <5>1, <5>3, <5>4 DEF NoHeader
      <4> QED
        BY <4>1, <4>2
    <3> QED
      BY <1>1, <2>1, <3>1, <3>2 DEF Marked, Follows
  <2>2. CASE LoseByte
    <3>1. rest # <<>> /\ rest' = Tail(rest)
      BY <2>2 DEF LoseByte
    <3>2. 1 \in 0..Len(rest) /\ rest' = SubSeq(rest, 1 + 1, Len(rest))
      BY <1>t, <3>1, TailDrops
    <3> QED
      BY <2>1, <3>2
  <2>3. CASE GatewayRestart
    <3>1. rest' = <<82, 105, 109, 101>>
      BY <2>3 DEF GatewayRestart
    <3>2. \A i \in 1..Len(rest') : rest'[i] # HEADER_1
      BY <3>1 DEF HEADER_1
    <3> QED
      BY <3>2 DEF Marked
  <2>4. CASE NetRestart
    BY <2>1, <2>4 DEF NetRestart
  <2> QED
    BY <2>2, <2>3, <2>4 DEF Faults
<1> QED
  BY <1>1, <1>2 DEF SyncInv, OutOfFrame, InFrame, UNDEFINED, Marked

(* A byte moves from the line into the buffer.                             *)
LEMMA Moves ==
  ASSUME NEW T, NEW b \in Seq(T), NEW q \in Seq(T), q # <<>>
  PROVE  Append(b, Head(q)) \o Tail(q) = b \o q
<1>1. q[1] \in T /\ Tail(q) \in Seq(T) /\ Head(q) = q[1] /\ q = <<q[1]>> \o Tail(q)
  BY TailDrops, EmptySeq
<1>2. Append(b, q[1]) = b \o <<q[1]>> /\ <<q[1]>> \in Seq(T)
  BY <1>1, AppendIsConcat
<1>3. (b \o <<q[1]>>) \o Tail(q) = b \o (<<q[1]>> \o Tail(q))
  BY <1>1, <1>2, ConcatAssociative
<1> QED
  BY <1>1, <1>2, <1>3

(* The decoder takes a byte.                                               *)
LEMMA SyncDecode ==
  ASSUME FrameInv, SyncInv, frame_decode
  PROVE  SyncInv'
<1>t. rest \in Seq(Byte) /\ data_buf \in Seq(Byte) /\ Len(data_buf) \in Nat /\ Len(rest) \in Nat
  BY DEF FrameInv, TypeOK
<1>r. rest # <<>> /\ rest' = Tail(rest)
  BY DEF frame_decode, InitByte, HeaderByte, LenByte, IdByte, DataByte, CheckByte, Comes
<1>h. /\ 1 \in 0..Len(rest) /\ rest' = SubSeq(rest, 1 + 1, Len(rest)) /\ ch = rest[1]
      /\ rest' \in Seq(Byte) /\ Len(rest') = Len(rest) - 1
  BY <1>t, <1>r, TailDrops DEF ch
<1>1. CASE InitByte
  <2>1. /\ receive_state = "DAT_INIT" /\ line' = line
        /\ receive_state' = IF rest[1] = HEADER_0 THEN "DAT_HEADER" ELSE "DAT_INIT"
    BY <1>1, <1>h DEF InitByte, Comes
  <2>2. Marked(rest, FALSE)
    BY <2>1 DEF SyncInv, OutOfFrame
  <2>3. Marked(SubSeq(rest, 1 + 1, Len(rest)), 1 > 0 /\ rest[1] = HEADER_0)
    BY <1>t, <1>h, <2>2, DropMarked
  <2>4. Marked(rest, receive_state = "DAT_HEADER")'
    BY <1>h, <2>1, <2>3 DEF Marked, Follows
  <2> QED
    BY <2>1, <2>4 DEF SyncInv, OutOfFrame, InFrame, UNDEFINED
<1>2. CASE HeaderByte
  <2>1. /\ receive_state = "DAT_HEADER" /\ line' = line /\ data_buf' = data_buf
        /\ receive_state' = IF rest[1] = HEADER_1 THEN "DAT_LEN" ELSE "DAT_INIT"
    BY <1>2, <1>h DEF HeaderByte, Comes
  <2>2. Marked(rest, TRUE)
    BY <2>1 DEF SyncInv, OutOfFrame
  <2>3. CASE rest[1] = HEADER_1
    <3>1. 1 \in 1..Len(rest)
      BY <1>t, <1>h, <1>r
    <3>2. Follows(SubSeq(rest, 1 + 1, Len(rest)))
      BY <2>2, <2>3, <3>1 DEF Marked
    <3>3. line # <<>> /\ rest' = Sealed(line[Len(line)])
      BY <1>h, <3>2 DEF Follows
    <3>4. PICK f \in Frames : f = line[Len(line)]
      <4>1. line \in Seq(Frames)
        BY DEF FrameInv, TypeOK
      <4>2. Len(line) \in 1..Len(line)
        BY <3>3, <4>1, EmptySeq
      <4> QED
        BY <4>1, <4>2
    <3>5. rest' # <<>>
      <4>1. Len(Sealed(f)) = Len(f.data) + 3 /\ Len(f.data) \in {1, 2}
        BY SealedType, FrameLengths
      <4>2. Len(rest') # 0
        BY <3>3, <3>4, <4>1
      <4> QED
        BY <4>2, EmptySeq
    <3>6. data_buf' \o rest' = rest'
      <4>1. data_buf' = <<>>
        BY <2>1 DEF FrameInv, Kept0
      <4> QED
        BY <1>h, <4>1, ConcatEmptySeq
    <3> QED
      BY <2>1, <2>3, <3>3, <3>5, <3>6 DEF SyncInv, OutOfFrame, InFrame, Follows, UNDEFINED
  <2>4. CASE rest[1] # HEADER_1
    <3>1. Marked(SubSeq(rest, 1 + 1, Len(rest)), 1 > 0 /\ rest[1] = HEADER_0)
      BY <1>t, <1>h, <2>2, DropMarked
    <3>2. Marked(rest, FALSE)'
      BY <1>h, <2>1, <3>1 DEF Marked, Follows
    <3> QED
      BY <2>1, <2>4, <3>2 DEF SyncInv, OutOfFrame, InFrame, UNDEFINED, Marked
  <2> QED
    BY <2>3, <2>4
<1> DEFINE inFrame == {"DAT_LEN", "DAT_ID", "DAT_DATA", "DAT_CHACK"}
<1>3. ASSUME receive_state \in {"DAT_LEN", "DAT_ID", "DAT_DATA"}, NEW next, Kept(next),
             next \in inFrame, Len(data_buf) < RX_BUF_LEN, Len(rest) > 1
      PROVE  SyncInv'
  <2>1. line' = line /\ receive_state' = next /\ data_buf' = Append(data_buf, Head(rest))
    BY <1>3 DEF Kept, ch
  <2>2. line # <<>> /\ data_buf \o rest = Sealed(line[Len(line)])
    BY <1>3 DEF SyncInv, InFrame, Follows
  <2>3. data_buf' \o rest' = data_buf \o rest
    BY <1>t, <1>r, <2>1, Moves
  <2>4. rest' # <<>>
    <3>1. Len(rest') # 0
      BY <1>3, <1>t, <1>h
    <3> QED
      BY <3>1, EmptySeq
  <2> QED
    BY <1>3, <2>1, <2>2, <2>3, <2>4 DEF SyncInv, OutOfFrame, InFrame, Follows, UNDEFINED
<1>4. CASE LenByte
  <2>1. receive_state = "DAT_LEN" /\ Kept("DAT_ID")
    BY <1>4 DEF LenByte, Comes
  <2>2. Len(data_buf) = 0
    BY <2>1, EmptySeq DEF FrameInv, Kept0
  <2>3. Len(data_buf) + Len(rest) \in Nat /\ Len(data_buf) + Len(rest) >= 4
    BY <2>1, InFrameSizes DEF Lengths
  <2>4. Len(rest) > 1 /\ Len(data_buf) < RX_BUF_LEN
    BY <1>t, <2>2, <2>3, SizeAssumption
  <2> QED
    BY <1>3, <2>1, <2>4
<1>5. CASE IdByte
  <2>1. receive_state = "DAT_ID" /\ Kept("DAT_DATA")
    BY <1>5 DEF IdByte, Comes
  <2>2. Len(data_buf) = 1
    BY <2>1 DEF FrameInv, Kept1
  <2>3. Len(data_buf) + Len(rest) \in Nat /\ Len(data_buf) + Len(rest) >= 4
    BY <2>1, InFrameSizes DEF Lengths
  <2>4. Len(rest) > 1 /\ Len(data_buf) < RX_BUF_LEN
    BY <1>t, <2>2, <2>3, SizeAssumption
  <2> QED
    BY <1>3, <2>1, <2>4
<1>6. CASE DataByte
  <2>1. receive_state = "DAT_DATA" /\ Kept(IF Len(data_buf) = frame_len THEN "DAT_CHACK" ELSE "DAT_DATA")
    BY <1>6 DEF DataByte, Comes
  <2>2. PICK g \in Lengths : /\ Len(data_buf) + Len(rest) = g + 2
                             /\ Len(data_buf) > 0 => frame_len = g
    BY <2>1, InFrameSizes
  <2>3. Len(data_buf) >= 2 /\ (frame_len \in Lengths => Len(data_buf) <= frame_len)
    BY <2>1 DEF FrameInv, KeptN
  <2>4. Len(data_buf) <= g /\ g \in Nat /\ g <= 3
    BY <1>t, <2>2, <2>3 DEF Lengths
  <2>5. Len(rest) > 1
    BY <1>t, <2>2, <2>4
  <2>6. Len(data_buf) < RX_BUF_LEN
    BY <1>t, <2>4, SizeAssumption
  <2> QED
    BY <1>3, <2>1, <2>5, <2>6
<1>7. CASE CheckByte
  <2>1. receive_state = "DAT_CHACK" /\ receive_state' = "DAT_INIT"
    BY <1>7, CheckIs DEF CheckByte, Comes
  <2>2. PICK g \in Lengths : /\ Len(data_buf) + Len(rest) = g + 2
                             /\ Len(data_buf) > 0 => frame_len = g
    BY <2>1, InFrameSizes
  <2>3. Len(data_buf) >= 2 /\ Len(data_buf) = frame_len + 1
    BY <2>1 DEF FrameInv, KeptAll
  <2>4. Len(rest) = 1
    <3>1. g \in Nat /\ Len(data_buf) = g + 1 /\ Len(data_buf) + Len(rest) = g + 2
      BY <1>t, <2>2, <2>3 DEF Lengths
    <3> DEFINE k == Len(data_buf)
               m == Len(rest)
    <3>2. k = g + 1 /\ k + m = g + 2 /\ k \in Nat /\ m \in Nat /\ g \in Nat
      BY <1>t, <3>1
    <3> HIDE DEF k, m
    <3>3. m = 1
      BY <3>2
    <3> QED
      BY <3>3 DEF m
  <2>5. Len(rest') = 0
    BY <1>h, <2>4
  <2> QED
    BY <2>1, <2>5 DEF SyncInv, OutOfFrame, InFrame, UNDEFINED, Marked
<1> QED
  BY <1>1, <1>2, <1>4, <1>5, <1>6, <1>7 DEF frame_decode

LEMMA SyncInit == Init => SyncInv
BY DEF Init, SyncInv, OutOfFrame, InFrame, Marked, UNDEFINED

LEMMA SyncStep ==
  ASSUME FrameInv, SyncInv, PlainTexts, PlainFrames, [Next /\ Undamaged]_vars
  PROVE  SyncInv'
<1>1. CASE UNCHANGED vars
  BY <1>1 DEF vars, decoderVars, SyncInv, OutOfFrame, InFrame, Marked, Follows
<1> QED
  BY <1>1, SyncSend, SyncFault, SyncDecode DEF Next

(* What the check is asked about is the frame that was sent last.          *)
LEMMA ReadIsSent ==
  ASSUME FrameInv, SyncInv, CheckByte
  PROVE  Sent # {}
<1>1. receive_state = "DAT_CHACK"
  BY DEF CheckByte, Comes
<1>t. rest \in Seq(Byte) /\ data_buf \in Seq(Byte) /\ Len(data_buf) \in Nat /\ Len(rest) \in Nat
  BY DEF FrameInv, TypeOK
<1>2. PICK f \in Frames :
        /\ Len(line) \in Nat \ {0} /\ f = line[Len(line)]
        /\ data_buf \o rest = Sealed(f)
        /\ Len(data_buf) > 0 => frame_len = Len(f.data) + 1
  BY <1>1, InFrameIs
<1> DEFINE b == Body(f)
           c == <<get_check(b)>>
<1>3. /\ b \in Seq(Byte) /\ Len(b) = Len(f.data) + 2 /\ b[2] = f.id
      /\ SubSeq(b, 3, Len(b)) = f.data /\ c \in Seq(Byte)
  <2>1. get_check(b) \in Byte
    BY SealedType
  <2> QED
    BY <2>1, BodyType
<1>4. data_buf \o rest = b \o c
  BY <1>2 DEF Sealed
<1> HIDE DEF b, c
<1>5. Len(data_buf) = Len(b)
  <2>1. Len(data_buf) >= 2 /\ Len(data_buf) = frame_len + 1
    BY <1>1 DEF FrameInv, KeptAll
  <2>2. Len(f.data) \in Nat
    BY FrameLengths
  <2> QED
    BY <1>2, <1>3, <1>t, <2>1, <2>2
<1>6. data_buf = b
  <2>1. \A i \in 1..Len(data_buf) : data_buf[i] = b[i]
    <3>1. SUFFICES ASSUME NEW i \in 1..Len(data_buf) PROVE data_buf[i] = b[i]
      OBVIOUS
    <3>2. \A j \in 1..Len(data_buf) + Len(rest) : (data_buf \o rest)[j] =
            IF j <= Len(data_buf) THEN data_buf[j] ELSE rest[j - Len(data_buf)]
      BY <1>t, ConcatProperties
    <3>3. \A j \in 1..Len(b) + Len(c) : (b \o c)[j] = IF j <= Len(b) THEN b[j] ELSE c[j - Len(b)]
      BY <1>3, ConcatProperties
    <3>4. Len(b) \in Nat /\ Len(c) \in Nat
      BY <1>3
    <3>5. i \in 1..Len(data_buf) + Len(rest) /\ i <= Len(data_buf) /\ i \in 1..Len(b) + Len(c) /\ i <= Len(b)
      BY <1>5, <1>t, <3>4
    <3>6. (data_buf \o rest)[i] = data_buf[i] /\ (b \o c)[i] = b[i]
      BY <3>2, <3>3, <3>5
    <3> QED
      BY <1>4, <3>6
  <2> QED
    BY <1>3, <1>5, <1>t, <2>1, SeqEqual
<1>7. Read = f
  <2>1. Read = [id |-> f.id, data |-> f.data]
    BY <1>3, <1>6 DEF Read
  <2> QED
    BY <2>1, FrameLengths
<1>8. Len(line) \in Sent
  BY <1>2, <1>7 DEF Sent
<1> QED
  BY <1>8

(* What each step is for network_control and the gateway.                  *)
LEMMA LineStep ==
  ASSUME FrameInv, CheckByte /\ Sent = {} => UNCHANGED <<got, line>>, [Next]_vars
  PROVE  [Line!Send \/ Line!Deliver \/ Line!Lose \/ Line!Forget]_<<line, got>>
<1>1. CASE sent_cmd
  <2>1. line' = Append(line, CmdFrame) /\ got' = got /\ CmdFrame \in Frames
    BY <1>1 DEF sent_cmd, Sends, StartsOn, decoderVars, Frames
  <2> QED
    BY <2>1 DEF Line!Send
<1>2. CASE sent_report
  <2>1. PICK a \in Addrs : line' = Append(line, Report(a)) /\ got' = got
    BY <1>2 DEF sent_report, Sends, StartsOn, decoderVars
  <2>2. Report(a) \in Frames
    BY DEF Frames
  <2> QED
    BY <2>1, <2>2 DEF Line!Send
<1>3. CASE printf \/ LoseByte \/ GatewayRestart
  BY <1>3 DEF printf, StartsOn, LoseByte, GatewayRestart, Fault, decoderVars
<1>4. CASE NetRestart
  BY <1>4 DEF NetRestart, Fault, Line!Forget
<1>5. CASE InitByte \/ HeaderByte \/ LenByte \/ IdByte \/ DataByte
  BY <1>5 DEF InitByte, HeaderByte, LenByte, IdByte, DataByte, Kept
<1>6. CASE CheckByte
  <2>1. \/ UNCHANGED <<got, line>>
        \/ got' = Read /\ \E i \in Sent : line' = SubSeq(line, i + 1, Len(line))
    BY <1>6, CheckIs
  <2>2. CASE UNCHANGED <<got, line>>
    BY <2>2
  <2>3. CASE got' = Read /\ \E i \in Sent : line' = SubSeq(line, i + 1, Len(line))
    BY <2>3 DEF Line!Deliver, Sent
  <2> QED
    BY <2>1, <2>2, <2>3
<1>7. CASE UNCHANGED vars
  BY <1>7 DEF vars, decoderVars
<1> QED
  BY <1>1, <1>2, <1>3, <1>4, <1>5, <1>6, <1>7 DEF Next, Gateway, Faults, frame_decode

(* network_control is told what the gateway sent, in order and each frame  *)
(* at most once, however many bytes are lost outside the frames it is      *)
(* reading and however often it restarts.                                  *)
THEOREM LineUndamaged ==
  ASSUME PlainTexts, PlainFrames
  PROVE  Spec /\ [][Undamaged]_vars => ToldAsSent
<1>1. Init => Line!Init
  BY DEF Init, Line!Init
<1>2. FrameInv /\ SyncInv /\ [Next]_vars /\ [Undamaged]_vars => SyncInv'
  <2>1. SUFFICES ASSUME FrameInv, SyncInv, [Next]_vars, [Undamaged]_vars PROVE SyncInv'
    OBVIOUS
  <2>2. [Next /\ Undamaged]_vars
    BY <2>1
  <2> QED
    BY <2>1, <2>2, SyncStep
<1>3. FrameInv /\ SyncInv /\ [Next]_vars
        => [Line!Send \/ Line!Deliver \/ Line!Lose \/ Line!Forget]_<<line, got>>
  BY LineStep, ReadIsSent
<1> QED
  BY <1>1, <1>2, <1>3, SyncInit, Invariance, PTL DEF Spec, ToldAsSent, Line!Spec

-----------------------------------------------------------------------------
(* Back in step.  Whatever is lost, the decoder has the second of two      *)
(* frames that come undamaged, as long as it does not take another byte    *)
(* for a length.  Then what it still has to read of a frame is at most the *)
(* id, two bytes of data and the check, so it is soon looking for a header *)
(* again; and a frame that comes while it does so is read.                 *)

(* Nothing printed ends like the beginning of a header, nor does a command *)
(* of which the decoder has missed the header.  The gateway's lines end    *)
(* with a line feed, and a command with 0.                                 *)
PlainEnds == /\ \A t \in Texts : t # <<>> => t[Len(t)] # HEADER_0
             /\ get_check(Body(CmdFrame)) # HEADER_0

(* A decoder that looks for a header and reads s looks for one again.      *)
Passing(s) == NoHeader(s) /\ (s # <<>> => s[Len(s)] # HEADER_0)

(* What is sent with a frame at its end, from the frame back to "sUAV".    *)
V(f)    == <<86>> \o Encoded(f)
AV(f)   == <<65>> \o V(f)
UAV(f)  == <<85>> \o AV(f)
sUAV(f) == <<115>> \o UAV(f)
Heralds(s) == \E f \in Frames : s \in {Encoded(f), V(f), AV(f), UAV(f), sUAV(f)}

(* In front of s there are k bytes, behind which the decoder looks for a   *)
(* header.                                                                 *)
Behind(k, s) == \E p, q \in Seq(Byte) :
  s = p \o q /\ Len(p) = k /\ (Passing(q) \/ Heralds(q))

(* A byte in front of others.                                              *)
LEMMA InFront ==
  ASSUME NEW b \in Byte, NEW s \in Seq(Byte)
  PROVE  /\ <<b>> \o s \in Seq(Byte) /\ <<b>> \o s # <<>>
         /\ Len(<<b>> \o s) = Len(s) + 1 /\ (<<b>> \o s)[1] = b
         /\ \A i \in 2..Len(s) + 1 : (<<b>> \o s)[i] = s[i - 1]
         /\ Tail(<<b>> \o s) = s
<1> DEFINE w == <<b>>
           c == w \o s
<1>1. w \in Seq(Byte) /\ Len(w) = 1 /\ w[1] = b /\ Len(s) \in Nat
  OBVIOUS
<1> HIDE DEF w
<1>2. /\ c \in Seq(Byte) /\ Len(c) = 1 + Len(s)
      /\ \A i \in 1..1 + Len(s) : c[i] = IF i <= 1 THEN w[i] ELSE s[i - 1]
  <2>1. /\ w \o s \in Seq(Byte) /\ Len(w \o s) = Len(w) + Len(s)
        /\ \A i \in 1..Len(w) + Len(s) : (w \o s)[i] = IF i <= Len(w) THEN w[i] ELSE s[i - Len(w)]
    BY <1>1, ConcatProperties
  <2> HIDE DEF c
  <2>2. c = w \o s
    BY DEF c
  <2> QED
    BY <1>1, <2>1, <2>2
<1> HIDE DEF c
<1>3. Len(c) = Len(s) + 1 /\ c[1] = b /\ c # <<>>
  <2>1. c # <<>>
    BY <1>1, <1>2, EmptySeq
  <2> QED
    BY <1>1, <1>2, <2>1
<1>4. \A i \in 2..Len(s) + 1 : c[i] = s[i - 1]
  BY <1>1, <1>2
<1>5. Tail(c) = s
  <2> DEFINE t == Tail(c)
  <2>1. t \in Seq(Byte) /\ Len(t) = Len(c) - 1 /\ \A i \in 1..Len(t) : t[i] = c[i + 1]
    BY <1>2, <1>3, HeadTailProperties
  <2> HIDE DEF t
  <2>2. Len(t) = Len(s) /\ \A i \in 1..Len(t) : t[i] = s[i]
    <3>1. Len(t) = Len(s)
      BY <1>1, <1>3, <2>1
    <3>2. \A i \in 1..Len(t) : i + 1 \in 2..Len(s) + 1 /\ (i + 1) - 1 = i
      BY <1>1, <3>1
    <3> QED
      BY <1>4, <2>1, <3>1, <3>2
  <2>3. t = s
    BY <2>1, <2>2, SeqEqual
  <2> QED
    BY <2>3 DEF t
<1> QED
  BY <1>2, <1>3, <1>4, <1>5 DEF c, w

(* The first byte of two parts is the first part's.                        *)
LEMMA TailOfParts ==
  ASSUME NEW p \in Seq(Byte), p # <<>>, NEW q \in Seq(Byte)
  PROVE  Tail(p \o q) = Tail(p) \o q /\ Len(Tail(p)) = Len(p) - 1 /\ Tail(p) \in Seq(Byte)
<1>1. /\ p[1] \in Byte /\ Tail(p) \in Seq(Byte) /\ Len(Tail(p)) = Len(p) - 1
      /\ p = <<p[1]>> \o Tail(p) /\ <<p[1]>> \in Seq(Byte)
  BY TailDrops, EmptySeq
<1>2. p \o q = <<p[1]>> \o (Tail(p) \o q)
  <2>1. (<<p[1]>> \o Tail(p)) \o q = <<p[1]>> \o (Tail(p) \o q)
    BY <1>1, ConcatAssociative
  <2> QED
    BY <1>1, <2>1
<1>3. Tail(p) \o q \in Seq(Byte)
  BY <1>1, ConcatProperties
<1>4. Tail(<<p[1]>> \o (Tail(p) \o q)) = Tail(p) \o q
  BY <1>1, <1>3, InFront
<1> QED
  BY <1>1, <1>2, <1>4

(* A byte more to read before.                                             *)
LEMMA OneMoreBehind ==
  ASSUME NEW b \in Byte, NEW s, NEW k \in Nat, Behind(k, s)
  PROVE  Behind(k + 1, <<b>> \o s)
<1>1. PICK p \in Seq(Byte), q \in Seq(Byte) :
        s = p \o q /\ Len(p) = k /\ (Passing(q) \/ Heralds(q))
  BY DEF Behind
<1>2. <<b>> \in Seq(Byte) /\ <<b>> \o p \in Seq(Byte) /\ Len(<<b>> \o p) = k + 1
  BY <1>1, InFront
<1>3. (<<b>> \o p) \o q = <<b>> \o s
  <2>1. (<<b>> \o p) \o q = <<b>> \o (p \o q)
    BY <1>2, ConcatAssociative
  <2> QED
    BY <1>1, <2>1
<1> QED
  BY <1>1, <1>2, <1>3 DEF Behind

(* Nothing more to read before.                                            *)
LEMMA NoneBehind ==
  ASSUME NEW s \in Seq(Byte), Passing(s) \/ Heralds(s)
  PROVE  Behind(0, s)
<1>1. <<>> \in Seq(Byte) /\ Len(<<>>) = 0 /\ <<>> \o s = s
  BY EmptySeq, ConcatEmptySeq
<1> QED
  BY <1>1 DEF Behind

LEMMA BehindNone ==
  ASSUME NEW s, Behind(0, s)
  PROVE  Passing(s) \/ Heralds(s)
<1>1. PICK p \in Seq(Byte), q \in Seq(Byte) :
        s = p \o q /\ Len(p) = 0 /\ (Passing(q) \/ Heralds(q))
  BY DEF Behind
<1>2. p = <<>>
  BY <1>1, EmptySeq
<1>3. p \o q = q
  BY <1>2, ConcatEmptySeq
<1> QED
  BY <1>1, <1>3

(* One of the bytes before is read.                                        *)
LEMMA ReadBehind ==
  ASSUME NEW s, NEW k \in Nat \ {0}, Behind(k, s)
  PROVE  s # <<>> /\ Behind(k - 1, Tail(s))
<1>1. PICK p \in Seq(Byte), q \in Seq(Byte) :
        s = p \o q /\ Len(p) = k /\ (Passing(q) \/ Heralds(q))
  BY DEF Behind
<1>2. p # <<>>
  BY <1>1, EmptySeq
<1>3. Tail(s) = Tail(p) \o q /\ Len(Tail(p)) = k - 1 /\ Tail(p) \in Seq(Byte)
  BY <1>1, <1>2, TailOfParts
<1>4. s # <<>>
  BY <1>1, <1>2, ConcatEqualIffEmpty
<1> QED
  BY <1>1, <1>3, <1>4 DEF Behind

(* A byte of text is read, or of a frame whose header was missed.          *)
LEMMA PassingTail ==
  ASSUME NEW s \in Seq(Byte), s # <<>>, Passing(s)
  PROVE  /\ Tail(s) \in Seq(Byte) /\ Passing(Tail(s))
         /\ s[1] = HEADER_0 => Tail(s) # <<>> /\ Tail(s)[1] # HEADER_1
<1> DEFINE t == Tail(s)
           n == Len(s)
<1>1. n \in Nat \ {0}
  BY EmptySeq
<1>2. t \in Seq(Byte) /\ Len(t) = n - 1 /\ \A i \in 1..n - 1 : t[i] = s[i + 1]
  BY HeadTailProperties
<1>3. NoHeader(s) /\ s[n] # HEADER_0
  BY DEF Passing
<1> HIDE DEF t
<1>4. t # <<>> <=> n > 1
  BY <1>1, <1>2, EmptySeq
<1>5. NoHeader(t)
  <2>1. SUFFICES ASSUME NEW i \in 1..Len(t)-1, t[i] = HEADER_0, t[i + 1] = HEADER_1 PROVE FALSE
    BY DEF NoHeader
  <2>2. i \in 1..n - 1 /\ i + 1 \in 1..n - 1
    BY <1>1, <1>2, <2>1
  <2>3. i + 1 \in 1..Len(s) - 1 /\ s[i + 1] = HEADER_0 /\ s[(i + 1) + 1] = HEADER_1
    BY <1>1, <1>2, <2>1, <2>2
  <2> QED
    BY <1>3, <2>3 DEF NoHeader
<1>6. t # <<>> => t[Len(t)] # HEADER_0
  <2>1. SUFFICES ASSUME t # <<>> PROVE t[n - 1] # HEADER_0
    BY <1>2
  <2>2. n - 1 \in 1..n - 1 /\ (n - 1) + 1 = n
    BY <1>1, <1>4, <2>1
  <2> QED
    BY <1>2, <1>3, <2>2
<1>7. s[1] = HEADER_0 => t # <<>> /\ t[1] # HEADER_1
  <2>1. SUFFICES ASSUME s[1] = HEADER_0 PROVE t # <<>> /\ t[1] # HEADER_1
    OBVIOUS
  <2>2. n # 1
    <3>1. SUFFICES ASSUME n = 1 PROVE FALSE
      OBVIOUS
    <3>2. s[n] = HEADER_0
      BY <2>1, <3>1
    <3> QED
      BY <1>3, <3>2
  <2>3. 1 \in 1..Len(s) - 1 /\ 1 \in 1..n - 1
    <3>1. n > 1
      BY <1>1, <2>2
    <3> HIDE DEF n
    <3>2. 1 \in 1..n - 1
      BY <1>1, <3>1
    <3> QED
      BY <3>2 DEF n
  <2>4. s[1 + 1] # HEADER_1
    BY <1>3, <2>1, <2>3 DEF NoHeader
  <2> QED
    BY <1>1, <1>2, <1>4, <2>2, <2>3, <2>4
<1> QED
  BY <1>2, <1>5, <1>6, <1>7 DEF Passing, t

(* A frame behind its header.                                              *)
LEMMA EncodedIs ==
  ASSUME NEW f \in Frames
  PROVE  /\ <<HEADER_1>> \o Sealed(f) \in Seq(Byte) /\ Encoded(f) \in Seq(Byte)
         /\ Encoded(f) = <<HEADER_0>> \o (<<HEADER_1>> \o Sealed(f))
         /\ Tail(<<HEADER_1>> \o Sealed(f)) = Sealed(f)
<1>1. Sealed(f) \in Seq(Byte) /\ Encoded(f) = <<HEADER_0, HEADER_1>> \o Sealed(f)
  BY SealedType
<1>2. HEADER_0 \in Byte /\ HEADER_1 \in Byte
  BY DEF HEADER_0, HEADER_1, Byte
<1>3. <<HEADER_0, HEADER_1>> = <<HEADER_0>> \o <<HEADER_1>>
  <2> DEFINE a == <<HEADER_0, HEADER_1>>
             b == <<HEADER_0>> \o <<HEADER_1>>
  <2>1. /\ b \in Seq(Byte) /\ Len(b) = 1 + 1 /\ b[1] = HEADER_0
        /\ \A i \in 2..1 + 1 : b[i] = <<HEADER_1>>[i - 1]
    BY <1>2, InFront
  <2>2. b[2] = HEADER_1
    BY <2>1
  <2>3. a \in Seq(Byte) /\ Len(a) = 2 /\ a[1] = HEADER_0 /\ a[2] = HEADER_1
    BY <1>2
  <2> HIDE DEF a, b
  <2>4. a = b
    BY <2>1, <2>2, <2>3, SeqEqual
  <2> QED
    BY <2>4 DEF a, b
<1>4. (<<HEADER_0>> \o <<HEADER_1>>) \o Sealed(f) = <<HEADER_0>> \o (<<HEADER_1>> \o Sealed(f))
  BY <1>1, <1>2, ConcatAssociative
<1>5. <<HEADER_1>> \o Sealed(f) \in Seq(Byte) /\ Tail(<<HEADER_1>> \o Sealed(f)) = Sealed(f)
  BY <1>1, <1>2, InFront
<1>6. Encoded(f) \in Seq(Byte)
  BY SealedType
<1> QED
  BY <1>1, <1>3, <1>4, <1>5, <1>6

(* What is sent before a frame.                                            *)
LEMMA HeraldTypes ==
  ASSUME NEW f \in Frames
  PROVE  /\ {Encoded(f), V(f), AV(f), UAV(f), sUAV(f)} \subseteq Seq(Byte)
         /\ Tail(V(f)) = Encoded(f) /\ V(f)[1] = 86 /\ V(f) # <<>>
         /\ Tail(AV(f)) = V(f) /\ AV(f)[1] = 65 /\ AV(f) # <<>>
         /\ Tail(UAV(f)) = AV(f) /\ UAV(f)[1] = 85 /\ UAV(f) # <<>>
         /\ Tail(sUAV(f)) = UAV(f) /\ sUAV(f)[1] = 115 /\ sUAV(f) # <<>>
<1>1. Encoded(f) \in Seq(Byte) /\ 86 \in Byte /\ 65 \in Byte /\ 85 \in Byte /\ 115 \in Byte
  BY SealedType DEF Byte
<1>2. V(f) \in Seq(Byte) /\ Tail(V(f)) = Encoded(f) /\ V(f)[1] = 86 /\ V(f) # <<>>
  BY <1>1, InFront DEF V
<1>3. AV(f) \in Seq(Byte) /\ Tail(AV(f)) = V(f) /\ AV(f)[1] = 65 /\ AV(f) # <<>>
  BY <1>1, <1>2, InFront DEF AV
<1>4. UAV(f) \in Seq(Byte) /\ Tail(UAV(f)) = AV(f) /\ UAV(f)[1] = 85 /\ UAV(f) # <<>>
  BY <1>1, <1>3, InFront DEF UAV
<1>5. sUAV(f) \in Seq(Byte) /\ Tail(sUAV(f)) = UAV(f) /\ sUAV(f)[1] = 115 /\ sUAV(f) # <<>>
  BY <1>1, <1>4, InFront DEF sUAV
<1> QED
  BY <1>1, <1>2, <1>3, <1>4, <1>5

(* A decoder that looks for a header reads a byte of it.                   *)
LEMMA HeraldSteps ==
  ASSUME NEW s, Heralds(s)
  PROVE  /\ s \in Seq(Byte) /\ s # <<>> /\ Tail(s) \in Seq(Byte)
         /\ \/ s[1] # HEADER_0 /\ Heralds(Tail(s))
            \/ /\ s[1] = HEADER_0 /\ Tail(s) # <<>> /\ Tail(s)[1] # HEADER_1
               /\ Heralds(Tail(Tail(s)))
            \/ s[1] = HEADER_0 /\ \E f \in Frames : Tail(s) = <<HEADER_1>> \o Sealed(f)
<1>1. PICK f \in Frames : s \in {Encoded(f), V(f), AV(f), UAV(f), sUAV(f)}
  BY DEF Heralds
<1>2. Heralds(Encoded(f)) /\ Heralds(V(f)) /\ Heralds(AV(f)) /\ Heralds(UAV(f))
  BY Zenon DEF Heralds
<1>3. CASE s = Encoded(f)
  <2>1. <<HEADER_1>> \o Sealed(f) \in Seq(Byte) /\ s = <<HEADER_0>> \o (<<HEADER_1>> \o Sealed(f))
    BY <1>3, EncodedIs
  <2>2. HEADER_0 \in Byte
    BY DEF HEADER_0, Byte
  <2>3. s \in Seq(Byte) /\ s # <<>> /\ s[1] = HEADER_0 /\ Tail(s) = <<HEADER_1>> \o Sealed(f)
    BY <2>1, <2>2, InFront
  <2> QED
    BY <2>1, <2>3
<1>4. CASE s = V(f)
  <2>1. s \in Seq(Byte) /\ s # <<>> /\ s[1] = 86 /\ Tail(s) = Encoded(f) /\ Tail(s) \in Seq(Byte)
    BY <1>4, HeraldTypes
  <2>2. s[1] # HEADER_0
    BY <2>1 DEF HEADER_0
  <2>3. Heralds(Tail(s))
    BY <1>2, <2>1, Zenon
  <2> QED
    BY <2>1, <2>2, <2>3, Zenon
<1>5. CASE s = AV(f)
  <2>1. s \in Seq(Byte) /\ s # <<>> /\ s[1] = 65 /\ Tail(s) = V(f) /\ Tail(s) \in Seq(Byte)
    BY <1>5, HeraldTypes
  <2>2. s[1] # HEADER_0
    BY <2>1 DEF HEADER_0
  <2>3. Heralds(Tail(s))
    BY <1>2, <2>1, Zenon
  <2> QED
    BY <2>1, <2>2, <2>3, Zenon
<1>6. CASE s = UAV(f)
  <2>1. /\ s \in Seq(Byte) /\ s # <<>> /\ s[1] = 85 /\ Tail(s) = AV(f) /\ Tail(s) \in Seq(Byte)
        /\ AV(f) # <<>> /\ AV(f)[1] = 65 /\ Tail(AV(f)) = V(f)
    BY <1>6, HeraldTypes
  <2>4. Tail(s) # <<>> /\ Tail(s)[1] = 65
    BY <2>1, Zenon
  <2>2. s[1] = HEADER_0 /\ Tail(s) # <<>> /\ Tail(s)[1] # HEADER_1
    BY <2>1, <2>4 DEF HEADER_0, HEADER_1
  <2>3. Heralds(Tail(Tail(s)))
    BY <1>2, <2>1, Zenon
  <2> QED
    BY <2>1, <2>2, <2>3, Zenon
<1>7. CASE s = sUAV(f)
  <2>1. s \in Seq(Byte) /\ s # <<>> /\ s[1] = 115 /\ Tail(s) = UAV(f) /\ Tail(s) \in Seq(Byte)
    BY <1>7, HeraldTypes
  <2>2. s[1] # HEADER_0
    BY <2>1 DEF HEADER_0
  <2>3. Heralds(Tail(s))
    BY <1>2, <2>1, Zenon
  <2> QED
    BY <2>1, <2>2, <2>3, Zenon
<1> QED
  BY <1>1, <1>3, <1>4, <1>5, <1>6, <1>7

(* What is left when the beginning of a header is gone.                    *)
LEMMA BehindPassing ==
  ASSUME NEW e \in Seq(Byte), \A i \in 2..Len(e) : e[i] # HEADER_0, NEW k \in 1..Len(e)
  PROVE  Behind(k, e)
<1> DEFINE p == SubSeq(e, 1, k)
           q == SubSeq(e, k + 1, Len(e))
           n == Len(e)
<1>1. k \in 0..n /\ n \in Nat /\ k \in Nat /\ n >= 1
  OBVIOUS
<1>2. q \in Seq(Byte) /\ Len(q) = n - k /\ \A i \in 1..n - k : q[i] = e[k + i]
  BY <1>1, RestType
<1>3. p \in Seq(Byte) /\ Len(p) = k
  <2>1. \A i \in 1..k : e[i] \in Byte
    BY <1>1
  <2> QED
    BY <1>1, <2>1, SubSeqProperties
<1>4. p \o q = e
  <2>1. 1 \in 1..n + 1 /\ k \in 1-1..n /\ n \in k..n
    BY <1>1
  <2>2. p \o q = SubSeq(e, 1, n)
    BY <2>1, ConcatAdjacentSubSeq
  <2>3. SubSeq(e, 1, n) = e
    <3> DEFINE w == SubSeq(e, 1, n)
    <3>1. \A i \in 1..n : e[i] \in Byte
      OBVIOUS
    <3>2. w \in Seq(Byte) /\ Len(w) = n /\ \A i \in 1..n : w[i] = e[i]
      <4>1. /\ w \in Seq(Byte) /\ Len(w) = IF 1 <= n THEN n - 1 + 1 ELSE 0
            /\ \A i \in 1..n - 1 + 1 : w[i] = e[1 + i - 1]
        BY <1>1, <3>1, SubSeqProperties
      <4> HIDE DEF w, n
      <4> QED
        BY <1>1, <4>1
    <3> HIDE DEF w
    <3>3. w = e
      BY <3>2, SeqEqual
    <3> QED
      BY <3>3 DEF w
  <2> HIDE DEF p, q, n
  <2> QED
    BY <2>2, <2>3
<1> HIDE DEF p, q
<1>5. \A i \in 1..n - k : q[i] # HEADER_0
  <2>1. SUFFICES ASSUME NEW i \in 1..n - k PROVE e[k + i] # HEADER_0
    BY <1>2
  <2>2. k + i \in 2..n
    <3> HIDE DEF n
    <3> QED
      BY <1>1
  <2> QED
    BY <2>2
<1>6. Passing(q)
  <2>1. NoHeader(q)
    <3>1. SUFFICES ASSUME NEW i \in 1..Len(q)-1 PROVE q[i] # HEADER_0
      BY DEF NoHeader
    <3>2. i \in 1..n - k
      <4> HIDE DEF n
      <4> QED
        BY <1>1, <1>2
    <3> QED
      BY <1>5, <3>2
  <2>2. q # <<>> => q[Len(q)] # HEADER_0
    <3>1. SUFFICES ASSUME q # <<>> PROVE q[Len(q)] # HEADER_0
      OBVIOUS
    <3>2. Len(q) \in Nat \ {0}
      BY <1>2, <3>1, EmptySeq
    <3>3. Len(q) \in 1..n - k
      BY <1>2, <3>2
    <3> QED
      BY <1>5, <3>3
  <2> QED
    BY <2>1, <2>2 DEF Passing
<1>7. e = p \o q
  BY <1>4
<1> QED
  BY <1>2, <1>3, <1>6, <1>7 DEF Behind

(* A command, seen by a decoder that has missed its first byte.            *)
LEMMA CommandBehind ==
  ASSUME PlainEnds
  PROVE  /\ CmdFrame \in Frames /\ Encoded(CmdFrame)[1] = HEADER_0
         /\ \A k \in 1..4 : Behind(k, Encoded(CmdFrame))
         /\ Passing(Tail(Encoded(CmdFrame)))
<1> DEFINE f == CmdFrame
           e == Encoded(f)
           t == <<HEADER_1>> \o Sealed(f)
           b == Body(f)
           c == get_check(b)
<1>1. f \in Frames /\ f.id = 1 /\ Len(f.data) = 1 /\ f.data[1] = 3
  BY DEF Frames, CmdFrame, CMD_FRAME, START_FLY
<1>2. /\ b \in Seq(Byte) /\ Len(b) = 3 /\ b[1] = 2 /\ b[2] = 1 /\ SubSeq(b, 3, Len(b)) = f.data
      /\ c \in Byte /\ Sealed(f) = b \o <<c>>
  <2>1. /\ b \in Seq(Byte) /\ Len(b) = Len(f.data) + 2 /\ b[1] = Len(f.data) + 1
        /\ b[2] = f.id /\ SubSeq(b, 3, Len(b)) = f.data
    BY <1>1, BodyType
  <2>2. c \in Byte /\ Sealed(f) = b \o <<c>>
    BY <1>1, SealedType DEF Sealed
  <2> HIDE DEF b, c
  <2> QED
    BY <1>1, <2>1, <2>2
<1>3. b[3] = 3
  <2> HIDE DEF b, c
  <2>1. Len(b) \in 3..3 /\ \A i \in 3..Len(b) : b[i] \in Byte
    BY <1>2
  <2>2. \A i \in 1..Len(b) - 3 + 1 : SubSeq(b, 3, Len(b))[i] = b[3 + i - 1]
    BY <2>1, SubSeqProperties
  <2>3. 1 \in 1..Len(b) - 3 + 1 /\ 3 + 1 - 1 = 3
    BY <2>1
  <2>4. SubSeq(b, 3, Len(b))[1] = b[3]
    BY <2>2, <2>3
  <2> QED
    BY <1>1, <1>2, <2>4
<1>4. c # HEADER_0
  BY DEF PlainEnds
<1> HIDE DEF b, c
<1>5. Len(Sealed(f)) = 4 /\ \A i \in 1..4 : Sealed(f)[i] # HEADER_0
  <2>1. /\ Len(b \o <<c>>) = Len(b) + Len(<<c>>)
        /\ \A i \in 1..Len(b) + Len(<<c>>) :
             (b \o <<c>>)[i] = IF i <= Len(b) THEN b[i] ELSE <<c>>[i - Len(b)]
    <3>1. <<c>> \in Seq(Byte)
      BY <1>2
    <3> QED
      BY <1>2, <3>1, ConcatProperties, Zenon
  <2>2. Len(<<c>>) = 1 /\ <<c>>[1] = c
    OBVIOUS
  <2>3. /\ Len(b \o <<c>>) = 4
        /\ \A i \in 1..4 : (b \o <<c>>)[i] = IF i <= 3 THEN b[i] ELSE <<c>>[i - 3]
    BY <1>2, <2>1, <2>2
  <2>4. \A i \in 1..4 : (b \o <<c>>)[i] \in {2, 1, 3, c}
    <3>1. SUFFICES ASSUME NEW i \in 1..4 PROVE (b \o <<c>>)[i] \in {2, 1, 3, c}
      OBVIOUS
    <3>2. i = 1 \/ i = 2 \/ i = 3 \/ i = 4
      OBVIOUS
    <3> QED
      BY <1>2, <1>3, <2>2, <2>3, <3>2
  <2>5. \A x \in {2, 1, 3, c} : x # HEADER_0
    BY <1>4 DEF HEADER_0
  <2> QED
    BY <1>2, <2>3, <2>4, <2>5
<1>6. Sealed(f) \in Seq(Byte) /\ t \in Seq(Byte) /\ e = <<HEADER_0>> \o t /\ e \in Seq(Byte)
  BY <1>1, SealedType, EncodedIs
<1>7. HEADER_0 \in Byte /\ HEADER_1 \in Byte /\ HEADER_1 # HEADER_0
  BY DEF HEADER_0, HEADER_1, Byte
<1>8. Len(t) = 5 /\ \A i \in 1..5 : t[i] # HEADER_0
  <2>1. Len(t) = 4 + 1 /\ t[1] = HEADER_1 /\ \A i \in 2..4 + 1 : t[i] = Sealed(f)[i - 1]
    <3>1. /\ Len(t) = Len(Sealed(f)) + 1 /\ t[1] = HEADER_1
          /\ \A i \in 2..Len(Sealed(f)) + 1 : t[i] = Sealed(f)[i - 1]
      BY <1>6, <1>7, InFront, Zenon
    <3> QED
      BY <1>5, <3>1, Zenon
  <2> HIDE DEF t
  <2>2. \A i \in 2..5 : i - 1 \in 1..4
    OBVIOUS
  <2>3. \A i \in 1..5 : i = 1 \/ i \in 2..5
    OBVIOUS
  <2> QED
    BY <1>5, <1>7, <2>1, <2>2, <2>3
<1>9. Len(e) = 6 /\ e[1] = HEADER_0 /\ Tail(e) = t /\ \A i \in 2..6 : e[i] # HEADER_0
  <2>1. /\ Len(e) = 5 + 1 /\ e[1] = HEADER_0 /\ Tail(e) = t
        /\ \A i \in 2..5 + 1 : e[i] = t[i - 1]
    BY <1>6, <1>7, <1>8, InFront
  <2> HIDE DEF t, e
  <2>2. \A i \in 2..6 : i - 1 \in 1..5
    OBVIOUS
  <2> QED
    BY <1>8, <2>1, <2>2
<1> HIDE DEF t, e
<1>10. \A k \in 1..4 : Behind(k, e)
  <2>1. \A k \in 1..4 : k \in 1..Len(e)
    BY <1>9
  <2> QED
    BY <1>6, <1>9, <2>1, BehindPassing
<1>11. Passing(t)
  <2>1. t # <<>> /\ t[Len(t)] # HEADER_0
    BY <1>6, <1>8, EmptySeq
  <2>2. NoHeader(t)
    BY <1>8 DEF NoHeader
  <2> QED
    BY <2>1, <2>2 DEF Passing
<1> QED
  BY <1>1, <1>9, <1>10, <1>11 DEF e

(* A report, with what is printed before it.                               *)
LEMMA ReportIs ==
  ASSUME NEW f \in Frames
  PROVE  <<115, 85, 65, 86>> \o Encoded(f) = sUAV(f)
<1> DEFINE w == 115
           x == 85
           y == 65
           z == 86
           e == Encoded(f)
<1>0. w \in Byte /\ x \in Byte /\ y \in Byte /\ z \in Byte /\ e \in Seq(Byte)
  BY SealedType DEF Byte
<1> HIDE DEF w, x, y, z, e
<1>1. <<w>> \in Seq(Byte) /\ <<x>> \in Seq(Byte) /\ <<y>> \in Seq(Byte) /\ <<z>> \in Seq(Byte)
  BY <1>0
<1> DEFINE a == <<y>> \o <<z>>
           b == <<x>> \o a
           c == <<w>> \o b
           d == <<w, x, y, z>>
<1>2. a \in Seq(Byte) /\ Len(a) = 2 /\ a[1] = y /\ a[2] = z
  <2>1. /\ a \in Seq(Byte) /\ Len(a) = Len(<<z>>) + 1 /\ a[1] = y
        /\ \A i \in 2..Len(<<z>>) + 1 : a[i] = <<z>>[i - 1]
    BY <1>0, <1>1, InFront, Zenon
  <2>2. Len(<<z>>) = 1 /\ <<z>>[1] = z
    OBVIOUS
  <2> HIDE DEF a
  <2> QED
    BY <2>1, <2>2
<1>3. b \in Seq(Byte) /\ Len(b) = 3 /\ b[1] = x /\ b[2] = y /\ b[3] = z
  <2> HIDE DEF a
  <2>1. /\ b \in Seq(Byte) /\ Len(b) = Len(a) + 1 /\ b[1] = x
        /\ \A i \in 2..Len(a) + 1 : b[i] = a[i - 1]
    BY <1>0, <1>2, InFront, Zenon
  <2> HIDE DEF b
  <2> QED
    BY <1>2, <2>1
<1>4. c \in Seq(Byte) /\ Len(c) = 4 /\ c[1] = w /\ c[2] = x /\ c[3] = y /\ c[4] = z
  <2> HIDE DEF b
  <2>1. /\ c \in Seq(Byte) /\ Len(c) = Len(b) + 1 /\ c[1] = w
        /\ \A i \in 2..Len(b) + 1 : c[i] = b[i - 1]
    BY <1>0, <1>3, InFront, Zenon
  <2> HIDE DEF c
  <2> QED
    BY <1>3, <2>1
<1>5. d = c
  <2> HIDE DEF c
  <2>1. d \in Seq(Byte) /\ Len(d) = 4 /\ d[1] = w /\ d[2] = x /\ d[3] = y /\ d[4] = z
    BY <1>0
  <2> HIDE DEF d
  <2>2. \A i \in 1..4 : i = 1 \/ i = 2 \/ i = 3 \/ i = 4
    OBVIOUS
  <2>3. \A i \in 1..Len(d) : d[i] = c[i]
    BY <1>4, <2>1, <2>2
  <2> QED
    BY <1>4, <2>1, <2>3, SeqEqual
<1>6. c \o e = <<w>> \o (b \o e)
  <2> HIDE DEF b
  <2> QED
    BY <1>0, <1>1, <1>3, ConcatAssociative
<1>7. b \o e = <<x>> \o (a \o e)
  <2> HIDE DEF a
  <2> QED
    BY <1>0, <1>1, <1>2, ConcatAssociative
<1>8. a \o e = <<y>> \o (<<z>> \o e)
  BY <1>0, <1>1, ConcatAssociative
<1> HIDE DEF a, b, c
<1>9. d \o e = <<w>> \o (<<x>> \o (<<y>> \o (<<z>> \o e)))
  BY <1>5, <1>6, <1>7, <1>8, Zenon
<1> QED
  BY <1>9, Zenon DEF d, w, x, y, z, e, V, AV, UAV, sUAV

(* What the gateway sends with a frame in it, seen by a decoder that is    *)
(* looking for a header, or for its second byte, or is in the middle of    *)
(* another frame.                                                          *)
Item(s) == /\ s \in Seq(Byte) /\ s # <<>> /\ Heralds(s)
           /\ s[1] \in {85, 115} /\ s[1] # HEADER_1
           /\ Passing(Tail(s)) \/ Heralds(Tail(s))
           /\ \A k \in 1..4 : Behind(k, s)

LEMMA ItemSent ==
  ASSUME PlainEnds
  PROVE  /\ Item(Encoded(CmdFrame))
         /\ \A a \in Addrs : Item(<<115, 85, 65, 86>> \o Encoded(Report(a)))
<1>1. Item(Encoded(CmdFrame))
  <2>1. /\ CmdFrame \in Frames /\ Encoded(CmdFrame)[1] = HEADER_0
        /\ \A k \in 1..4 : Behind(k, Encoded(CmdFrame)) /\ Passing(Tail(Encoded(CmdFrame)))
    BY CommandBehind
  <2>2. Heralds(Encoded(CmdFrame))
    BY <2>1, Zenon DEF Heralds
  <2>3. Encoded(CmdFrame) \in Seq(Byte) /\ Encoded(CmdFrame) # <<>>
    BY <2>2, HeraldSteps
  <2>4. Encoded(CmdFrame)[1] \in {85, 115} /\ Encoded(CmdFrame)[1] # HEADER_1
    BY <2>1 DEF HEADER_0, HEADER_1
  <2>5. Passing(Tail(Encoded(CmdFrame))) /\ \A k \in 1..4 : Behind(k, Encoded(CmdFrame))
    BY CommandBehind
  <2> QED
    BY <2>2, <2>3, <2>4, <2>5, Zenon DEF Item
<1>2. ASSUME NEW f \in Frames PROVE Item(<<115, 85, 65, 86>> \o Encoded(f))
  <2> DEFINE e == Encoded(f)
             v == V(f)
             av == AV(f)
             uav == UAV(f)
             s == sUAV(f)
  <2>1. /\ e \in Seq(Byte) /\ v \in Seq(Byte) /\ av \in Seq(Byte) /\ uav \in Seq(Byte)
        /\ s \in Seq(Byte) /\ s # <<>> /\ s[1] = 115 /\ Tail(s) = uav
    BY <1>2, HeraldTypes
  <2>2. Heralds(e) /\ Heralds(v) /\ Heralds(av) /\ Heralds(uav) /\ Heralds(s)
    BY <1>2, Zenon DEF Heralds
  <2>3. 86 \in Byte /\ 65 \in Byte /\ 85 \in Byte /\ 115 \in Byte
    BY DEF Byte
  <2>4. /\ \E b \in Byte : v = <<b>> \o e
        /\ \E b \in Byte : av = <<b>> \o v
        /\ \E b \in Byte : uav = <<b>> \o av
        /\ \E b \in Byte : s = <<b>> \o uav
    BY <2>3, Zenon DEF V, AV, UAV, sUAV
  <2> HIDE DEF e, v, av, uav, s
  <2>5. ASSUME NEW x, NEW y, \E b \in Byte : y = <<b>> \o x
        PROVE  /\ Behind(0, x) => Behind(1, y)
               /\ Behind(1, x) => Behind(2, y)
               /\ Behind(2, x) => Behind(3, y)
               /\ Behind(3, x) => Behind(4, y)
    <3>1. PICK b \in Byte : y = <<b>> \o x
      BY <2>5, Zenon
    <3>2. \A k \in Nat : Behind(k, x) => Behind(k + 1, y)
      BY <3>1, OneMoreBehind, Zenon
    <3>3. /\ 0 \in Nat /\ 1 \in Nat /\ 2 \in Nat /\ 3 \in Nat
          /\ 0 + 1 = 1 /\ 1 + 1 = 2 /\ 2 + 1 = 3 /\ 3 + 1 = 4
      OBVIOUS
    <3> QED
      BY <3>2, <3>3, Zenon
  <2>6. Behind(1, s)
    <3>1. Behind(0, uav)
      BY <2>1, <2>2, NoneBehind
    <3> QED
      BY <2>4, <2>5, <3>1, Zenon
  <2>7. Behind(2, s)
    <3>1. Behind(0, av)
      BY <2>1, <2>2, NoneBehind
    <3>2. Behind(1, uav)
      BY <2>4, <2>5, <3>1, Zenon
    <3> QED
      BY <2>4, <2>5, <3>2, Zenon
  <2>8. Behind(3, s)
    <3>1. Behind(0, v)
      BY <2>1, <2>2, NoneBehind
    <3>2. Behind(1, av)
      BY <2>4, <2>5, <3>1, Zenon
    <3>3. Behind(2, uav)
      BY <2>4, <2>5, <3>2, Zenon
    <3> QED
      BY <2>4, <2>5, <3>3, Zenon
  <2>9. Behind(4, s)
    <3>1. Behind(0, e)
      BY <2>1, <2>2, NoneBehind
    <3>2. Behind(1, v)
      BY <2>4, <2>5, <3>1, Zenon
    <3>3. Behind(2, av)
      BY <2>4, <2>5, <3>2, Zenon
    <3>4. Behind(3, uav)
      BY <2>4, <2>5, <3>3, Zenon
    <3> QED
      BY <2>4, <2>5, <3>4, Zenon
  <2>10. \A k \in 1..4 : Behind(k, s)
    <3>1. \A k \in 1..4 : k = 1 \/ k = 2 \/ k = 3 \/ k = 4
      OBVIOUS
    <3> QED
      BY <2>6, <2>7, <2>8, <2>9, <3>1, Zenon
  <2>11. s[1] \in {85, 115} /\ s[1] # HEADER_1
    BY <2>1 DEF HEADER_1
  <2>12. Item(s)
    BY <2>1, <2>2, <2>10, <2>11, Zenon DEF Item
  <2> QED
    BY <2>12, ReportIs, Zenon DEF s
<1>3. ASSUME NEW a \in Addrs PROVE Report(a) \in Frames
  BY DEF Frames
<1> QED
  BY <1>1, <1>2, <1>3, Zenon
(* After the first byte of a header that was none.                         *)
Skips == receive_state = "DAT_HEADER" /\ rest # <<>> /\ rest[1] # HEADER_1

(* Outside the frames: what is coming brings it back to DAT_INIT.          *)
Idle == \/ receive_state = "DAT_INIT" /\ Passing(rest)
        \/ Skips /\ Passing(Tail(rest))

(* It reads, or will read, the frame that is coming.                       *)
Coming == \/ receive_state = "DAT_INIT" /\ Heralds(rest)
          \/ Skips /\ Heralds(Tail(rest))
          \/ receive_state = "DAT_HEADER" /\ \E f \in Frames : rest = <<HEADER_1>> \o Sealed(f)
          \/ /\ receive_state \in Reads /\ rest # <<>>
             /\ \E f \in Frames : data_buf \o rest = Sealed(f)

(* In another frame: it takes the first bytes for the rest of that.        *)
left == frame_len + 2 - Len(data_buf)
Swallows == /\ receive_state \in {"DAT_ID", "DAT_DATA", "DAT_CHACK"} /\ frame_len \in Lengths
            /\ Behind(left, rest)

(* About to take the first byte of an item for a length.                   *)
Astray == receive_state = "DAT_LEN" /\ rest # <<>> /\ rest[1] \in {85, 115}

(* Since the last loss, or since it was adrift, one frame was sent, or two. *)
Backing == /\ clean >= 1 => Idle \/ Coming \/ Swallows \/ Astray
           /\ clean >= 2 => decoded \/ Coming
BackInv == receive_state = UNDEFINED \/ Adrift \/ Backing

(* A decoder that is not adrift has one of the two lengths that are sent.  *)
LEMMA AdriftIs ==
  ASSUME FrameInv, ~Adrift, receive_state \in {"DAT_ID", "DAT_DATA", "DAT_CHACK"}
  PROVE  frame_len \in Lengths /\ left \in 1..4 /\ Len(data_buf) \in 1..4
<1>1. PICK f \in Frames : frame_len = Len(f.data) + 1
  BY DEF Adrift
<1>2. frame_len \in Lengths
  BY <1>1, FrameLengths
<1>3. Len(data_buf) \in Nat
  BY DEF FrameInv, TypeOK
<1>4. /\ receive_state = "DAT_ID" => Len(data_buf) = 1
      /\ receive_state = "DAT_DATA" => Len(data_buf) >= 2 /\ Len(data_buf) <= frame_len
      /\ receive_state = "DAT_CHACK" => Len(data_buf) >= 2 /\ Len(data_buf) = frame_len + 1
  BY <1>2 DEF FrameInv, Kept1, KeptN, KeptAll
<1> DEFINE n == Len(data_buf)
           g == frame_len
<1>5. g + 2 - n \in 1..4 /\ n \in 1..4
  <2>1. g = 2 \/ g = 3
    BY <1>2 DEF Lengths
  <2>2. n \in Nat /\ (n = 1 \/ (n >= 2 /\ n <= g) \/ n = g + 1)
    BY <1>3, <1>4
  <2> HIDE DEF n, g
  <2> QED
    BY <2>1, <2>2
<1> QED
  BY <1>2, <1>5 DEF left

(* How much of the frame the decoder reads has come.                       *)
LEMMA ReadSizes ==
  ASSUME FrameInv, NEW f \in Frames, data_buf \o rest = Sealed(f)
  PROVE  LET g == Len(f.data) + 1
         IN  /\ g \in Lengths /\ Len(data_buf) + Len(rest) = g + 2
             /\ Len(data_buf) \in Nat /\ Len(rest) \in Nat
             /\ Len(data_buf) > 0 => frame_len = g
<1> DEFINE n == Len(data_buf)
           m == Len(rest)
           z == data_buf \o rest
<1>1. n \in Nat /\ m \in Nat /\ rest \in Seq(Byte) /\ data_buf \in Seq(Byte)
  BY DEF FrameInv, TypeOK
<1>2. Len(f.data) + 1 \in Lengths /\ Len(f.data) \in {1, 2}
  BY FrameLengths
<1>3. Len(Sealed(f)) = Len(f.data) + 3 /\ Sealed(f)[1] = Len(f.data) + 1
  BY SealedType
<1>4. Len(z) = n + m /\ \A i \in 1..n + m : z[i] = IF i <= n THEN data_buf[i] ELSE rest[i - n]
  BY <1>1, ConcatProperties
<1>5. n > 0 => z[1] = data_buf[1]
  <2> HIDE DEF n, m, z
  <2> QED
    BY <1>1, <1>4
<1>6. n + m = Len(f.data) + 3 /\ (n > 0 => data_buf[1] = Len(f.data) + 1)
  <2>1. z = Sealed(f)
    OBVIOUS
  <2> HIDE DEF n, m, z
  <2> QED
    BY <1>3, <1>4, <1>5, <2>1
<1>7. n + m = (Len(f.data) + 1) + 2
  <2> HIDE DEF n, m
  <2> QED
    BY <1>2, <1>6
<1> QED
  BY <1>1, <1>2, <1>6, <1>7 DEF frame_len

(* Between two things the gateway sends.                                   *)
LEMMA BackQuiet ==
  ASSUME FrameInv, Backing, ~Adrift, rest = <<>>
  PROVE  /\ ~Coming /\ ~Swallows /\ ~Astray
         /\ clean >= 1 => receive_state = "DAT_INIT"
         /\ clean >= 2 => decoded
<1>1. ~Heralds(rest)
  BY HeraldSteps
<1>2. \A f \in Frames : rest # <<HEADER_1>> \o Sealed(f)
  <2>1. SUFFICES ASSUME NEW f \in Frames PROVE <<HEADER_1>> \o Sealed(f) # <<>>
    OBVIOUS
  <2>2. Sealed(f) \in Seq(Byte) /\ HEADER_1 \in Byte
    BY SealedType DEF HEADER_1, Byte
  <2> QED
    BY <2>2, InFront
<1>3. ~Coming
  BY <1>1, <1>2 DEF Coming, Skips
<1>4. ~Swallows
  <2>1. SUFFICES ASSUME Swallows PROVE FALSE
    OBVIOUS
  <2>2. left \in Nat \ {0} /\ Behind(left, rest)
    <3>1. left \in 1..4 /\ Behind(left, rest)
      BY <2>1, AdriftIs DEF Swallows
    <3> QED
      BY <3>1
  <2> QED
    BY <2>2, ReadBehind
<1>5. ~Astray
  BY DEF Astray
<1> QED
  BY <1>3, <1>4, <1>5 DEF Backing, Idle, Skips

(* The gateway sends a frame.                                              *)
LEMMA BackSends ==
  ASSUME FrameInv, Backing, receive_state # UNDEFINED, ~Adrift, NEW f, NEW s, Item(s), Sends(f, s)
  PROVE  Backing'
<1>1. /\ rest = <<>> /\ rest' = s /\ UNCHANGED <<receive_state, data_buf>>
      /\ clean' = clean + 1 /\ clean \in Nat
  BY DEF Sends, StartsOn, decoderVars, FrameInv, TypeOK
<1>2. clean >= 1 => receive_state = "DAT_INIT"
  BY <1>1, BackQuiet
<1>3. receive_state \in DAT_STATE
  BY DEF FrameInv, TypeOK
<1>4. CASE receive_state = "DAT_INIT"
  <2>1. Coming'
    BY <1>1, <1>4 DEF Coming, Item
  <2> QED
    BY <2>1 DEF Backing
<1>5. receive_state # "DAT_INIT" => ~(clean' >= 2)
  BY <1>1, <1>2
<1>6. CASE receive_state = "DAT_HEADER"
  <2>1. Skips'
    BY <1>1, <1>6 DEF Skips, Item
  <2>2. Idle' \/ Coming'
    BY <1>1, <2>1 DEF Idle, Coming, Item
  <2> QED
    BY <1>5, <1>6, <2>2 DEF Backing
<1>7. CASE receive_state = "DAT_LEN"
  <2>1. Astray'
    BY <1>1, <1>7 DEF Astray, Item
  <2> QED
    BY <1>5, <1>7, <2>1 DEF Backing
<1>8. CASE receive_state \in {"DAT_ID", "DAT_DATA", "DAT_CHACK"}
  <2>1. frame_len \in Lengths /\ left \in 1..4
    BY <1>8, AdriftIs
  <2>2. Behind(left, s)
    BY <2>1 DEF Item
  <2>3. Swallows'
    BY <1>1, <1>8, <2>1, <2>2 DEF Swallows, left, frame_len
  <2> QED
    BY <1>5, <1>8, <2>3 DEF Backing
<1> QED
  BY <1>3, <1>4, <1>6, <1>7, <1>8 DEF DAT_STATE

LEMMA BackGateway ==
  ASSUME PlainTexts, PlainEnds, FrameInv, BackInv, Gateway
  PROVE  BackInv'
<1>1. UNCHANGED <<receive_state, data_buf>> /\ rest = <<>>
  BY DEF Gateway, sent_cmd, sent_report, Sends, StartsOn, printf, decoderVars
<1>2. CASE receive_state = UNDEFINED \/ Adrift
  BY <1>1, <1>2 DEF BackInv, Adrift, frame_len
<1> SUFFICES ASSUME receive_state # UNDEFINED, ~Adrift, Backing PROVE Backing'
  BY <1>2 DEF BackInv
<1>3. CASE sent_cmd
  BY <1>3, BackSends, ItemSent DEF sent_cmd
<1>4. CASE sent_report
  BY <1>4, BackSends, ItemSent DEF sent_report
<1>5. CASE printf
  <2>1. UNCHANGED <<clean, decoded>>
    BY <1>5 DEF printf, StartsOn
  <2>2. PICK t \in Texts : rest' = t
    BY <1>5 DEF printf, StartsOn
  <2>3. Passing(t)
    BY DEF Passing, PlainTexts, PlainEnds
  <2>4. /\ clean >= 1 => receive_state = "DAT_INIT"
        /\ clean >= 2 => decoded
    BY <1>1, BackQuiet
  <2>5. receive_state' = "DAT_INIT" => Idle'
    BY <2>2, <2>3 DEF Idle
  <2> QED
    BY <1>1, <2>1, <2>4, <2>5 DEF Backing
<1> QED
  BY <1>3, <1>4, <1>5 DEF Gateway

(* Whatever is lost is before the frames that count.                       *)
LEMMA BackFaults ==
  ASSUME Faults
  PROVE  BackInv'
<1>1. clean' = 0
  BY DEF Faults, LoseByte, GatewayRestart, NetRestart, Fault
<1> QED
  BY <1>1 DEF BackInv, Backing

(* The decoder takes a byte, and has not gone adrift.                      *)
LEMMA BackIdle ==
  ASSUME FrameInv, frame_decode, Idle
  PROVE  Idle' /\ UNCHANGED <<clean, decoded>>
<1>t. rest \in Seq(Byte) /\ rest # <<>> /\ rest' = Tail(rest)
  BY DEF FrameInv, TypeOK, frame_decode, InitByte, HeaderByte, LenByte, IdByte, DataByte,
     CheckByte, Comes
<1>h. ch = rest[1]
  BY <1>t, TailDrops DEF ch
<1>1. CASE receive_state = "DAT_INIT"
  <2>1. InitByte
    BY <1>1 DEF frame_decode, InitByte, HeaderByte, LenByte, IdByte, DataByte, CheckByte, Comes
  <2>2. /\ receive_state' = IF rest[1] = HEADER_0 THEN "DAT_HEADER" ELSE "DAT_INIT"
        /\ UNCHANGED <<clean, decoded>>
    BY <1>h, <2>1 DEF InitByte, historyVars
  <2>3. Passing(rest)
    BY <1>1 DEF Idle, Skips
  <2>4. /\ rest' \in Seq(Byte) /\ Passing(rest')
        /\ rest[1] = HEADER_0 => rest' # <<>> /\ rest'[1] # HEADER_1
    BY <1>t, <2>3, PassingTail
  <2>5. rest' # <<>> => Passing(Tail(rest'))
    BY <2>4, PassingTail
  <2> QED
    BY <2>2, <2>4, <2>5 DEF Idle, Skips
<1>2. CASE receive_state # "DAT_INIT"
  <2>1. receive_state = "DAT_HEADER" /\ rest[1] # HEADER_1 /\ Passing(rest')
    BY <1>2, <1>t DEF Idle, Skips
  <2>2. HeaderByte
    BY <2>1 DEF frame_decode, InitByte, HeaderByte, LenByte, IdByte, DataByte, CheckByte, Comes
  <2>3. receive_state' = "DAT_INIT" /\ UNCHANGED <<clean, decoded>>
    BY <1>h, <2>1, <2>2 DEF HeaderByte, historyVars
  <2> QED
    BY <2>1, <2>3 DEF Idle
<1> QED
  BY <1>1, <1>2

(* The check of a frame that has come whole is right.                      *)
LEMMA CheckRight ==
  ASSUME FrameInv, ~Adrift, CheckByte, NEW f \in Frames, data_buf \o rest = Sealed(f)
  PROVE  decoded' = TRUE /\ clean' = clean /\ rest' = <<>>
<1>1. receive_state = "DAT_CHACK" /\ rest # <<>> /\ rest' = Tail(rest)
  BY DEF CheckByte, Comes
<1>t. rest \in Seq(Byte) /\ data_buf \in Seq(Byte)
  BY DEF FrameInv, TypeOK
<1> DEFINE b == Body(f)
           c == get_check(b)
           n == Len(data_buf)
           m == Len(rest)
<1>2. /\ b \in Seq(Byte) /\ Len(b) = Len(f.data) + 2 /\ b[2] = f.id /\ c \in Byte
      /\ data_buf \o rest = b \o <<c>> /\ Len(f.data) \in {1, 2} /\ f.id \in {CMD_FRAME, REPORT_FRAME}
  BY BodyType, SealedType, FrameLengths DEF Sealed
<1>3. n \in Nat /\ m = 1 /\ n = Len(b) /\ n >= 2
  <2>1. /\ n + m = (Len(f.data) + 1) + 2 /\ n \in Nat /\ m \in Nat
        /\ n > 0 => frame_len = Len(f.data) + 1
    BY ReadSizes
  <2>2. n >= 2 /\ n = frame_len + 1
    BY <1>1 DEF FrameInv, KeptAll
  <2> DEFINE d == Len(f.data)
             l == Len(b)
             g == frame_len
  <2>3. d = 1 \/ d = 2
    BY <1>2
  <2>4. l = d + 2
    BY <1>2
  <2>5. n \in Nat /\ m \in Nat /\ n + m = (d + 1) + 2 /\ n >= 2 /\ n = g + 1
    BY <2>1, <2>2
  <2>6. n > 0 => g = d + 1
    BY <2>1
  <2> HIDE DEF n, m, d, b, l, g
  <2>7. m = 1 /\ n = l /\ n >= 2
    BY <2>3, <2>4, <2>5, <2>6
  <2> QED
    BY <2>5, <2>7 DEF l
<1>4. data_buf = b /\ rest[1] = c
  <2> DEFINE w == <<c>>
             z == data_buf \o rest
  <2>1. w \in Seq(Byte) /\ Len(w) = 1 /\ w[1] = c
    BY <1>2
  <2> HIDE DEF w, b, c
  <2>2. \A j \in 1..n + m : z[j] = IF j <= n THEN data_buf[j] ELSE rest[j - n]
    BY <1>t, ConcatProperties
  <2>3. \A j \in 1..Len(b) + Len(w) : (b \o w)[j] = IF j <= Len(b) THEN b[j] ELSE w[j - Len(b)]
    BY <1>2, <2>1, ConcatProperties
  <2>4. z = b \o w
    BY <1>2 DEF w
  <2> HIDE DEF z
  <2>5. \A j \in 1..n + 1 : z[j] = (IF j <= n THEN data_buf[j] ELSE rest[j - n])
                            /\ z[j] = (IF j <= n THEN b[j] ELSE w[j - n])
    BY <1>3, <2>1, <2>2, <2>3, <2>4
  <2> HIDE DEF n
  <2>6. /\ \A j \in 1..n : j \in 1..n + 1 /\ j <= n
        /\ n + 1 \in 1..n + 1 /\ ~(n + 1 <= n) /\ (n + 1) - n = 1
    BY <1>3
  <2>7. (\A j \in 1..n : data_buf[j] = b[j]) /\ rest[1] = w[1]
    BY <2>5, <2>6
  <2>8. data_buf = b
    BY <1>2, <1>3, <1>t, <2>7, SeqEqual DEF n
  <2> QED
    BY <2>1, <2>7, <2>8
<1>5. ch = get_check(data_buf) /\ data_buf[2] \in {CMD_FRAME, REPORT_FRAME}
  <2>1. ch = rest[1]
    BY <1>1, <1>t, TailDrops DEF ch
  <2> QED
    BY <1>2, <1>4, <2>1
<1>6. decoded' = TRUE /\ clean' = clean
  BY <1>5 DEF CheckByte
<1>7. rest' = <<>>
  <2>1. Len(Tail(rest)) = Len(rest) - 1 /\ Tail(rest) \in Seq(Byte)
    BY <1>1, <1>t, TailDrops
  <2>2. Len(Tail(rest)) = 0
    BY <1>3, <2>1
  <2> QED
    BY <1>1, <2>1, <2>2, EmptySeq
<1> QED
  BY <1>6, <1>7

(* A byte of the frame that is coming.                                     *)
LEMMA BackComing ==
  ASSUME FrameInv, ~Adrift, frame_decode, Coming
  PROVE  clean' = clean /\ (Coming' \/ (decoded' /\ Idle'))
<1>t. rest \in Seq(Byte) /\ rest # <<>> /\ rest' = Tail(rest) /\ data_buf \in Seq(Byte)
  BY DEF FrameInv, TypeOK, frame_decode, InitByte, HeaderByte, LenByte, IdByte, DataByte,
     CheckByte, Comes
<1>h. /\ ch = rest[1] /\ Len(rest') = Len(rest) - 1 /\ rest' \in Seq(Byte)
      /\ Len(rest) \in Nat /\ Len(data_buf) \in Nat
  BY <1>t, TailDrops DEF ch
<1>c. clean' = clean
  BY DEF frame_decode, InitByte, HeaderByte, LenByte, IdByte, DataByte, CheckByte, Kept, historyVars
<1>1. CASE receive_state = "DAT_INIT"
  <2>1. InitByte
    BY <1>1 DEF frame_decode, InitByte, HeaderByte, LenByte, IdByte, DataByte, CheckByte, Comes
  <2>2. receive_state' = IF rest[1] = HEADER_0 THEN "DAT_HEADER" ELSE "DAT_INIT"
    BY <1>h, <2>1 DEF InitByte
  <2>3. Heralds(rest)
    BY <1>1 DEF Coming, Skips, Reads
  <2>4. \/ rest[1] # HEADER_0 /\ Heralds(rest')
        \/ rest[1] = HEADER_0 /\ rest' # <<>> /\ rest'[1] # HEADER_1 /\ Heralds(Tail(rest'))
        \/ rest[1] = HEADER_0 /\ \E f \in Frames : rest' = <<HEADER_1>> \o Sealed(f)
    BY <1>t, <2>3, HeraldSteps
  <2>5. Coming'
    BY <2>2, <2>4 DEF Coming, Skips
  <2> QED
    BY <1>c, <2>5
<1>2. CASE receive_state = "DAT_HEADER"
  <2>1. HeaderByte
    BY <1>2 DEF frame_decode, InitByte, HeaderByte, LenByte, IdByte, DataByte, CheckByte, Comes
  <2>2. /\ receive_state' = IF rest[1] = HEADER_1 THEN "DAT_LEN" ELSE "DAT_INIT"
        /\ data_buf' = <<>>
    BY <1>2, <1>h, <2>1 DEF HeaderByte, FrameInv, Kept0
  <2>3. CASE Skips /\ Heralds(Tail(rest))
    BY <1>c, <1>t, <2>2, <2>3 DEF Skips, Coming
  <2>4. CASE \E f \in Frames : rest = <<HEADER_1>> \o Sealed(f)
    <3>1. PICK f \in Frames : rest = <<HEADER_1>> \o Sealed(f)
      BY <2>4
    <3>2. Sealed(f) \in Seq(Byte) /\ Len(Sealed(f)) = Len(f.data) + 3 /\ Len(f.data) \in {1, 2}
      BY SealedType, FrameLengths
    <3>3. HEADER_1 \in Byte
      BY DEF HEADER_1, Byte
    <3>4. rest[1] = HEADER_1 /\ rest' = Sealed(f)
      BY <1>t, <3>1, <3>2, <3>3, InFront
    <3>5. rest' # <<>>
      <4>1. Len(Sealed(f)) # 0
        BY <3>2
      <4> QED
        BY <3>2, <3>4, <4>1, EmptySeq
    <3>6. data_buf' \o rest' = Sealed(f)
      BY <1>h, <2>2, <3>4, ConcatEmptySeq
    <3> QED
      BY <1>c, <2>2, <3>4, <3>5, <3>6 DEF Coming, Reads
  <2> QED
    BY <1>2, <2>3, <2>4 DEF Coming, Reads
<1>3. CASE receive_state \in Reads
  <2>1. PICK f \in Frames : data_buf \o rest = Sealed(f)
    BY <1>3 DEF Coming, Skips, Reads
  <2>2. PICK g \in Lengths : /\ Len(data_buf) + Len(rest) = g + 2
                             /\ Len(data_buf) > 0 => frame_len = g
    BY <2>1, ReadSizes
  <2>3. CASE CheckByte
    <3>1. decoded' = TRUE /\ rest' = <<>> /\ receive_state' = "DAT_INIT"
      BY <2>1, <2>3, CheckRight, CheckIs
    <3>2. Passing(rest')
      <4>1. NoHeader(<<>>)
        BY DEF NoHeader
      <4> QED
        BY <3>1, <4>1 DEF Passing
    <3> QED
      BY <1>c, <3>1, <3>2 DEF Idle
  <2>4. ASSUME NEW next \in Reads, Kept(next), Len(data_buf) < RX_BUF_LEN, Len(rest) > 1
        PROVE  Coming'
    <3>1. receive_state' = next /\ data_buf' = Append(data_buf, Head(rest))
      BY <2>4 DEF Kept, ch
    <3>2. data_buf' \o rest' = Sealed(f)
      BY <1>t, <2>1, <3>1, Moves
    <3>3. rest' # <<>>
      <4>1. Len(rest') # 0
        BY <1>h, <2>4
      <4> QED
        BY <4>1, EmptySeq
    <3> QED
      BY <2>4, <3>1, <3>2, <3>3 DEF Coming
  <2>5. CASE ~CheckByte
    <3>1. PICK next \in Reads : Kept(next) /\ Len(data_buf) <= 3 /\ Len(data_buf) <= g
      <4>1. CASE LenByte
        <5>1. Kept("DAT_ID") /\ Len(data_buf) = 0
          BY <4>1, EmptySeq DEF LenByte, Comes, FrameInv, Kept0
        <5> QED
          BY <5>1 DEF Reads, Lengths
      <4>2. CASE IdByte
        <5>1. Kept("DAT_DATA") /\ Len(data_buf) = 1
          BY <4>2 DEF IdByte, Comes, FrameInv, Kept1
        <5> QED
          BY <5>1 DEF Reads, Lengths
      <4>3. CASE DataByte
        <5>1. /\ Kept(IF Len(data_buf) = frame_len THEN "DAT_CHACK" ELSE "DAT_DATA")
              /\ Len(data_buf) >= 2 /\ (frame_len \in Lengths => Len(data_buf) <= frame_len)
          BY <4>3 DEF DataByte, Comes, FrameInv, KeptN
        <5>2. frame_len = g /\ Len(data_buf) <= g /\ Len(data_buf) <= 3
          BY <1>h, <2>2, <5>1 DEF Lengths
        <5> QED
          BY <5>1, <5>2 DEF Reads
      <4> QED
        BY <1>3, <2>5, <4>1, <4>2, <4>3 DEF frame_decode, InitByte, HeaderByte, Comes, Reads
    <3>2. Len(data_buf) < RX_BUF_LEN
      BY <1>h, <3>1, SizeAssumption
    <3>3. Len(rest) > 1
      BY <1>h, <2>2, <3>1 DEF Lengths
    <3> QED
      BY <1>c, <2>4, <3>1, <3>2, <3>3
  <2> QED
    BY <2>3, <2>5
<1> QED
  BY <1>1, <1>2, <1>3 DEF Coming, Skips

(* A byte that is taken for one of another frame.                          *)
LEMMA BackSwallows ==
  ASSUME FrameInv, ~Adrift, frame_decode, Swallows
  PROVE  clean' = clean /\ (Swallows' \/ Idle' \/ Coming')
<1>t. rest \in Seq(Byte) /\ rest # <<>> /\ rest' = Tail(rest) /\ data_buf \in Seq(Byte)
  BY DEF FrameInv, TypeOK, frame_decode, InitByte, HeaderByte, LenByte, IdByte, DataByte,
     CheckByte, Comes
<1>h. /\ ch = rest[1] /\ ch \in Byte /\ rest' \in Seq(Byte) /\ Len(data_buf) \in Nat
  BY <1>t, TailDrops, EmptySeq DEF ch
<1>c. clean' = clean
  BY DEF frame_decode, InitByte, HeaderByte, LenByte, IdByte, DataByte, CheckByte, Kept, historyVars
<1>1. /\ frame_len \in Lengths /\ left \in 1..4 /\ Len(data_buf) \in 1..4 /\ Behind(left, rest)
  BY AdriftIs DEF Swallows
<1>2. Behind(left - 1, rest')
  <2>1. left \in Nat \ {0}
    BY <1>1
  <2> QED
    BY <1>1, <1>t, <2>1, ReadBehind
<1>3. CASE CheckByte
  <2>1. receive_state = "DAT_CHACK" /\ receive_state' = "DAT_INIT"
    BY <1>3, CheckIs DEF CheckByte, Comes
  <2>2. left - 1 = 0
    <3>1. Len(data_buf) = frame_len + 1
      BY <2>1 DEF FrameInv, KeptAll
    <3> QED
      BY <1>1, <3>1 DEF left, Lengths
  <2>3. Passing(rest') \/ Heralds(rest')
    BY <1>2, <2>2, BehindNone
  <2> QED
    BY <1>c, <2>1, <2>3 DEF Idle, Coming
<1>4. CASE IdByte \/ DataByte
  <2>1. PICK next \in {"DAT_DATA", "DAT_CHACK"} : Kept(next) /\ Len(data_buf) <= 3
    <3>1. CASE IdByte
      <4>1. Len(data_buf) = 1 /\ Kept("DAT_DATA")
        BY <3>1 DEF IdByte, Comes, FrameInv, Kept1
      <4> QED
        BY <4>1
    <3>2. CASE DataByte
      <4>1. /\ Kept(IF Len(data_buf) = frame_len THEN "DAT_CHACK" ELSE "DAT_DATA")
            /\ Len(data_buf) <= frame_len
        BY <1>1, <3>2 DEF DataByte, Comes, FrameInv, KeptN
      <4>2. Len(data_buf) <= 3
        BY <1>1, <1>h, <4>1 DEF Lengths
      <4> QED
        BY <4>1, <4>2
    <3> QED
      BY <1>4, <3>1, <3>2
  <2>2. receive_state' = next /\ data_buf' = Append(data_buf, ch)
    BY <1>1, <2>1, SizeAssumption DEF Kept
  <2>3. Len(data_buf') = Len(data_buf) + 1 /\ data_buf'[1] = data_buf[1]
    BY <1>1, <1>h, <1>t, <2>2, AppendProperties
  <2>4. frame_len' = frame_len /\ left' = left - 1
    BY <1>1, <1>h, <2>3 DEF frame_len, left, Lengths
  <2>5. Swallows'
    <3>1. receive_state' \in {"DAT_ID", "DAT_DATA", "DAT_CHACK"}
      BY <2>1, <2>2
    <3>2. Behind(left', rest')
      BY <1>2, <2>4
    <3>3. frame_len' \in Lengths
      BY <1>1, <2>4
    <3> QED
      BY <3>1, <3>2, <3>3 DEF Swallows
  <2> QED
    BY <1>c, <2>5
<1> QED
  BY <1>3, <1>4 DEF Swallows, frame_decode, InitByte, HeaderByte, LenByte, Comes

(* A decoder that takes another byte for a length goes adrift.             *)
LEMMA BackAstray ==
  ASSUME FrameInv, frame_decode, Astray
  PROVE  Adrift'
<1>t. rest \in Seq(Byte) /\ rest # <<>> /\ data_buf = <<>> /\ receive_state = "DAT_LEN"
  BY DEF Astray, FrameInv, TypeOK, Kept0
<1>1. LenByte
  BY <1>t DEF frame_decode, InitByte, HeaderByte, LenByte, IdByte, DataByte, CheckByte, Comes
<1>2. ch = rest[1]
  BY <1>t, TailDrops DEF ch
<1>3. receive_state' = "DAT_ID" /\ data_buf' = Append(<<>>, rest[1])
  <2>1. Len(data_buf) = 0 /\ 0 < RX_BUF_LEN
    BY <1>t, EmptySeq, SizeAssumption
  <2> QED
    BY <1>1, <1>2, <1>t, <2>1 DEF LenByte, Kept
<1>4. frame_len' = rest[1]
  BY <1>3 DEF frame_len
<1>5. \A f \in Frames : rest[1] # Len(f.data) + 1
  <2>1. SUFFICES ASSUME NEW f \in Frames PROVE rest[1] # Len(f.data) + 1
    OBVIOUS
  <2>2. Len(f.data) + 1 \in {2, 3} /\ rest[1] \in {85, 115}
    BY FrameLengths DEF Lengths, Astray
  <2> QED
    BY <2>2
<1> QED
  BY <1>3, <1>4, <1>5 DEF Adrift

(* A decoder that is adrift stays so until it takes a byte for the check,  *)
(* or leaves its buffer.                                                   *)
LEMMA AdriftStays ==
  ASSUME FrameInv, frame_decode, ~CheckByte, Adrift
  PROVE  Adrift' \/ receive_state' = UNDEFINED
<1>1. PICK next \in {"DAT_DATA", "DAT_CHACK"} : Kept(next)
  BY DEF frame_decode, InitByte, HeaderByte, LenByte, IdByte, DataByte, Comes, Adrift
<1>2. data_buf \in Seq(Byte) /\ Len(data_buf) \in Nat \ {0} /\ ch \in Byte
  <2>1. rest \in Seq(Byte) /\ rest # <<>> /\ data_buf \in Seq(Byte) /\ Len(data_buf) \in Nat
    BY DEF FrameInv, TypeOK, frame_decode, InitByte, HeaderByte, LenByte, IdByte, DataByte,
       CheckByte, Comes
  <2>2. ch \in Byte
    BY <2>1, HeadTailProperties DEF ch
  <2>3. Len(data_buf) >= 1
    BY <2>1 DEF Adrift, FrameInv, Kept1, KeptN, KeptAll
  <2> QED
    BY <2>1, <2>2, <2>3
<1>3. data_buf'[1] = data_buf[1]
  <2>1. data_buf' = Append(data_buf, ch)
    BY <1>1 DEF Kept
  <2> QED
    BY <1>2, <2>1, AppendProperties
<1> QED
  BY <1>1, <1>3 DEF Kept, Adrift, frame_len

(* The decoder takes a byte.                                               *)
LEMMA BackDecode ==
  ASSUME FrameInv, BackInv, frame_decode
  PROVE  BackInv'
<1>1. CASE receive_state = UNDEFINED
  BY <1>1 DEF frame_decode, InitByte, HeaderByte, LenByte, IdByte, DataByte, CheckByte, Comes, UNDEFINED
<1>2. CASE Adrift
  <2>1. CASE CheckByte
    <3>1. clean' = 0
      BY <1>2, <2>1 DEF CheckByte
    <3> QED
      BY <3>1 DEF BackInv, Backing
  <2>2. CASE ~CheckByte
    BY <1>2, <2>2, AdriftStays DEF BackInv
  <2> QED
    BY <2>1, <2>2
<1> SUFFICES ASSUME Backing, ~Adrift, ~Adrift' PROVE Backing'
  BY <1>1, <1>2 DEF BackInv
<1>3. clean' = clean /\ clean \in Nat /\ (decoded => decoded') /\ decoded \in BOOLEAN
  BY DEF FrameInv, TypeOK, frame_decode, InitByte, HeaderByte, LenByte, IdByte, DataByte,
     CheckByte, Kept, historyVars
<1>4. ~Astray
  BY BackAstray
<1>5. Idle => Idle' /\ decoded' = decoded
  BY BackIdle
<1>6. Coming => Coming' \/ (decoded' /\ Idle')
  BY BackComing
<1>7. Swallows => Swallows' \/ Idle' \/ Coming'
  BY BackSwallows
<1>8. clean' >= 1 => Idle' \/ Coming' \/ Swallows' \/ Astray'
  BY <1>3, <1>4, <1>5, <1>6, <1>7 DEF Backing
<1>9. clean' >= 2 => decoded' \/ Coming'
  BY <1>3, <1>6 DEF Backing
<1> QED
  BY <1>8, <1>9 DEF Backing

LEMMA BackInit == Init => BackInv
BY DEF Init, BackInv, Backing

LEMMA BackStep ==
  ASSUME PlainTexts, PlainEnds, FrameInv, BackInv, [Next]_vars
  PROVE  BackInv'
<1>1. CASE UNCHANGED vars
  BY <1>1 DEF vars, decoderVars, historyVars, BackInv, Backing, Idle, Coming, Swallows, Astray,
     Skips, Adrift, left, frame_len
<1> QED
  BY <1>1, BackGateway, BackFaults, BackDecode DEF Next

(* network_control has the second of two undamaged frames in a row,        *)
(* whatever was lost before, in the middle of which frame, and however     *)
(* often both sides restarted.  When frame_decode takes another byte for a *)
(* length, that is so from where the frame it makes up ends.               *)
THEOREM BackInStep ==
  ASSUME PlainTexts, PlainEnds
  PROVE  Spec => []Resyncs
<1>1. FrameInv /\ BackInv /\ [Next]_vars => BackInv'
  BY BackStep
<1>2. FrameInv /\ BackInv => Resyncs
  BY BackQuiet DEF Resyncs, BackInv
<1> QED
  BY <1>1, <1>2, BackInit, Invariance, PTL DEF Spec

-----------------------------------------------------------------------------
(* One byte lost within a frame.  The decoder reads on with a byte too few *)
(* and the check, which is the exclusive or of the bytes, does not match:  *)
(* it is the lost byte that would have to come next.  If the length is the *)
(* byte that is lost, the id takes its place; a report's is then read too  *)
(* short, and a command's makes the decoder read until its buffer is full. *)

XorLaws ==
  /\ \A a, b \in Byte : ByteXor(a, b) = ByteXor(b, a)
  /\ \A a, b, c \in Byte : ByteXor(ByteXor(a, b), c) = ByteXor(a, ByteXor(b, c))
  /\ \A a \in Byte : ByteXor(a, a) = 0
  /\ \A a \in Byte : ByteXor(a, 0) = a

(* What get_check makes of the bytes of a frame, one by one.               *)
LEMMA CheckOf ==
  ASSUME NEW w \in Seq(Byte), w[1] \in Lengths, Len(w) >= w[1] + 1
  PROVE  /\ w[1] = 2 => get_check(w) = ByteXor(ByteXor(2, w[2]), w[3])
         /\ w[1] = 3 => get_check(w) = ByteXor(ByteXor(ByteXor(3, w[2]), w[3]), w[4])
<1> DEFINE q == SubSeq(w, 2, w[1] + 1)
<1>1. w[1] \in Byte /\ (w[1] = 2 \/ w[1] = 3) /\ Len(w) \in Nat
  BY DEF Byte, Lengths
<1>2. \A i \in 2..w[1] + 1 : w[i] \in Byte
  BY <1>1
<1>3. /\ q \in Seq(Byte) /\ Len(q) = (IF 2 <= w[1] + 1 THEN (w[1] + 1) - 2 + 1 ELSE 0)
      /\ \A i \in 1..(w[1] + 1) - 2 + 1 : q[i] = w[2 + i - 1]
  BY <1>1, <1>2, SubSeqProperties
<1>4. get_check(w) = FoldLeft(ByteXor, w[1], q)
  BY DEF get_check
<1> HIDE DEF q
<1>5. CASE w[1] = 2
  <2>1. Len(q) = 2 /\ q[1] = w[2] /\ q[2] = w[3]
    BY <1>3, <1>5
  <2>2. get_check(w) = FoldLeft(ByteXor, 2, q)
    BY <1>4, <1>5
  <2>3. 2 \in Byte /\ 2 # 3
    BY DEF Byte
  <2> QED
    BY <1>3, <1>5, <2>1, <2>2, <2>3, FoldIs
<1>6. CASE w[1] = 3
  <2>1. Len(q) = 3 /\ q[1] = w[2] /\ q[2] = w[3] /\ q[3] = w[4]
    BY <1>3, <1>6
  <2>2. get_check(w) = FoldLeft(ByteXor, 3, q)
    BY <1>4, <1>6
  <2>3. 3 \in Byte /\ 3 # 2
    BY DEF Byte
  <2> QED
    BY <1>3, <1>6, <2>1, <2>2, <2>3, FoldIs
<1> QED
  BY <1>1, <1>5, <1>6

(* The bytes of a frame behind the header.                                 *)
LEMMA SealedBytes ==
  ASSUME NEW f \in Frames
  PROVE  LET z == Sealed(f)
         IN  \/ /\ Len(z) = 4 /\ z[1] = 2 /\ z[2] = CMD_FRAME /\ z[3] = START_FLY
                /\ z[4] = ByteXor(ByteXor(2, z[2]), z[3])
             \/ /\ Len(z) = 5 /\ z[1] = 3 /\ z[2] = REPORT_FRAME
                /\ \E a \in Addrs : z[3] = a[1] /\ z[4] = a[2]
                /\ z[5] = ByteXor(ByteXor(ByteXor(3, z[2]), z[3]), z[4])
<1> DEFINE b == Body(f)
           c == get_check(b)
           w == <<c>>
           z == b \o w
<1>1. /\ b \in Seq(Byte) /\ Len(b) = Len(f.data) + 2 /\ b[1] = Len(f.data) + 1 /\ b[2] = f.id
      /\ SubSeq(b, 3, Len(b)) = f.data /\ c \in Byte /\ Len(f.data) \in {1, 2}
  BY BodyType, SealedType, FrameLengths
<1>2. w \in Seq(Byte) /\ Len(w) = 1 /\ w[1] = c
  BY <1>1
<1>d. z = Sealed(f)
  BY DEF Sealed
<1> HIDE DEF b, c, w
<1>3. /\ Len(z) = Len(b) + 1
      /\ \A i \in 1..Len(b) + 1 : z[i] = IF i <= Len(b) THEN b[i] ELSE w[i - Len(b)]
  <2>1. /\ Len(b \o w) = Len(b) + Len(w)
        /\ \A i \in 1..Len(b) + Len(w) : (b \o w)[i] = IF i <= Len(b) THEN b[i] ELSE w[i - Len(b)]
    BY <1>1, <1>2, ConcatProperties
  <2> HIDE DEF z
  <2>2. z = b \o w
    BY DEF z
  <2> QED
    BY <1>2, <2>1, <2>2
<1>4. \A i \in 3..Len(b) : b[i] = f.data[i - 2]
  <2>1. \A i \in 3..Len(b) : b[i] \in Byte
    BY <1>1
  <2>2. \A i \in 1..Len(b) - 3 + 1 : SubSeq(b, 3, Len(b))[i] = b[3 + i - 1]
    BY <1>1, <2>1, SubSeqProperties
  <2>3. SUFFICES ASSUME NEW i \in 3..Len(b) PROVE b[i] = f.data[i - 2]
    OBVIOUS
  <2>4. i - 2 \in 1..Len(b) - 3 + 1 /\ 3 + (i - 2) - 1 = i
    BY <1>1
  <2> QED
    BY <1>1, <2>2, <2>4
<1>c. c = get_check(b)
  BY DEF c
<1> HIDE DEF z
<1>5. CASE f = CmdFrame
  <2>1. f.id = CMD_FRAME /\ f.data[1] = START_FLY /\ Len(f.data) = 1
    BY <1>5 DEF CmdFrame
  <2>2. /\ Len(b) = 3 /\ b[1] = 2 /\ b[3] = START_FLY /\ Len(z) = 4
        /\ z[1] = b[1] /\ z[2] = b[2] /\ z[3] = b[3] /\ z[4] = c
    BY <1>1, <1>2, <1>3, <1>4, <2>1
  <2>3. c = ByteXor(ByteXor(2, b[2]), b[3])
    BY <1>1, <1>c, <2>2, CheckOf DEF Lengths
  <2> QED
    BY <1>1, <1>d, <2>1, <2>2, <2>3
<1>6. CASE \E a \in Addrs : f = Report(a)
  <2>1. PICK a \in Addrs : f = Report(a)
    BY <1>6
  <2>2. f.id = REPORT_FRAME /\ f.data = a /\ Len(f.data) = 2
    <3>1. PICK x \in Byte, y \in Byte : a = <<x, y>>
      BY BytesAssumption
    <3> QED
      BY <2>1, <3>1 DEF Report
  <2>3. /\ Len(b) = 4 /\ b[1] = 3 /\ b[3] = a[1] /\ b[4] = a[2] /\ Len(z) = 5
        /\ z[1] = b[1] /\ z[2] = b[2] /\ z[3] = b[3] /\ z[4] = b[4] /\ z[5] = c
    BY <1>1, <1>2, <1>3, <1>4, <2>2
  <2>4. c = ByteXor(ByteXor(ByteXor(3, b[2]), b[3]), b[4])
    BY <1>1, <1>c, <2>3, CheckOf DEF Lengths
  <2> QED
    BY <1>1, <1>d, <2>2, <2>3, <2>4
<1> QED
  BY <1>5, <1>6 DEF Frames

(* What is left of a frame that has lost one byte behind its length; the   *)
(* check is the last of it, in the place of data.                          *)
Dud(w) == /\ w \in Seq(Byte) /\ w[1] \in Lengths /\ Len(w) = w[1] + 1
          /\ get_check(w) \in Heads => w[2] \notin {CMD_FRAME, REPORT_FRAME}

(* What is left of a report that has lost its length: the id is one.       *)
Misread(w) == /\ w \in Seq(Byte) /\ Len(w) = 4 /\ w[1] = 2
              /\ w[4] # ByteXor(ByteXor(2, w[2]), w[3])

(* The exclusive or of all bytes but one, and of all, is that one.         *)
LEMMA XorCancels ==
  ASSUME XorLaws, NEW p \in Byte, NEW e \in Byte, NEW x \in Byte, NEW y \in Byte
  PROVE  /\ ByteXor(ByteXor(p, x), ByteXor(ByteXor(p, x), y)) = y
         /\ ByteXor(ByteXor(p, y), ByteXor(ByteXor(p, x), y)) = x
         /\ ByteXor(ByteXor(ByteXor(p, x), y), ByteXor(ByteXor(ByteXor(p, e), x), y)) = e
         /\ ByteXor(p, x) = ByteXor(e, x) => p = e
<1>0. \A a, b \in Byte : ByteXor(a, b) \in Byte
  BY BytesAssumption
<1>1. \A a, b \in Byte : ByteXor(a, ByteXor(a, b)) = b
  <2>1. SUFFICES ASSUME NEW a \in Byte, NEW b \in Byte PROVE ByteXor(a, ByteXor(a, b)) = b
    OBVIOUS
  <2>2. 0 \in Byte
    BY DEF Byte
  <2>3. ByteXor(a, ByteXor(a, b)) = ByteXor(ByteXor(a, a), b)
    BY DEF XorLaws
  <2>4. ByteXor(a, a) = 0 /\ ByteXor(0, b) = ByteXor(b, 0) /\ ByteXor(b, 0) = b
    BY <2>2, Zenon DEF XorLaws
  <2> QED
    BY <2>3, <2>4, Zenon
<1>2. \A a, b, c \in Byte : ByteXor(ByteXor(a, b), c) = ByteXor(ByteXor(a, c), b)
  <2>1. SUFFICES ASSUME NEW a \in Byte, NEW b \in Byte, NEW c \in Byte
                 PROVE  ByteXor(ByteXor(a, b), c) = ByteXor(ByteXor(a, c), b)
    OBVIOUS
  <2>2. /\ ByteXor(ByteXor(a, b), c) = ByteXor(a, ByteXor(b, c))
        /\ ByteXor(ByteXor(a, c), b) = ByteXor(a, ByteXor(c, b))
        /\ ByteXor(b, c) = ByteXor(c, b)
    BY DEF XorLaws
  <2> QED
    BY <2>2, Zenon
<1>3. ByteXor(p, x) \in Byte /\ ByteXor(p, y) \in Byte /\ ByteXor(p, e) \in Byte /\ ByteXor(e, x) \in Byte
  BY <1>0, Zenon
<1>4. ByteXor(ByteXor(p, x), ByteXor(ByteXor(p, x), y)) = y
  BY <1>1, <1>3, Zenon
<1>5. ByteXor(ByteXor(p, y), ByteXor(ByteXor(p, x), y)) = x
  <2>1. ByteXor(ByteXor(p, x), y) = ByteXor(ByteXor(p, y), x)
    BY <1>2, Zenon
  <2>2. ByteXor(ByteXor(p, y), ByteXor(ByteXor(p, y), x)) = x
    BY <1>1, <1>3, Zenon
  <2> QED
    BY <2>1, <2>2, Zenon
<1>6. ByteXor(ByteXor(ByteXor(p, x), y), ByteXor(ByteXor(ByteXor(p, e), x), y)) = e
  <2>1. ByteXor(ByteXor(p, e), x) = ByteXor(ByteXor(p, x), e)
    BY <1>2, Zenon
  <2>2. ByteXor(ByteXor(ByteXor(p, x), e), y) = ByteXor(ByteXor(ByteXor(p, x), y), e)
    BY <1>2, <1>3
  <2>3. ByteXor(ByteXor(p, x), y) \in Byte
    BY <1>0, <1>3, Zenon
  <2>4. ByteXor(ByteXor(ByteXor(p, x), y), ByteXor(ByteXor(ByteXor(p, x), y), e)) = e
    BY <1>1, <2>3, Zenon
  <2> QED
    BY <2>1, <2>2, <2>4, Zenon
<1>7. ByteXor(p, x) = ByteXor(e, x) => p = e
  <2>1. ByteXor(p, x) = ByteXor(x, p) /\ ByteXor(e, x) = ByteXor(x, e)
    BY Zenon DEF XorLaws
  <2>2. ByteXor(x, ByteXor(x, p)) = p /\ ByteXor(x, ByteXor(x, e)) = e
    BY <1>1, Zenon
  <2> QED
    BY <2>1, <2>2, Zenon
<1> QED
  BY <1>4, <1>5, <1>6, <1>7, Zenon

(* u is z without its byte k + 1, which is not the last.                   *)
Without(u, z, k) == /\ Len(u) = Len(z) - 1 /\ k + 1 < Len(z)
                    /\ \A i \in 1..Len(u) : u[i] = IF i <= k THEN z[i] ELSE z[i + 1]

LEMMA WithoutOne ==
  ASSUME NEW u, NEW z, NEW k \in Nat, Without(u, z, k)
  PROVE  /\ Len(z) = 4 => /\ Len(u) = 3 /\ (k = 0 \/ k = 1 \/ k = 2)
                          /\ k = 0 => u[1] = z[2] /\ u[2] = z[3] /\ u[3] = z[4]
                          /\ k = 1 => u[1] = z[1] /\ u[2] = z[3] /\ u[3] = z[4]
                          /\ k = 2 => u[1] = z[1] /\ u[2] = z[2] /\ u[3] = z[4]
         /\ Len(z) = 5 => /\ Len(u) = 4 /\ (k = 0 \/ k = 1 \/ k = 2 \/ k = 3)
                          /\ k = 0 => u[1] = z[2] /\ u[2] = z[3] /\ u[3] = z[4] /\ u[4] = z[5]
                          /\ k = 1 => u[1] = z[1] /\ u[2] = z[3] /\ u[3] = z[4] /\ u[4] = z[5]
                          /\ k = 2 => u[1] = z[1] /\ u[2] = z[2] /\ u[3] = z[4] /\ u[4] = z[5]
                          /\ k = 3 => u[1] = z[1] /\ u[2] = z[2] /\ u[3] = z[3] /\ u[4] = z[5]
<1>1. PICK n : n = Len(z)
  OBVIOUS
<1>2. CASE n = 4
  <2>1. Len(u) = 3 /\ (k = 0 \/ k = 1 \/ k = 2)
    BY <1>1, <1>2 DEF Without
  <2>2. \A i \in 1..3 : u[i] = IF i <= k THEN z[i] ELSE z[i + 1]
    BY <2>1 DEF Without
  <2> QED
    BY <1>1, <1>2, <2>1, <2>2
<1>3. CASE n = 5
  <2>1. Len(u) = 4 /\ (k = 0 \/ k = 1 \/ k = 2 \/ k = 3)
    BY <1>1, <1>3 DEF Without
  <2>2. \A i \in 1..4 : u[i] = IF i <= k THEN z[i] ELSE z[i + 1]
    BY <2>1 DEF Without
  <2> QED
    BY <1>1, <1>3, <2>1, <2>2
<1> QED
  BY <1>1, <1>2, <1>3

LEMMA LostByteOfCommand ==
  ASSUME XorLaws, NEW z \in Seq(Byte), NEW k \in Nat, NEW u \in Seq(Byte),
         Without(u, z, k), Len(z) = 4, z[1] = 2, z[2] = CMD_FRAME, z[3] = START_FLY,
         z[4] = ByteXor(ByteXor(2, z[2]), z[3]), k # 0 => z[k + 1] \notin Heads
  PROVE  (k = 0 => u[1] = 1) /\ (k # 0 => Dud(u))
<1>1. Len(u) = 3 /\ (k = 0 \/ k = 1 \/ k = 2)
  BY WithoutOne
<1>2. CASE k = 0
  BY <1>2, WithoutOne DEF CMD_FRAME
<1>3. CASE k = 1
  <2>1. u[1] = 2 /\ u[2] = 3
    BY <1>3, WithoutOne DEF START_FLY
  <2>2. Dud(u)
    BY <1>1, <2>1 DEF Dud, Lengths, CMD_FRAME, REPORT_FRAME
  <2> QED
    BY <1>3, <2>2
<1>4. CASE k = 2
  <2>1. u[1] = 2 /\ u[2] = z[2] /\ u[3] = z[4]
    BY <1>4, WithoutOne
  <2>2. z[2] \in Byte /\ z[3] \in Byte /\ 2 \in Byte
    BY DEF Byte, CMD_FRAME, START_FLY
  <2>3. get_check(u) = ByteXor(ByteXor(2, u[2]), u[3])
    <3>1. u[1] \in Lengths /\ Len(u) >= u[1] + 1
      BY <1>1, <2>1 DEF Lengths
    <3> QED
      BY <2>1, <3>1, CheckOf
  <2>4. ByteXor(ByteXor(2, z[2]), ByteXor(ByteXor(2, z[2]), z[3])) = z[3]
    BY <2>2, XorCancels
  <2>5. get_check(u) = z[3]
    BY <2>1, <2>3, <2>4
  <2>6. get_check(u) \notin Heads
    BY <1>4, <2>5
  <2>7. Dud(u)
    BY <1>1, <2>1, <2>6 DEF Dud, Lengths
  <2> QED
    BY <1>4, <2>7
<1> QED
  BY <1>1, <1>2, <1>3, <1>4

LEMMA LostByteOfReport ==
  ASSUME XorLaws, NEW z \in Seq(Byte), NEW k \in Nat, NEW u \in Seq(Byte),
         Without(u, z, k), Len(z) = 5, z[1] = 3, z[2] = REPORT_FRAME,
         \E a \in Addrs : z[3] = a[1] /\ z[4] = a[2],
         z[5] = ByteXor(ByteXor(ByteXor(3, z[2]), z[3]), z[4]), k # 0 => z[k + 1] \notin Heads
  PROVE  (k = 0 => Misread(u)) /\ (k # 0 => Dud(u))
<1>1. Len(u) = 4 /\ (k = 0 \/ k = 1 \/ k = 2 \/ k = 3)
  BY WithoutOne
<1>2. z[2] \in Byte /\ z[3] \in Byte /\ z[4] \in Byte /\ 3 \in Byte /\ 2 \in Byte
  <2>1. 3 \in Byte /\ 2 \in Byte
    BY DEF Byte
  <2>2. 2 \in 1..Len(z) /\ 3 \in 1..Len(z) /\ 4 \in 1..Len(z)
    OBVIOUS
  <2>3. \A i \in 1..Len(z) : z[i] \in Byte
    BY ElementOfSeq
  <2> QED
    BY <2>1, <2>2, <2>3, Zenon
<1>4. ByteXor(3, z[2]) \in Byte
  BY <1>2, BytesAssumption
<1>5. CASE k = 0
  <2>1. u[1] = 2 /\ u[2] = z[3] /\ u[3] = z[4] /\ u[4] = z[5] /\ z[2] = 2
    BY <1>5, WithoutOne DEF REPORT_FRAME
  <2>2. u[4] # ByteXor(ByteXor(2, u[2]), u[3])
    <3>1. SUFFICES ASSUME u[4] = ByteXor(ByteXor(2, u[2]), u[3]) PROVE FALSE
      OBVIOUS
    <3>2. ByteXor(ByteXor(ByteXor(3, 2), z[3]), z[4]) = ByteXor(ByteXor(2, z[3]), z[4])
      BY <2>1, <3>1
    <3>3. ByteXor(3, 2) \in Byte
      BY <1>2, BytesAssumption
    <3>4. ByteXor(ByteXor(3, 2), z[3]) \in Byte /\ ByteXor(2, z[3]) \in Byte
      BY <1>2, <3>3, BytesAssumption
    <3>5. ByteXor(ByteXor(3, 2), z[3]) = ByteXor(2, z[3])
      BY <1>2, <3>2, <3>4, XorCancels
    <3>6. ByteXor(3, 2) = 2
      BY <1>2, <3>3, <3>5, XorCancels
    <3>7. ByteXor(2, 2) = 0 /\ ByteXor(3, 0) = 3
      BY <1>2 DEF XorLaws
    <3>8. ByteXor(ByteXor(3, 2), 2) = ByteXor(3, ByteXor(2, 2))
      BY <1>2 DEF XorLaws
    <3>9. 0 = 3
      BY <3>6, <3>7, <3>8
    <3> QED
      BY <3>9
  <2>3. Misread(u)
    BY <1>1, <2>1, <2>2 DEF Misread
  <2> QED
    BY <1>5, <2>3
<1>6. ASSUME k # 0, u[1] = 3, get_check(u) = z[k + 1] PROVE Dud(u)
  <2>1. get_check(u) \notin Heads
    BY <1>6
  <2> QED
    BY <1>1, <1>6, <2>1 DEF Dud, Lengths
<1>7. ASSUME u[1] = 3 PROVE get_check(u) = ByteXor(ByteXor(ByteXor(3, u[2]), u[3]), u[4])
  <2>1. u[1] \in Lengths /\ Len(u) >= u[1] + 1
    BY <1>1, <1>7 DEF Lengths
  <2> QED
    BY <1>7, <2>1, CheckOf
<1>8. CASE k = 1
  <2>1. u[1] = 3 /\ u[2] = z[3] /\ u[3] = z[4] /\ u[4] = z[5]
    BY <1>8, WithoutOne
  <2>2. ByteXor(ByteXor(ByteXor(3, z[3]), z[4]), ByteXor(ByteXor(ByteXor(3, z[2]), z[3]), z[4])) = z[2]
    BY <1>2, XorCancels
  <2>3. get_check(u) = z[2]
    BY <1>7, <2>1, <2>2
  <2> QED
    BY <1>6, <1>8, <2>1, <2>3
<1>9. CASE k = 2
  <2>1. u[1] = 3 /\ u[2] = z[2] /\ u[3] = z[4] /\ u[4] = z[5]
    BY <1>9, WithoutOne
  <2>2. ByteXor(ByteXor(ByteXor(3, z[2]), z[4]), ByteXor(ByteXor(ByteXor(3, z[2]), z[3]), z[4])) = z[3]
    BY <1>2, <1>4, XorCancels
  <2>3. get_check(u) = z[3]
    BY <1>7, <2>1, <2>2
  <2> QED
    BY <1>6, <1>9, <2>1, <2>3
<1>10. CASE k = 3
  <2>1. u[1] = 3 /\ u[2] = z[2] /\ u[3] = z[3] /\ u[4] = z[5]
    BY <1>10, WithoutOne
  <2>2. ByteXor(ByteXor(ByteXor(3, z[2]), z[3]), ByteXor(ByteXor(ByteXor(3, z[2]), z[3]), z[4])) = z[4]
    BY <1>2, <1>4, XorCancels
  <2>3. get_check(u) = z[4]
    BY <1>7, <2>1, <2>2
  <2> QED
    BY <1>6, <1>10, <2>1, <2>3
<1> QED
  BY <1>1, <1>5, <1>8, <1>9, <1>10

(* What is read instead of a frame whose byte k + 1 is lost.  If it is not *)
(* the first, the check that is made of it is the lost byte.               *)
LEMMA LostByte ==
  ASSUME XorLaws, NEW f \in Frames, NEW k \in Nat, NEW u \in Seq(Byte),
         Without(u, Sealed(f), k), k # 0 => Sealed(f)[k + 1] \notin Heads
  PROVE  (k = 0 => u[1] = 1 \/ Misread(u)) /\ (k # 0 => Dud(u))
<1>1. Sealed(f) \in Seq(Byte)
  BY SealedType
<1>2. PICK z \in Seq(Byte) : z = Sealed(f)
  BY <1>1
<1>3. \/ /\ Len(z) = 4 /\ z[1] = 2 /\ z[2] = CMD_FRAME /\ z[3] = START_FLY
         /\ z[4] = ByteXor(ByteXor(2, z[2]), z[3])
      \/ /\ Len(z) = 5 /\ z[1] = 3 /\ z[2] = REPORT_FRAME
         /\ \E a \in Addrs : z[3] = a[1] /\ z[4] = a[2]
         /\ z[5] = ByteXor(ByteXor(ByteXor(3, z[2]), z[3]), z[4])
  BY <1>2, SealedBytes
<1> QED
  BY <1>2, <1>3, LostByteOfCommand, LostByteOfReport

-----------------------------------------------------------------------------
(* The faults that the check can tell: within a frame a loss finds all the *)
(* bytes before it there, and it is none that the next thing that is sent  *)
(* can make up for; the gateway does not restart there.                    *)
Sparse == /\ GatewayRestart => receive_state \notin Reads
          /\ LoseByte => ~MakesHeader /\ ~SecondOfFrame /\ ~MadeUpFor

(* They are the ones that do not blur the line.                            *)
LEMMA SparseFaults ==
  ASSUME ~blurred'
  PROVE  Sparse
<1>1. ASSUME GatewayRestart PROVE receive_state \notin Reads
  <2>1. blurred' = (blurred \/ receive_state \in Reads)
    BY <1>1 DEF GatewayRestart, Fault
  <2> QED
    BY <2>1
<1>2. ASSUME LoseByte PROVE ~MakesHeader /\ ~SecondOfFrame /\ ~MadeUpFor
  <2>1. blurred' = (blurred \/ (MakesHeader \/ SecondOfFrame \/ MadeUpFor))
    BY <1>2 DEF LoseByte, Fault
  <2> QED
    BY <2>1
<1> QED
  BY <1>1, <1>2 DEF Sparse

(* A command without its length is read until the buffer is full,          *)
Overlong == \/ receive_state = UNDEFINED
            \/ receive_state = "DAT_LEN" /\ rest # <<>> /\ rest[1] = 1
            \/ receive_state \in {"DAT_ID", "DAT_DATA"} /\ frame_len = 1

(* and a report without its length as a frame of two bytes.                *)
Early == receive_state \in Reads /\ rest # <<>> /\ Misread(data_buf \o rest)

(* Without another byte, a frame lacks its check, which what comes next    *)
(* would have to begin with;                                               *)
Short == \/ receive_state \in {"DAT_ID", "DAT_DATA"} /\ rest # <<>> /\ Dud(data_buf \o rest)
         \/ receive_state = "DAT_CHACK" /\ Dud(data_buf) /\ (rest # <<>> => rest[1] \in Heads)

(* and if it is the check that is lost, the frame is one that was sent.    *)
Unchecked == /\ receive_state = "DAT_CHACK"
             /\ \E i \in 1..Len(line) : data_buf = Body(line[i]) /\ (i < Len(line) \/ NoHeader(rest))

Hurt == Marked(rest, FALSE) /\ (Overlong \/ Early \/ Short \/ Unchecked)

LEMMA Parts ==
  ASSUME NEW b \in Seq(Byte), NEW q \in Seq(Byte)
  PROVE  /\ b \o q \in Seq(Byte) /\ Len(b \o q) = Len(b) + Len(q)
         /\ Len(b) \in Nat /\ Len(q) \in Nat
         /\ \A i \in 1..Len(b) : (b \o q)[i] = b[i]
         /\ \A i \in 1..Len(q) : (b \o q)[Len(b) + i] = q[i]
<1> DEFINE n == Len(b)
           m == Len(q)
           z == b \o q
<1>1. /\ z \in Seq(Byte) /\ Len(z) = n + m /\ n \in Nat /\ m \in Nat
      /\ \A i \in 1..n + m : z[i] = IF i <= n THEN b[i] ELSE q[i - n]
  BY ConcatProperties
<1> HIDE DEF n, m, z
<1>2. \A i \in 1..n : z[i] = b[i]
  BY <1>1
<1>3. \A i \in 1..m : z[n + i] = q[i]
  <2>1. \A i \in 1..m : n + i \in 1..n + m /\ ~(n + i <= n) /\ (n + i) - n = i
    BY <1>1
  <2> QED
    BY <1>1, <2>1
<1> QED
  BY <1>1, <1>2, <1>3 DEF n, m, z

(* The byte that is lost is the next one.                                  *)
LEMMA TailWithout ==
  ASSUME NEW b \in Seq(Byte), NEW q \in Seq(Byte), Len(q) > 1
  PROVE  b \o Tail(q) \in Seq(Byte) /\ Without(b \o Tail(q), b \o q, Len(b))
<1> DEFINE n == Len(b)
           m == Len(q)
           z == b \o q
           t == Tail(q)
           u == b \o t
<1>1. /\ n \in Nat /\ m \in Nat /\ m > 1 /\ Len(z) = n + m
      /\ \A i \in 1..n : z[i] = b[i]
      /\ \A i \in 1..m : z[n + i] = q[i]
  BY Parts
<1>2. t \in Seq(Byte) /\ Len(t) = m - 1 /\ \A i \in 1..m - 1 : t[i] = q[i + 1]
  BY EmptySeq, HeadTailProperties
<1> HIDE DEF t
<1>3. /\ u \in Seq(Byte) /\ Len(u) = n + Len(t)
      /\ \A i \in 1..n : u[i] = b[i]
      /\ \A i \in 1..Len(t) : u[n + i] = t[i]
  BY <1>2, Parts
<1> HIDE DEF n, m, z, u
<1>4. \A i \in 1..Len(u) : u[i] = IF i <= n THEN z[i] ELSE z[i + 1]
  <2>1. SUFFICES ASSUME NEW i \in 1..Len(u) PROVE u[i] = IF i <= n THEN z[i] ELSE z[i + 1]
    OBVIOUS
  <2>2. CASE i <= n
    BY <1>1, <1>3, <2>1, <2>2
  <2>3. CASE ~(i <= n)
    <3>1. Len(u) = n + (m - 1)
      BY <1>2, <1>3
    <3>2. PICK j \in Nat : i = n + j /\ j >= 1 /\ j <= m - 1
      <4>1. i - n \in Nat /\ i = n + (i - n) /\ i - n >= 1 /\ i - n <= m - 1
        BY <1>1, <2>1, <2>3, <3>1
      <4> QED
        BY <4>1
    <3>3. j \in 1..m - 1 /\ j \in 1..Len(t) /\ j + 1 \in 1..m /\ i + 1 = n + (j + 1)
      BY <1>1, <1>2, <3>2
    <3>4. u[n + j] = t[j] /\ t[j] = q[j + 1] /\ q[j + 1] = z[n + (j + 1)]
      BY <1>1, <1>2, <1>3, <3>3
    <3> QED
      BY <2>3, <3>2, <3>3, <3>4
  <2> QED
    BY <2>2, <2>3
<1>5. Len(u) = Len(z) - 1 /\ n + 1 < Len(z)
  BY <1>1, <1>2, <1>3
<1>6. Without(u, z, n)
  BY <1>4, <1>5 DEF Without
<1> QED
  BY <1>3, <1>6 DEF n, m, z, u, t

(* A frame but for its check.                                              *)
LEMMA WholeBody ==
  ASSUME NEW b \in Seq(Byte), NEW q \in Seq(Byte), Len(q) = 1, NEW f \in Frames,
         b \o q = Sealed(f)
  PROVE  b = Body(f)
<1> DEFINE d == Body(f)
           w == <<get_check(Body(f))>>
<1>1. d \in Seq(Byte) /\ w \in Seq(Byte) /\ Len(w) = 1 /\ b \o q = d \o w
  BY BodyType, SealedType DEF Sealed
<1> HIDE DEF d, w
<1>2. Len(b) + 1 = Len(d) + 1 /\ Len(b) \in Nat /\ Len(d) \in Nat
  <2>1. Len(b \o q) = Len(b) + Len(q) /\ Len(d \o w) = Len(d) + Len(w)
    BY <1>1, Parts
  <2> QED
    BY <1>1, <2>1
<1>3. Len(b) = Len(d)
  BY <1>2
<1>4. \A i \in 1..Len(b) : b[i] = d[i]
  <2>1. (\A i \in 1..Len(b) : (b \o q)[i] = b[i]) /\ (\A i \in 1..Len(d) : (d \o w)[i] = d[i])
    BY <1>1, Parts
  <2> QED
    BY <1>1, <1>3, <2>1, Zenon
<1>5. b = d
  BY <1>1, <1>3, <1>4, SeqEqual
<1> QED
  BY <1>5 DEF d

(* What has no header is marked.                                           *)
LEMMA PlainIsMarked ==
  ASSUME NEW s \in Seq(Byte), NoHeader(s)
  PROVE  Marked(s, FALSE)
<1>1. SUFFICES ASSUME NEW i \in 1..Len(s), i # 1, s[i] = HEADER_1, s[i - 1] = HEADER_0
               PROVE  FALSE
  BY DEF Marked
<1>2. i - 1 \in 1..Len(s)-1 /\ (i - 1) + 1 = i
  BY <1>1
<1> QED
  BY <1>1, <1>2 DEF NoHeader

(* One byte of a frame is lost.                                            *)
LEMMA HurtLoss ==
  ASSUME FrameInv, SyncInv, PlainFrames, XorLaws, LoseByte, Sparse,
         receive_state # "DAT_INIT"
  PROVE  SyncInv' \/ Hurt'
<1>t. rest \in Seq(Byte) /\ data_buf \in Seq(Byte) /\ Len(rest) \in Nat /\ Len(data_buf) \in Nat
  BY DEF FrameInv, TypeOK
<1>1. /\ rest # <<>> /\ rest' = Tail(rest)
      /\ receive_state' = receive_state /\ data_buf' = data_buf /\ line' = line
  BY DEF LoseByte, Fault, decoderVars
<1>2. /\ rest' \in Seq(Byte) /\ Len(rest') = Len(rest) - 1 /\ rest' = SubSeq(rest, 1 + 1, Len(rest))
      /\ 1 \in 0..Len(rest) /\ \A i \in 1..Len(rest) - 1 : rest'[i] = rest[i + 1]
  BY <1>t, <1>1, TailDrops, HeadTailProperties
<1>3. CASE receive_state = "DAT_HEADER"
  <2>1. Marked(rest, TRUE)
    BY <1>3 DEF SyncInv, OutOfFrame
  <2>2. Marked(rest', rest[1] = HEADER_0)
    <3>1. Marked(SubSeq(rest, 1 + 1, Len(rest)), 1 > 0 /\ rest[1] = HEADER_0)
      BY <1>t, <1>2, <2>1, DropMarked
    <3> QED
      BY <1>2, <3>1 DEF Marked
  <2>3. rest[1] = HEADER_0 \/ (Len(rest') >= 1 => rest'[1] # HEADER_1)
    <3>1. SUFFICES ASSUME rest[1] # HEADER_0, Len(rest') >= 1 PROVE rest'[1] # HEADER_1
      OBVIOUS
    <3>2. Len(rest) > 1 /\ rest'[1] = rest[2]
      BY <1>t, <1>2, <3>1
    <3>3. ~MakesHeader
      BY DEF Sparse
    <3> QED
      BY <1>3, <3>1, <3>2, <3>3 DEF MakesHeader
  <2>4. Marked(rest', TRUE)
    <3>1. CASE rest[1] = HEADER_0
      BY <2>2, <3>1 DEF Marked
    <3>2. CASE rest[1] # HEADER_0
      <4>1. SUFFICES ASSUME NEW i \in 1..Len(rest'), rest'[i] = HEADER_1,
                            IF i = 1 THEN TRUE ELSE rest'[i - 1] = HEADER_0
                     PROVE  Follows(SubSeq(rest', i + 1, Len(rest')))
        BY DEF Marked
      <4>2. i # 1
        BY <1>2, <1>t, <2>3, <3>2, <4>1
      <4> QED
        BY <2>2, <4>1, <4>2 DEF Marked
    <3> QED
      BY <3>1, <3>2
  <2>5. Marked(rest, TRUE)'
    BY <1>1, <2>4 DEF Marked, Follows
  <2> QED
    BY <1>1, <1>3, <2>5 DEF SyncInv, OutOfFrame, InFrame, UNDEFINED
<1>4. CASE receive_state \in Reads
  <2>1. PICK f \in Frames :
           /\ Len(line) \in Nat \ {0} /\ f = line[Len(line)]
           /\ data_buf \o rest = Sealed(f)
    BY <1>4, InFrameIs DEF Reads
  <2>2. PICK g \in Lengths : /\ Len(data_buf) + Len(rest) = g + 2
                             /\ Len(data_buf) > 0 => frame_len = g
    BY <1>4, InFrameSizes DEF Reads
  <2>3. Marked(rest, FALSE)'
    <3>1. NoHeader(rest')
      BY <1>2, <1>4, RestPlain DEF Reads
    <3>2. Marked(rest', FALSE)
      BY <1>2, <3>1, PlainIsMarked
    <3> QED
      BY <1>1, <3>2 DEF Marked, Follows
  <2>4. /\ receive_state = "DAT_LEN" => Len(data_buf) = 0
        /\ receive_state = "DAT_ID" => Len(data_buf) = 1
        /\ receive_state = "DAT_DATA" => Len(data_buf) >= 2 /\ Len(data_buf) <= g
        /\ receive_state = "DAT_CHACK" => Len(data_buf) >= 2 /\ Len(data_buf) = g + 1
    <3>1. receive_state = "DAT_LEN" => Len(data_buf) = 0
      BY EmptySeq DEF FrameInv, Kept0
    <3>2. receive_state = "DAT_ID" => Len(data_buf) = 1
      BY DEF FrameInv, Kept1
    <3>3. receive_state = "DAT_DATA" => Len(data_buf) >= 2 /\ Len(data_buf) <= g
      <4>1. receive_state = "DAT_DATA" =>
              Len(data_buf) >= 2 /\ (frame_len \in Lengths => Len(data_buf) <= frame_len)
        BY DEF FrameInv, KeptN
      <4> QED
        BY <1>t, <2>2, <4>1
    <3>4. receive_state = "DAT_CHACK" => Len(data_buf) >= 2 /\ Len(data_buf) = g + 1
      <4>1. receive_state = "DAT_CHACK" => Len(data_buf) >= 2 /\ Len(data_buf) = frame_len + 1
        BY DEF FrameInv, KeptAll
      <4> QED
        BY <1>t, <2>2, <4>1
    <3> QED
      BY <3>1, <3>2, <3>3, <3>4
  <2> DEFINE n == Len(data_buf)
             m == Len(rest)
  <2>5. /\ receive_state = "DAT_CHACK" => m = 1
        /\ receive_state # "DAT_CHACK" => m > 1
        /\ receive_state # "DAT_LEN" => n # 0
        /\ receive_state = "DAT_LEN" => n = 0
    <3>1. n + m = g + 2 /\ n \in Nat /\ m \in Nat /\ (g = 2 \/ g = 3)
      BY <1>t, <2>2 DEF Lengths
    <3>2. /\ receive_state = "DAT_LEN" => n = 0
          /\ receive_state = "DAT_ID" => n = 1
          /\ receive_state = "DAT_DATA" => n >= 2 /\ n <= g
          /\ receive_state = "DAT_CHACK" => n >= 2 /\ n = g + 1
      BY <2>4
    <3> HIDE DEF n, m
    <3> QED
      BY <1>4, <3>1, <3>2 DEF Reads
  <2>6. CASE receive_state = "DAT_CHACK"
    <3>1. data_buf = Body(f)
      BY <1>t, <2>1, <2>5, <2>6, WholeBody
    <3>2. rest' = <<>>
      <4>1. Len(rest') = 0
        BY <1>2, <2>5, <2>6
      <4> QED
        BY <1>2, <4>1, EmptySeq
    <3>3. NoHeader(<<>>)
      BY DEF NoHeader
    <3>4. Len(line) \in 1..Len(line)
      BY <2>1
    <3>5. Unchecked'
      BY <1>1, <2>1, <2>6, <3>1, <3>2, <3>3, <3>4 DEF Unchecked
    <3> QED
      BY <2>3, <3>5 DEF Hurt
  <2>7. CASE receive_state # "DAT_CHACK"
    <3>1. /\ data_buf \o rest' \in Seq(Byte) /\ n \in Nat
          /\ Without(data_buf \o rest', Sealed(f), n)
      BY <1>t, <1>1, <2>1, <2>5, <2>7, TailWithout
    <3>2. /\ n = 0 => (data_buf \o rest')[1] = 1 \/ Misread(data_buf \o rest')
          /\ n # 0 => Dud(data_buf \o rest')
      <4>1. n # 0 => Sealed(f)[n + 1] \notin Heads
        <5>1. SUFFICES ASSUME n # 0 PROVE rest[1] \notin Heads
          <6>1. 1 \in 1..Len(rest) /\ (data_buf \o rest)[n + 1] = rest[1]
            <7>1. 1 \in 1..Len(rest)
              BY <1>t, <2>5, <2>7
            <7> QED
              BY <1>t, <7>1, Parts
          <6> QED
            BY <2>1, <6>1
        <5>2. receive_state \in {"DAT_ID", "DAT_DATA"}
          BY <1>4, <2>5, <2>7, <5>1 DEF Reads
        <5> QED
          BY <5>2 DEF Sparse, MadeUpFor
      <4> QED
        BY <3>1, <4>1, LostByte
    <3>3. rest' # <<>>
      <4>1. Len(rest') # 0
        BY <1>2, <1>t, <2>5, <2>7
      <4> QED
        BY <4>1, EmptySeq
    <3>4. CASE receive_state = "DAT_LEN"
      <4>1. data_buf \o rest' = rest'
        BY <1>2, <3>4, ConcatEmptySeq DEF FrameInv, Kept0
      <4>2. Overlong' \/ Early'
        BY <1>1, <1>4, <2>5, <3>2, <3>3, <3>4, <4>1 DEF Overlong, Early
      <4> QED
        BY <2>3, <4>2 DEF Hurt
    <3>5. CASE receive_state # "DAT_LEN"
      <4>1. Short'
        BY <1>1, <1>4, <2>5, <2>7, <3>2, <3>3, <3>5 DEF Short, Reads
      <4> QED
        BY <2>3, <4>1 DEF Hurt
    <3> QED
      BY <3>4, <3>5
  <2> QED
    BY <2>6, <2>7
<1> QED
  BY <1>3, <1>4 DEF SyncInv, FrameInv, TypeOK, DAT_STATE, Reads

(* What is sent begins with one of Heads.                                  *)
LEMMA SendHeads ==
  ASSUME Gateway
  PROVE  rest' # <<>> => rest'[1] \in Heads
<1>1. CASE printf
  <2>1. PICK t \in Texts : rest' = t
    BY <1>1 DEF printf, StartsOn
  <2> QED
    BY <2>1 DEF Heads
<1>2. ASSUME NEW f \in Frames
      PROVE  Encoded(f)[1] = HEADER_0 /\ (<<115, 85, 65, 86>> \o Encoded(f))[1] = 115
  <2>1. Encoded(f) \in Seq(Byte)
    BY SealedType
  <2>2. Encoded(f)[1] = HEADER_0
    <3>1. Sealed(f) \in Seq(Byte) /\ Encoded(f) = <<HEADER_0, HEADER_1>> \o Sealed(f)
      BY SealedType
    <3> DEFINE h == <<HEADER_0, HEADER_1>>
    <3>2. h \in Seq(Byte) /\ Len(h) = 2 /\ h[1] = HEADER_0
      BY DEF HEADER_0, HEADER_1, Byte
    <3> HIDE DEF h
    <3>3. (h \o Sealed(f))[1] = h[1]
      BY <3>1, <3>2, Parts
    <3> QED
      BY <3>1, <3>2, <3>3 DEF h
  <2>3. (<<115, 85, 65, 86>> \o Encoded(f))[1] = 115
    <3> DEFINE h == <<115, 85, 65, 86>>
    <3>1. h \in Seq(Byte) /\ Len(h) = 4 /\ h[1] = 115
      BY DEF Byte
    <3> HIDE DEF h
    <3>2. (h \o Encoded(f))[1] = h[1]
      BY <2>1, <3>1, Parts
    <3> QED
      BY <3>1, <3>2 DEF h
  <2> QED
    BY <2>2, <2>3
<1>3. CASE sent_cmd
  <2>1. rest' = Encoded(CmdFrame) /\ CmdFrame \in Frames
    BY <1>3 DEF sent_cmd, Sends, StartsOn, Frames
  <2> QED
    BY <1>2, <2>1 DEF Heads
<1>4. CASE sent_report
  <2>1. PICK a \in Addrs : rest' = <<115, 85, 65, 86>> \o Encoded(Report(a))
    BY <1>4 DEF sent_report, Sends, StartsOn
  <2>2. Report(a) \in Frames
    BY DEF Frames
  <2> QED
    BY <1>2, <2>1, <2>2 DEF Heads
<1> QED
  BY <1>1, <1>3, <1>4 DEF Gateway

LEMMA HurtSend ==
  ASSUME FrameInv, Hurt, PlainTexts, PlainFrames, Gateway
  PROVE  Hurt'
<1>1. rest = <<>> /\ UNCHANGED <<receive_state, data_buf>>
  BY DEF Gateway, sent_cmd, sent_report, Sends, StartsOn, printf, decoderVars
<1>2. Marked(rest, FALSE)' /\ (rest' # <<>> => rest'[1] \in Heads)
  BY SendMarked, SendHeads
<1>3. CASE Overlong
  <2>1. Overlong'
    BY <1>1, <1>3 DEF Overlong, frame_len
  <2> QED
    BY <1>2, <2>1 DEF Hurt
<1>4. CASE Short
  <2>1. Short'
    BY <1>1, <1>2, <1>4 DEF Short
  <2> QED
    BY <1>2, <2>1 DEF Hurt
<1>5. CASE Unchecked
  <2>1. receive_state = "DAT_CHACK"
    BY <1>5 DEF Unchecked
  <2>2. PICK i \in 1..Len(line) : data_buf = Body(line[i])
    BY <1>5 DEF Unchecked
  <2>3. line \in Seq(Frames) /\ Len(line) \in Nat
    BY DEF FrameInv, TypeOK
  <2>4. CASE printf
    <3>1. line' = line /\ rest' \in Texts
      BY <2>4 DEF printf, StartsOn
    <3>2. NoHeader(rest')
      BY <3>1 DEF PlainTexts
    <3>3. Unchecked'
      BY <1>1, <2>1, <2>2, <3>1, <3>2 DEF Unchecked
    <3> QED
      BY <1>2, <3>3 DEF Hurt
  <2>5. CASE sent_cmd \/ sent_report
    <3>1. PICK f \in Frames : line' = Append(line, f)
      BY <2>5 DEF sent_cmd, sent_report, Sends, StartsOn, Frames
    <3>2. Len(line') = Len(line) + 1 /\ \A j \in 1..Len(line) : line'[j] = line[j]
      BY <2>3, <3>1, AppendProperties
    <3>3. i \in 1..Len(line') /\ i < Len(line') /\ line'[i] = line[i]
      BY <2>3, <3>2
    <3>4. Unchecked'
      BY <1>1, <2>1, <2>2, <3>3 DEF Unchecked
    <3> QED
      BY <1>2, <3>4 DEF Hurt
  <2> QED
    BY <2>4, <2>5 DEF Gateway
<1> QED
  BY <1>1, <1>3, <1>4, <1>5 DEF Hurt, Early

(* A header that is on its way stays marked, and what the gateway prints   *)
(* when it starts has none.                                                *)
LEMMA HurtMarked ==
  ASSUME FrameInv, Marked(rest, FALSE), Faults \/ frame_decode, line' = line
  PROVE  Marked(rest, FALSE)'
<1>t. rest \in Seq(Byte) /\ Len(rest) \in Nat
  BY DEF FrameInv, TypeOK
<1>1. ASSUME NEW n \in 0..Len(rest), rest' = SubSeq(rest, n + 1, Len(rest))
      PROVE  Marked(rest, FALSE)'
  <2>1. PICK r : r = SubSeq(rest, n + 1, Len(rest))
    OBVIOUS
  <2>2. Marked(r, n > 0 /\ rest[n] = HEADER_0)
    BY <1>t, <2>1, DropMarked
  <2> QED
    BY <1>1, <2>1, <2>2 DEF Marked, Follows
<1>2. CASE LoseByte \/ frame_decode
  <2>1. rest # <<>> /\ rest' = Tail(rest)
    BY <1>2 DEF LoseByte, frame_decode, InitByte, HeaderByte, LenByte, IdByte, DataByte,
       CheckByte, Comes
  <2>2. 1 \in 0..Len(rest) /\ rest' = SubSeq(rest, 1 + 1, Len(rest))
    BY <1>t, <2>1, TailDrops
  <2> QED
    BY <1>1, <2>2
<1>3. CASE GatewayRestart
  <2>1. rest' = <<82, 105, 109, 101>>
    BY <1>3 DEF GatewayRestart
  <2>2. \A i \in 1..Len(rest') : rest'[i] # HEADER_1
    BY <2>1 DEF HEADER_1
  <2> QED
    BY <2>2 DEF Marked
<1>4. CASE NetRestart
  BY <1>1, <1>4 DEF NetRestart
<1> QED
  BY <1>2, <1>3, <1>4 DEF Faults

LEMMA HurtFault ==
  ASSUME FrameInv, Hurt, ~SyncInv, Faults, Sparse
  PROVE  SyncInv' \/ Hurt'
<1>1. line' = line
  BY DEF Faults, LoseByte, GatewayRestart, NetRestart, Fault
<1>2. Marked(rest, FALSE)'
  BY <1>1, HurtMarked DEF Hurt
<1>3. CASE NetRestart
  <2>1. receive_state' = "DAT_INIT"
    BY <1>3 DEF NetRestart
  <2> QED
    BY <1>2, <2>1 DEF SyncInv, OutOfFrame, InFrame, UNDEFINED, Marked
<1>4. CASE LoseByte \/ GatewayRestart
  <2>1. receive_state' = receive_state
    BY <1>4 DEF LoseByte, GatewayRestart, decoderVars
  <2>2. receive_state \notin Reads
    <3>1. SUFFICES ASSUME receive_state \in Reads PROVE FALSE
      OBVIOUS
    <3>2. Follows(data_buf \o rest) /\ rest # <<>>
      BY <1>4, <3>1 DEF Sparse, LoseByte, SecondOfFrame
    <3> QED
      BY <3>1, <3>2 DEF SyncInv, OutOfFrame, InFrame, UNDEFINED, Reads
  <2>3. receive_state = UNDEFINED
    BY <2>2 DEF Hurt, Overlong, Early, Short, Unchecked, Reads
  <2>4. Overlong'
    BY <2>1, <2>3 DEF Overlong
  <2> QED
    BY <1>2, <2>4 DEF Hurt
<1> QED
  BY <1>3, <1>4 DEF Faults

(* A fault while the decoder is in step with the gateway.                  *)
LEMMA SyncLoss ==
  ASSUME FrameInv, SyncInv, PlainTexts, PlainFrames, XorLaws, Faults, Sparse
  PROVE  SyncInv' \/ Hurt'
<1>1. CASE Undamaged
  BY <1>1, SyncFault
<1>2. CASE LoseByte /\ receive_state # "DAT_INIT"
  BY <1>2, HurtLoss
<1>3. CASE GatewayRestart /\ receive_state # "DAT_INIT"
  <2>1. receive_state' = receive_state /\ rest' = <<82, 105, 109, 101>>
    BY <1>3 DEF GatewayRestart, decoderVars
  <2>2. receive_state \in {"DAT_INIT", "DAT_HEADER"}
    BY <1>3 DEF Sparse, SyncInv, FrameInv, TypeOK, DAT_STATE, Reads
  <2>3. \A i \in 1..Len(rest') : rest'[i] # HEADER_1
    BY <2>1 DEF HEADER_1
  <2>4. Marked(rest, receive_state = "DAT_HEADER")'
    BY <2>3 DEF Marked
  <2> QED
    BY <2>1, <2>2, <2>4 DEF SyncInv, OutOfFrame, InFrame, UNDEFINED
<1> QED
  BY <1>1, <1>2, <1>3 DEF Undamaged

(* The decoder takes a byte of a frame.  What it has and what is still to  *)
(* come are g bytes behind the length, and the check or not.               *)
LEMMA ReadsOn ==
  ASSUME FrameInv, frame_decode, ~CheckByte, receive_state \in Reads, NEW g \in Lengths,
         NEW e \in {0, 1}, Len(data_buf \o rest) = g + 1 + e, (data_buf \o rest)[1] = g
  PROVE  /\ data_buf' \o rest' = data_buf \o rest
         /\ receive_state' \in {"DAT_ID", "DAT_DATA", "DAT_CHACK"}
         /\ receive_state' # "DAT_CHACK" => rest' # <<>>
         /\ receive_state' = "DAT_CHACK" => Len(rest') = e
<1>t. rest \in Seq(Byte) /\ data_buf \in Seq(Byte) /\ Len(rest) \in Nat /\ Len(data_buf) \in Nat
  BY DEF FrameInv, TypeOK
<1>r. rest # <<>> /\ rest' = Tail(rest)
  BY DEF frame_decode, InitByte, HeaderByte, LenByte, IdByte, DataByte, CheckByte, Comes
<1>1. Len(data_buf) + Len(rest) = g + 1 + e /\ (Len(data_buf) > 0 => frame_len = g)
  <2>1. /\ Len(data_buf \o rest) = Len(data_buf) + Len(rest)
        /\ \A i \in 1..Len(data_buf) : (data_buf \o rest)[i] = data_buf[i]
    BY <1>t, Parts
  <2>2. Len(data_buf) > 0 => 1 \in 1..Len(data_buf)
    BY <1>t
  <2> QED
    BY <2>1, <2>2 DEF frame_len
<1>2. PICK next \in {"DAT_ID", "DAT_DATA", "DAT_CHACK"} : Kept(next) /\ Len(data_buf) <= 3
  <2>1. CASE LenByte
    <3>1. Kept("DAT_ID") /\ Len(data_buf) = 0
      BY <2>1, EmptySeq DEF LenByte, Comes, FrameInv, Kept0
    <3> QED
      BY <3>1
  <2>2. CASE IdByte
    <3>1. Kept("DAT_DATA") /\ Len(data_buf) = 1
      BY <2>2 DEF IdByte, Comes, FrameInv, Kept1
    <3> QED
      BY <3>1
  <2>3. CASE DataByte
    <3>1. /\ Kept(IF Len(data_buf) = frame_len THEN "DAT_CHACK" ELSE "DAT_DATA")
          /\ Len(data_buf) >= 2 /\ (frame_len \in Lengths => Len(data_buf) <= frame_len)
      BY <2>3 DEF DataByte, Comes, FrameInv, KeptN
    <3>2. Len(data_buf) <= 3
      BY <1>t, <1>1, <3>1 DEF Lengths
    <3> QED
      BY <3>1, <3>2
  <2> QED
    BY <2>1, <2>2, <2>3 DEF frame_decode, InitByte, HeaderByte, Comes, Reads
<1>3. receive_state' = next /\ data_buf' = Append(data_buf, Head(rest))
  <2>1. Len(data_buf) < RX_BUF_LEN
    BY <1>t, <1>2, SizeAssumption
  <2> QED
    BY <1>2, <2>1 DEF Kept, ch
<1>4. data_buf' \o rest' = data_buf \o rest
  BY <1>t, <1>r, <1>3, Moves
<1>5. FrameInv'
  BY DecoderStep
<1>6. /\ rest' \in Seq(Byte) /\ data_buf' \in Seq(Byte) /\ Len(rest') \in Nat /\ Len(data_buf') \in Nat
      /\ Len(rest') = Len(rest) - 1 /\ Len(data_buf') = Len(data_buf) + 1
  <2>1. rest[1] \in Byte /\ Head(rest) = rest[1] /\ Len(Tail(rest)) = Len(rest) - 1
    BY <1>t, <1>r, TailDrops, EmptySeq
  <2>2. Len(Append(data_buf, Head(rest))) = Len(data_buf) + 1
    BY <1>t, <2>1, AppendProperties
  <2> QED
    BY <1>r, <1>3, <1>5, <2>1, <2>2 DEF FrameInv, TypeOK
<1>7. data_buf'[1] = g
  <2>1. \A i \in 1..Len(data_buf') : (data_buf' \o rest')[i] = data_buf'[i]
    BY <1>6, Parts
  <2>2. 1 \in 1..Len(data_buf')
    BY <1>t, <1>6
  <2> QED
    BY <1>4, <2>1, <2>2
<1> DEFINE n == Len(data_buf')
           m == Len(rest')
<1>8. n + m = g + 1 + e /\ n \in Nat /\ m \in Nat /\ g \in {2, 3} /\ e \in {0, 1}
  BY <1>t, <1>1, <1>6 DEF Lengths
<1>9. /\ next = "DAT_ID" => n = 1
      /\ next = "DAT_DATA" => n <= g
      /\ next = "DAT_CHACK" => n = g + 1
  <2>1. next = "DAT_ID" => n = 1
    BY <1>3, <1>5 DEF FrameInv, Kept1
  <2>2. next = "DAT_DATA" => n <= g
    BY <1>3, <1>5, <1>7 DEF FrameInv, KeptN, frame_len
  <2>3. next = "DAT_CHACK" => n = g + 1
    BY <1>3, <1>5, <1>7 DEF FrameInv, KeptAll, frame_len
  <2> QED
    BY <2>1, <2>2, <2>3
<1>10. (next # "DAT_CHACK" => m # 0) /\ (next = "DAT_CHACK" => m = e)
  <2> HIDE DEF n, m
  <2> QED
    BY <1>8, <1>9
<1> QED
  BY <1>3, <1>4, <1>10, EmptySeq

(* The check of a damaged frame fails, or all but the check was sent.      *)
LEMMA HurtCheck ==
  ASSUME FrameInv, Hurt, CheckByte
  PROVE  Marked(rest, FALSE)' /\ (UNCHANGED <<got, line>> \/ Sent # {})
<1>t. /\ rest \in Seq(Byte) /\ data_buf \in Seq(Byte) /\ Len(rest) \in Nat /\ Len(data_buf) \in Nat
      /\ line \in Seq(Frames) /\ Len(line) \in Nat
  BY DEF FrameInv, TypeOK
<1>1. receive_state = "DAT_CHACK" /\ rest # <<>> /\ rest' = Tail(rest) /\ frame_decode
  BY DEF CheckByte, Comes, frame_decode
<1>2. Len(data_buf) >= 2 /\ Len(data_buf) = frame_len + 1
  BY <1>1 DEF FrameInv, KeptAll
<1>3. ch = rest[1]
  BY <1>t, <1>1, TailDrops DEF ch
<1>4. ASSUME ch = get_check(data_buf) => data_buf[2] \notin {CMD_FRAME, REPORT_FRAME}
      PROVE  Marked(rest, FALSE)' /\ UNCHANGED <<got, line>>
  <2>1. UNCHANGED <<got, line>>
    BY <1>4 DEF CheckByte
  <2> QED
    BY <1>1, <2>1, HurtMarked DEF Hurt
<1>5. CASE Short
  <2>1. Dud(data_buf) /\ rest[1] \in Heads
    BY <1>1, <1>5 DEF Short
  <2> QED
    BY <1>3, <1>4, <2>1 DEF Dud
<1>6. CASE Early
  <2>1. PICK u \in Seq(Byte) : u = data_buf \o rest /\ Misread(u)
    BY <1>6 DEF Early, Misread
  <2>2. /\ Len(u) = Len(data_buf) + Len(rest)
        /\ \A i \in 1..Len(data_buf) : u[i] = data_buf[i]
        /\ \A i \in 1..Len(rest) : u[Len(data_buf) + i] = rest[i]
    BY <1>t, <2>1, Parts
  <2>3. Len(data_buf) = 3 /\ data_buf[1] = 2
    <3>1. 1 \in 1..Len(data_buf)
      BY <1>t, <1>2
    <3>2. data_buf[1] = 2
      BY <2>1, <2>2, <3>1 DEF Misread
    <3> QED
      BY <1>2, <3>2 DEF frame_len
  <2>4. Len(rest) = 1
    <3>1. Len(u) = 4
      BY <2>1 DEF Misread
    <3> DEFINE m == Len(rest)
    <3>2. 4 = 3 + m /\ m \in Nat
      BY <1>t, <2>2, <2>3, <3>1
    <3> HIDE DEF m
    <3>3. m = 1
      BY <3>2
    <3> QED
      BY <3>3 DEF m
  <2>5. u[2] = data_buf[2] /\ u[3] = data_buf[3] /\ u[4] = rest[1]
    BY <2>2, <2>3, <2>4
  <2>6. get_check(data_buf) = ByteXor(ByteXor(2, data_buf[2]), data_buf[3])
    <3>1. data_buf[1] \in Lengths /\ Len(data_buf) >= data_buf[1] + 1
      BY <2>3 DEF Lengths
    <3> QED
      BY <1>t, <2>3, <3>1, CheckOf
  <2>7. ch # get_check(data_buf)
    BY <1>3, <2>1, <2>5, <2>6 DEF Misread
  <2> QED
    BY <1>4, <2>7
<1>7. CASE Unchecked
  <2>1. PICK i \in 1..Len(line) :
          data_buf = Body(line[i]) /\ (i < Len(line) \/ NoHeader(rest))
    BY <1>7 DEF Unchecked
  <2>2. i \in Sent
    <3>1. PICK f \in Frames : f = line[i]
      BY <1>t, <2>1
    <3>2. /\ Body(f)[2] = f.id /\ SubSeq(Body(f), 3, Len(Body(f))) = f.data
          /\ f = [id |-> f.id, data |-> f.data]
      BY BodyType, FrameLengths
    <3>3. Read = f
      BY <2>1, <3>1, <3>2 DEF Read
    <3> QED
      BY <3>1, <3>3 DEF Sent
  <2>3. \/ line' = line
        \/ \E j \in Sent : j <= i /\ line' = SubSeq(line, j + 1, Len(line))
    <3>1. \/ UNCHANGED <<got, line>>
          \/ got' = Read /\ line' = line
          \/ \E j \in Sent : /\ \A l \in Sent : j <= l
                             /\ line' = SubSeq(line, j + 1, Len(line))
      BY CheckIs
    <3> QED
      BY <2>2, <3>1
  <2>4. CASE line' = line
    BY <1>1, <2>2, <2>4, HurtMarked DEF Hurt
  <2>5. CASE NoHeader(rest)
    <3>1. rest' \in Seq(Byte) /\ Len(rest') = Len(rest) - 1 /\ \A j \in 1..Len(rest) - 1 : rest'[j] = rest[j + 1]
      BY <1>t, <1>1, TailDrops, HeadTailProperties
    <3>2. NoHeader(rest')
      <4>1. SUFFICES ASSUME NEW j \in 1..Len(rest') - 1, rest'[j] = HEADER_0, rest'[j + 1] = HEADER_1
                     PROVE  FALSE
        BY DEF NoHeader
      <4>2. /\ j \in 1..Len(rest) - 1 /\ j + 1 \in 1..Len(rest) - 1
        BY <1>t, <3>1
      <4>3. rest[j + 1] = HEADER_0 /\ rest[(j + 1) + 1] = HEADER_1
        BY <3>1, <4>1, <4>2
      <4> QED
        BY <2>5, <4>2, <4>3 DEF NoHeader
    <3>3. SUFFICES ASSUME NEW j \in 1..Len(rest'), j # 1, rest'[j] = HEADER_1, rest'[j - 1] = HEADER_0
                   PROVE  FALSE
      BY <2>2 DEF Marked
    <3>4. j - 1 \in 1..Len(rest')-1 /\ (j - 1) + 1 = j
      BY <3>1, <3>3
    <3> QED
      BY <3>2, <3>3, <3>4 DEF NoHeader
  <2>6. ASSUME i < Len(line), NEW j \in Sent, j <= i, line' = SubSeq(line, j + 1, Len(line))
        PROVE  Marked(rest, FALSE)'
    <3>1. j \in 0..Len(line) /\ j < Len(line) /\ j \in Nat
      BY <1>t, <2>6 DEF Sent
    <3>2. /\ line' \in Seq(Frames) /\ Len(line') = Len(line) - j
          /\ \A l \in 1..Len(line) - j : line'[l] = line[j + l]
      BY <1>t, <2>6, <3>1, RestType
    <3>3. line' # <<>> /\ line'[Len(line')] = line[Len(line)]
      <4>1. Len(line) - j \in 1..Len(line) - j /\ j + (Len(line) - j) = Len(line) /\ Len(line) - j # 0
        BY <1>t, <3>1
      <4> QED
        BY <3>2, <4>1, EmptySeq
    <3>4. line # <<>>
      BY <1>t, <3>1, EmptySeq
    <3>5. Marked(SubSeq(rest, 1 + 1, Len(rest)), 1 > 0 /\ rest[1] = HEADER_0)
      BY <1>t, <1>1, TailDrops, DropMarked DEF Hurt
    <3>6. rest' = SubSeq(rest, 1 + 1, Len(rest))
      BY <1>t, <1>1, TailDrops
    <3>7. Marked(rest', FALSE)
      BY <3>5, <3>6 DEF Marked
    <3> QED
      BY <3>3, <3>4, <3>7 DEF Marked, Follows
  <2> QED
    BY <2>1, <2>2, <2>3, <2>4, <2>5, <2>6
<1> QED
  BY <1>1, <1>5, <1>6, <1>7 DEF Hurt, Overlong, UNDEFINED

LEMMA HurtDecode ==
  ASSUME FrameInv, Hurt, frame_decode
  PROVE  SyncInv' \/ Hurt'
<1>t. rest \in Seq(Byte) /\ data_buf \in Seq(Byte) /\ Len(rest) \in Nat /\ Len(data_buf) \in Nat
  BY DEF FrameInv, TypeOK
<1>r. rest # <<>> /\ rest' = Tail(rest) /\ receive_state # UNDEFINED
  BY DEF frame_decode, InitByte, HeaderByte, LenByte, IdByte, DataByte, CheckByte, Comes, UNDEFINED
<1>1. CASE CheckByte
  <2>1. receive_state' = "DAT_INIT"
    BY <1>1 DEF CheckByte
  <2>2. Marked(rest, FALSE)'
    BY <1>1, HurtCheck
  <2> QED
    BY <2>1, <2>2 DEF SyncInv, OutOfFrame, InFrame, UNDEFINED, Marked
<1>2. CASE ~CheckByte
  <2>s. receive_state \in {"DAT_LEN", "DAT_ID", "DAT_DATA"} /\ line' = line
    <3>1. receive_state \in Reads
      BY <1>r DEF Hurt, Overlong, Early, Short, Unchecked, Reads
    <3> QED
      BY <1>2, <3>1 DEF frame_decode, InitByte, HeaderByte, LenByte, IdByte, DataByte, Comes,
         Kept, Reads
  <2>m. Marked(rest, FALSE)'
    BY <2>s, HurtMarked DEF Hurt
  <2>1. CASE Overlong
    <3>1. /\ Append(data_buf, ch) \in Seq(Byte) /\ Len(Append(data_buf, ch)) = Len(data_buf) + 1
          /\ Len(data_buf) > 0 => Append(data_buf, ch)[1] = data_buf[1]
          /\ Len(data_buf) = 0 => Append(data_buf, ch)[1] = ch
          /\ ch = rest[1]
      <4>1. ch = rest[1] /\ ch \in Byte
        BY <1>t, <1>r, TailDrops, EmptySeq DEF ch
      <4> QED
        BY <1>t, <4>1, AppendProperties
    <3>2. CASE LenByte
      <4>1. Len(data_buf) = 0 /\ receive_state = "DAT_LEN"
        BY <3>2, EmptySeq DEF LenByte, Comes, FrameInv, Kept0
      <4>2. rest[1] = 1
        BY <1>r, <2>1, <4>1 DEF Overlong
      <4>3. receive_state' = "DAT_ID" /\ data_buf' = Append(data_buf, ch)
        BY <3>2, <4>1, SizeAssumption DEF LenByte, Kept
      <4>4. frame_len' = 1
        BY <3>1, <4>1, <4>2, <4>3 DEF frame_len
      <4> QED
        BY <2>m, <4>3, <4>4 DEF Hurt, Overlong
    <3>3. CASE IdByte
      <4>1. Len(data_buf) = 1 /\ receive_state = "DAT_ID"
        BY <3>3 DEF IdByte, Comes, FrameInv, Kept1
      <4>2. frame_len = 1
        BY <1>r, <2>1, <4>1 DEF Overlong
      <4>3. receive_state' = "DAT_DATA" /\ data_buf' = Append(data_buf, ch)
        BY <3>3, <4>1, SizeAssumption DEF IdByte, Kept
      <4>4. frame_len' = 1
        BY <3>1, <4>1, <4>2, <4>3 DEF frame_len
      <4> QED
        BY <2>m, <4>3, <4>4 DEF Hurt, Overlong
    <3>4. CASE DataByte
      <4>1. Len(data_buf) >= 2 /\ receive_state = "DAT_DATA"
        BY <3>4 DEF DataByte, Comes, FrameInv, KeptN
      <4>2. frame_len = 1 /\ Len(data_buf) # frame_len
        BY <1>r, <1>t, <2>1, <4>1 DEF Overlong
      <4>3. receive_state' \in {"DAT_DATA", UNDEFINED} /\ data_buf' = Append(data_buf, ch)
        BY <3>4, <4>2 DEF DataByte, Kept
      <4>4. frame_len' = 1
        BY <1>t, <3>1, <4>1, <4>2, <4>3 DEF frame_len
      <4> QED
        BY <2>m, <4>3, <4>4 DEF Hurt, Overlong
    <3> QED
      BY <1>2, <2>s, <3>2, <3>3, <3>4 DEF frame_decode, InitByte, HeaderByte, Comes
  <2>2. CASE Short
    <3>1. PICK w \in Seq(Byte) : w = data_buf \o rest /\ Dud(w)
      BY <2>2, <2>s DEF Short, Dud
    <3>2. PICK g \in Lengths : g = w[1] /\ Len(w) = g + 1
      BY <3>1 DEF Dud
    <3>3. Len(w) = g + 1 + 0 /\ 0 \in {0, 1} /\ receive_state \in Reads
      BY <2>s, <3>2 DEF Lengths, Reads
    <3>4. /\ data_buf' \o rest' = w
          /\ receive_state' \in {"DAT_ID", "DAT_DATA", "DAT_CHACK"}
          /\ receive_state' # "DAT_CHACK" => rest' # <<>>
          /\ receive_state' = "DAT_CHACK" => Len(rest') = 0
      BY <1>2, <3>1, <3>2, <3>3, ReadsOn
    <3>5. CASE receive_state' = "DAT_CHACK"
      <4>1. rest' = <<>> /\ data_buf' \in Seq(Byte)
        <5>1. FrameInv'
          BY DecoderStep
        <5>2. rest' \in Seq(Byte) /\ data_buf' \in Seq(Byte)
          BY <5>1 DEF FrameInv, TypeOK
        <5> QED
          BY <3>4, <3>5, <5>2, EmptySeq
      <4>2. data_buf' = w
        BY <3>4, <4>1, ConcatEmptySeq
      <4>3. Short'
        BY <3>1, <3>5, <4>1, <4>2 DEF Short, Dud
      <4> QED
        BY <2>m, <4>3 DEF Hurt
    <3>6. CASE receive_state' # "DAT_CHACK"
      <4>1. Short'
        BY <3>1, <3>4, <3>6 DEF Short, Dud
      <4> QED
        BY <2>m, <4>1 DEF Hurt
    <3> QED
      BY <3>5, <3>6
  <2>3. CASE Early
    <3>1. PICK u \in Seq(Byte) : u = data_buf \o rest /\ Misread(u)
      BY <2>3 DEF Early, Misread
    <3>2. 2 \in Lengths /\ 1 \in {0, 1} /\ Len(u) = 2 + 1 + 1 /\ u[1] = 2 /\ receive_state \in Reads
      BY <2>s, <3>1 DEF Misread, Lengths, Reads
    <3>3. /\ data_buf' \o rest' = u
          /\ receive_state' \in {"DAT_ID", "DAT_DATA", "DAT_CHACK"}
          /\ receive_state' # "DAT_CHACK" => rest' # <<>>
          /\ receive_state' = "DAT_CHACK" => Len(rest') = 1
      BY <1>2, <3>1, <3>2, ReadsOn
    <3>4. rest' # <<>>
      <4>1. Len(<<>>) # 1
        OBVIOUS
      <4> QED
        BY <3>3, <4>1
    <3>5. Early'
      BY <3>1, <3>3, <3>4 DEF Early, Misread, Reads
    <3> QED
      BY <2>m, <3>5 DEF Hurt
  <2> QED
    BY <2>1, <2>2, <2>3, <2>s DEF Hurt, Unchecked
<1> QED
  BY <1>1, <1>2

LEMMA HurtStep ==
  ASSUME FrameInv, SyncInv \/ Hurt, PlainTexts, PlainFrames, XorLaws,
         [Next /\ Sparse]_vars
  PROVE  SyncInv' \/ Hurt'
<1>1. CASE UNCHANGED vars
  BY <1>1 DEF vars, decoderVars, SyncInv, OutOfFrame, InFrame, Marked, Follows, Hurt, Overlong,
     Early, Short, Unchecked, Dud, Misread, NoHeader, frame_len
<1>2. CASE SyncInv /\ Next /\ Sparse
  BY <1>2, SyncSend, SyncLoss, SyncDecode DEF Next
<1>3. CASE Hurt /\ ~SyncInv /\ Next /\ Sparse
  BY <1>3, HurtSend, HurtFault, HurtDecode DEF Next
<1> QED
  BY <1>1, <1>2, <1>3

(* The exception ends where the gateway sends something and the decoder is *)
(* looking for a header: that is no frame it reads.                        *)
LEMMA ClearAgain ==
  ASSUME FrameInv, PlainTexts, PlainFrames, blurred, ~blurred', [Next]_vars
  PROVE  SyncInv' /\ ~CheckByte
<1>1. ~UNCHANGED blurred
  OBVIOUS
<1>2. ~UNCHANGED vars /\ ~frame_decode
  BY <1>1 DEF vars, historyVars, frame_decode, InitByte, HeaderByte, LenByte, IdByte, DataByte,
     Kept, CheckByte
<1>3. ~Faults
  <2>1. ASSUME NEW misleads, blurred' = (blurred \/ misleads) PROVE FALSE
    BY <2>1
  <2> QED
    BY <2>1 DEF Faults, LoseByte, GatewayRestart, NetRestart, Fault
<1>4. Gateway
  BY <1>2, <1>3 DEF Next
<1>5. rest = <<>> /\ UNCHANGED receive_state /\ receive_state = "DAT_INIT"
  <2>1. /\ rest = <<>> /\ UNCHANGED receive_state
        /\ blurred' = (blurred /\ receive_state # "DAT_INIT")
    BY <1>4 DEF Gateway, sent_cmd, sent_report, Sends, StartsOn, printf, decoderVars
  <2> QED
    BY <2>1
<1>6. SyncInv'
  BY <1>4, <1>5, SendMarked DEF SyncInv, OutOfFrame, InFrame, UNDEFINED
<1> QED
  BY <1>2, <1>6 DEF frame_decode

(* network_control is told only what the gateway sent, in order and each   *)
(* frame at most once, however many bytes are lost and whatever the        *)
(* addresses are, where the check is an exclusive or: it finds a frame     *)
(* that has lost a byte, but for the losses and restarts that blur the     *)
(* line, and until the decoder looks for a header again between two things *)
(* that are sent.                                                          *)
THEOREM LineKept ==
  ASSUME PlainTexts, PlainFrames, XorLaws
  PROVE  Spec => KeepsLine
<1> DEFINE J == blurred \/ SyncInv \/ Hurt
<1>1. Init => Line!Init /\ J
  BY SyncInit DEF Init, Line!Init
<1>2. FrameInv /\ J /\ [Next]_vars => J'
  <2>1. SUFFICES ASSUME FrameInv, J, [Next]_vars, ~blurred' PROVE SyncInv' \/ Hurt'
    OBVIOUS
  <2>2. CASE blurred
    BY <2>1, <2>2, ClearAgain
  <2>3. CASE SyncInv \/ Hurt
    <3>1. [Next /\ Sparse]_vars
      BY <2>1, SparseFaults
    <3> QED
      BY <2>1, <2>3, <3>1, HurtStep
  <2> QED
    BY <2>1, <2>2, <2>3
<1>3. FrameInv /\ J /\ [Next]_vars
        => [blurred' \/ Line!Send \/ Line!Deliver \/ Line!Lose \/ Line!Forget]_<<line, got>>
  <2>1. SUFFICES ASSUME FrameInv, J, [Next]_vars, ~blurred'
                 PROVE  [Line!Send \/ Line!Deliver \/ Line!Lose \/ Line!Forget]_<<line, got>>
    OBVIOUS
  <2>2. CASE blurred
    BY <2>1, <2>2, ClearAgain, LineStep
  <2>3. CASE SyncInv \/ Hurt
    BY <2>1, <2>3, LineStep, ReadIsSent, HurtCheck
  <2> QED
    BY <2>1, <2>2, <2>3
<1> HIDE DEF J
<1> QED
  BY <1>1, <1>2, <1>3, Invariance, PTL DEF Spec, KeepsLine
=============================================================================
