----------------------------- MODULE LineProofs ------------------------------
(***************************************************************************)
(* Proofs about SerialLine, for every size of the buffers and of the event *)
(* queue, any pace that leaves the DMA's buffer one place, and any lines.  *)
(*                                                                         *)
(* The invariant follows a byte from the UART on: the unread bytes of the  *)
(* DMA's buffer are the last that came (Stream); those in the ring buffer  *)
(* follow from g, the last one taken out of it, with gaps only up to the   *)
(* END of a line (Chained); the line buffer holds the line of g (Gathered);*)
(* and while a line is posted the process that could overwrite it waits    *)
(* for a CONTINUE that is behind the line in the queue (Waits, Queue).     *)
(***************************************************************************)
EXTENDS SerialLine, SequenceTheorems, WellFoundedInduction, TLAPS

-----------------------------------------------------------------------------
(* The DMA's buffer, without the modulus.                                  *)

(* How far b is behind a, where both count down and start again.           *)
Dist(a, b) == IF a >= b THEN a - b ELSE a - b + RXBUFSIZE

(* The bytes that the callback has not read: how many, and the i-th from 0. *)
U          == Dist(last_size, DMA0SZ)
Spot(a, i) == IF a > i THEN RXBUFSIZE - a + i ELSE i - a
At(i)      == rxbuf[Spot(last_size, i)]

(* Distances are what the code computes with a modulus.                    *)
LEMMA DistIsUnread ==
  ASSUME NEW a \in 1..RXBUFSIZE, NEW b \in 1..RXBUFSIZE
  PROVE  Dist(a, b) \in 0..RXBUFSIZE-1 /\ (a - b) % RXBUFSIZE = Dist(a, b)
<1>0. RXBUFSIZE \in Nat \ {0}
  BY SizesAssumption
<1>1. CASE a >= b
  <2>1. a - b \in 0..RXBUFSIZE-1
    BY <1>0, <1>1
  <2> QED
    BY <1>0, <1>1, <2>1 DEF Dist
<1>2. CASE ~(a >= b)
  <2>1. a - b + RXBUFSIZE \in 0..RXBUFSIZE-1
    BY <1>0, <1>2
  <2> QED
    BY <1>0, <1>2, <2>1 DEF Dist
<1> QED
  BY <1>1, <1>2

(* What a step of either index does to the distance.                       *)
LEMMA DistDown ==
  ASSUME NEW a \in 1..RXBUFSIZE, NEW b \in 1..RXBUFSIZE
  PROVE  /\ Down(a) \in 1..RXBUFSIZE
         /\ Dist(a, b) > 0 => Dist(Down(a), b) = Dist(a, b) - 1
         /\ Dist(a, b) + 1 < RXBUFSIZE => Dist(a, Down(b)) = Dist(a, b) + 1
         /\ Dist(a, b) = 0 <=> a = b
BY SizesAssumption DEF Dist, Down

(* Where the unread bytes are.                                             *)
LEMMA Spots ==
  ASSUME NEW a \in 1..RXBUFSIZE, NEW b \in 1..RXBUFSIZE
  PROVE  /\ \A i \in 0..RXBUFSIZE-1 : Spot(a, i) \in 0..RXBUFSIZE-1
         /\ \A i, j \in 0..RXBUFSIZE-1 : Spot(a, i) = Spot(a, j) => i = j
         /\ \A i \in 0..RXBUFSIZE-2 : Spot(Down(a), i) = Spot(a, i + 1)
         /\ Spot(a, Dist(a, b)) = RXBUFSIZE - b
         /\ Spot(a, 0) = RXBUFSIZE - a
BY SizesAssumption DEF Spot, Dist, Down

-----------------------------------------------------------------------------
(* The queue of events: which kinds are in it, and in which order.         *)
In(q, e)        == \E i \in 1..Len(q) : q[i].ev = e
Unique(q, e)    == \A i, j \in 1..Len(q) : q[i].ev = e /\ q[j].ev = e => i = j
Before(q, e, f) == \A i, j \in 1..Len(q) : q[i].ev = e /\ q[j].ev = f => i < j

(* What taking the first event leaves.                                     *)
LEMMA AfterTail ==
  ASSUME NEW q \in Seq(Events), q # <<>>
  PROVE  /\ Tail(q) \in Seq(Events) /\ Len(Tail(q)) = Len(q) - 1
         /\ \A i \in 1..Len(Tail(q)) : i + 1 \in 1..Len(q) /\ Tail(q)[i] = q[i + 1]
         /\ \A i \in 2..Len(q) : i - 1 \in 1..Len(Tail(q)) /\ Tail(q)[i - 1] = q[i]
         /\ Head(q) = q[1] /\ Len(q) \in Nat \ {0}
<1>1. Tail(q) \in Seq(Events) /\ Len(Tail(q)) = Len(q) - 1 /\ Head(q) = q[1]
  BY HeadTailProperties
<1>2. Len(q) \in Nat \ {0}
  BY EmptySeq
<1>3. \A i \in 1..Len(q) - 1 : Tail(q)[i] = q[i + 1]
  BY <1>2
<1>4. \A i \in 2..Len(q) : i - 1 \in 1..Len(q) - 1 /\ q[(i - 1) + 1] = q[i]
  BY <1>2
<1> QED
  BY <1>1, <1>2, <1>3, <1>4

LEMMA TailKeeps ==
  ASSUME NEW q \in Seq(Events), q # <<>>, NEW e, NEW f
  PROVE  /\ Unique(q, e) => Unique(Tail(q), e)
         /\ Before(q, e, f) => Before(Tail(q), e, f)
         /\ Head(q).ev # e => (In(Tail(q), e) <=> In(q, e))
         /\ Unique(q, e) /\ Head(q).ev = e => ~In(Tail(q), e)
         /\ Before(q, e, f) /\ Head(q).ev = f => ~In(q, e)
         /\ In(Tail(q), e) => In(q, e)
<1> DEFINE t == Tail(q)
<1>1. /\ \A i \in 1..Len(t) : i + 1 \in 1..Len(q) /\ t[i] = q[i + 1]
      /\ \A i \in 2..Len(q) : i - 1 \in 1..Len(t) /\ t[i - 1] = q[i]
      /\ Head(q) = q[1] /\ Len(q) \in Nat \ {0} /\ Len(t) = Len(q) - 1
  BY AfterTail
<1> HIDE DEF t
<1>2. Unique(q, e) => Unique(t, e)
  BY <1>1 DEF Unique
<1>3. Before(q, e, f) => Before(t, e, f)
  BY <1>1 DEF Before
<1>4. In(t, e) => In(q, e)
  BY <1>1 DEF In
<1>5. Head(q).ev # e /\ In(q, e) => In(t, e)
  BY <1>1 DEF In
<1>6. Unique(q, e) /\ Head(q).ev = e => ~In(t, e)
  BY <1>1 DEF In, Unique
<1>7. Before(q, e, f) /\ Head(q).ev = f => ~In(q, e)
  BY <1>1 DEF In, Before
<1> QED
  BY <1>2, <1>3, <1>4, <1>5, <1>6, <1>7 DEF t

(* What posting an event adds.                                             *)
LEMMA AfterAppend ==
  ASSUME NEW q \in Seq(Events), NEW x \in Events, NEW e, NEW f
  PROVE  /\ Append(q, x) \in Seq(Events) /\ Len(Append(q, x)) = Len(q) + 1
         /\ In(Append(q, x), e) <=> In(q, e) \/ x.ev = e
         /\ Unique(q, e) /\ (x.ev # e \/ ~In(q, e)) => Unique(Append(q, x), e)
         /\ Before(q, e, f) /\ e # f /\ (x.ev # e \/ ~In(q, f)) => Before(Append(q, x), e, f)
<1> DEFINE p == Append(q, x)
           n == Len(q)
<1>1. /\ p \in Seq(Events) /\ Len(p) = n + 1 /\ n \in Nat
      /\ \A i \in 1..n : p[i] = q[i]
      /\ p[n + 1] = x
  BY AppendProperties
<1> HIDE DEF p
<1>2. \A i \in 1..Len(p) : i = n + 1 \/ i \in 1..n
  BY <1>1
<1>3. In(p, e) <=> In(q, e) \/ x.ev = e
  BY <1>1, <1>2 DEF In
<1>4. Unique(q, e) /\ (x.ev # e \/ ~In(q, e)) => Unique(p, e)
  BY <1>1, <1>2 DEF In, Unique
<1>5. Before(q, e, f) /\ e # f /\ (x.ev # e \/ ~In(q, f)) => Before(p, e, f)
  BY <1>1, <1>2 DEF In, Before
<1> QED
  BY <1>1, <1>3, <1>4, <1>5 DEF p

(* What GetEnd adds, by the room in the queue.                             *)
LEMMA PostedIs ==
  ASSUME NEW q \in Seq(Events), q = events, NEW x \in Events, NEW y \in Events,
         NEW free, free = PROCESS_CONF_NUMEVENTS - Len(q), free \in Nat
  PROVE  Posted(<<x, y>>) = IF free = 0 THEN q
                            ELSE IF free = 1 THEN Append(q, x)
                            ELSE Append(Append(q, x), y)
<1> DEFINE s == <<x, y>>
           m == IF free < 2 THEN free ELSE 2
           p == SubSeq(s, 1, m)
<1>0. s \in Seq(Events) /\ Len(s) = 2 /\ s[1] = x /\ s[2] = y
  OBVIOUS
<1>1. Posted(s) = q \o p
  BY DEF Posted
<1>2. p \in Seq(Events) /\ Len(p) = m /\ \A i \in 1..m : p[i] = s[i]
  <2>1. m \in 0..2 /\ Len(s) = 2 /\ \A i \in 1..2 : s[i] \in Events
    BY <1>0
  <2> HIDE DEF s
  <2> QED
    BY <1>0, <2>1, SubSeqProperties
<1>goal. SUFFICES q \o p = IF free = 0 THEN q ELSE IF free = 1 THEN Append(q, x)
                                     ELSE Append(Append(q, x), y)
  BY <1>1
<1> HIDE DEF s, p
<1>3. CASE free = 0
  <2>1. p = <<>>
    BY <1>2, <1>3, EmptySeq
  <2> QED
    BY <1>3, <2>1, ConcatEmptySeq
<1>4. CASE free = 1
  <2>1. Len(p) = 1 /\ p[1] = x
    BY <1>0, <1>2, <1>4
  <2>2. p = <<x>>
    BY <1>2, <2>1
  <2> QED
    BY <1>4, <2>2, AppendIsConcat
<1>5. CASE free \notin {0, 1}
  <2>1. Len(p) = 2 /\ p[1] = x /\ p[2] = y
    BY <1>0, <1>2, <1>5
  <2>2. p = <<x, y>>
    BY <1>2, <2>1
  <2>3. q \o <<x, y>> = Append(Append(q, x), y)
    OBVIOUS
  <2> QED
    BY <1>5, <2>2, <2>3
<1> QED
  BY <1>3, <1>4, <1>5

-----------------------------------------------------------------------------
(* A C string ends at its first NUL.                                       *)
LEMMA FirstNul ==
  ASSUME NEW b, NEW m \in Nat, b[m] = NUL
  PROVE  \E i \in 0..m : b[i] = NUL /\ \A j \in 0..i-1 : b[j] # NUL
<1> DEFINE T == {i \in Nat : b[i] = NUL}
<1>1. T \subseteq Nat /\ T # {}
  OBVIOUS
<1>2. PICK i \in T : \A j \in T : <<j, i>> \notin OpToRel(<, Nat)
  <2> HIDE DEF T
  <2> QED
    BY <1>1, NatLessThanWellFounded, WFMin
<1>3. \A j \in Nat : j < i => b[j] # NUL
  BY <1>2 DEF OpToRel
<1>4. i \in Nat /\ b[i] = NUL
  BY <1>2
<1> HIDE DEF T
<1>5. ~(m < i)
  BY <1>3
<1>6. i \in 0..m /\ \A j \in 0..i-1 : j \in Nat /\ j < i
  BY <1>4, <1>5
<1> QED
  BY <1>3, <1>4, <1>6

-----------------------------------------------------------------------------
(* The stream of bytes, from the UART to the ring buffer.                  *)

(* The byte that the UAV sent before c.  Before the first line there is    *)
(* NUL, the END of a line 0.                                               *)
Pred(c) == IF c.pos = 0 THEN [line |-> c.line, pos |-> lens[c.line]]
           ELSE [line |-> IF c.pos = 1 THEN c.line - 1 ELSE c.line, pos |-> c.pos - 1]
LastArrived == IF pos = 0 THEN [line |-> Len(lens), pos |-> 0]
                          ELSE [line |-> Len(lens) + 1, pos |-> pos]
(* The last byte that the callback has read.                               *)
Drained == IF U = 0 THEN LastArrived ELSE Pred(At(0))

(* A byte that has come; the lines before its own are complete.            *)
Known(c) == c \in Bytes /\ c.line <= Len(lens) + 1 /\ (IsEnd(c) => c.line <= Len(lens))

(* The unread bytes are the last that came, in order, and while the        *)
(* callback runs it has not read past them.                                *)
Stream ==
  /\ U <= Burst
  /\ \A i \in 1..Len(lens) : lens[i] > 0
  /\ \A i \in 0..U-1 : Known(At(i))
  /\ \A i \in 1..U-1 : At(i - 1) = Pred(At(i))
  /\ U > 0 => At(U - 1) = LastArrived
  /\ pc = "drain" => Dist(last_size, size) <= U
  /\ \A i \in 1..Len(ring) : Known(ring[i])

(* The parts of TypeOK.                                                    *)
TypeStream ==
  /\ lens \in Seq(0..MaxLen) /\ Len(lens) <= MaxLines /\ pos \in 0..MaxLen
  /\ rxbuf \in [0..RXBUFSIZE-1 -> Bytes \cup {NUL}]
  /\ DMA0SZ \in 1..RXBUFSIZE /\ last_size \in 1..RXBUFSIZE /\ size \in 1..RXBUFSIZE
  /\ ring \in Seq(Bytes) /\ Len(ring) < BUFSIZE
  /\ overflow \in BOOLEAN /\ spilled \subseteq Lines
TypeBuffer ==
  /\ buf \in [0..BUFSIZE-1 -> Bytes \cup {NUL}]
  /\ ptr \in 0..BUFSIZE /\ (pc = "serial" => ptr < BUFSIZE)
  /\ waiting \in BOOLEAN /\ needspoll \in BOOLEAN /\ halfPosted \in BOOLEAN
  /\ pc \in {"loop", "drain", "serial"}
TypeQueue ==
  /\ events \in Seq(Events) /\ Len(events) <= PROCESS_CONF_NUMEVENTS
  /\ UAV_cmd \in 0..MaxLines /\ read \in Seq(Seq(Bytes))

LEMMA TypeParts == TypeOK <=> TypeStream /\ TypeBuffer /\ TypeQueue
BY DEF TypeOK, TypeStream, TypeBuffer, TypeQueue

LEMMA StreamInit == Init => TypeStream /\ Stream
<1> SUFFICES ASSUME Init PROVE TypeStream /\ Stream
  OBVIOUS
<1> USE SizesAssumption, PaceAssumption, BoundsAssumption
<1>1. TypeStream
  BY DEF Init, TypeStream
<1>2. U = 0 /\ Len(lens) = 0 /\ Len(ring) = 0
  BY DEF Init, U, Dist
<1> QED
  BY <1>1, <1>2 DEF Stream, Init

(* What is known of a byte that has come stays so while others come.        *)
LEMMA KnownStays ==
  ASSUME TypeStream, NEW b, Known(b),
         \/ UNCHANGED lens
         \/ lens' = Append(lens, pos)
  PROVE  Known(b)' /\ Pred(b)' = Pred(b)
<1>1. Len(lens) \in Nat /\ Len(lens') \in Nat /\ Len(lens) <= Len(lens')
  BY DEF TypeStream
<1>2. \A i \in 1..Len(lens) : lens'[i] = lens[i]
  BY DEF TypeStream
<1>3. Known(b)'
  BY <1>1 DEF Known, Bytes, Lines
<1>4. IsEnd(b) => b.line \in 1..Len(lens)
  BY <1>1, BoundsAssumption DEF Known, Bytes, Lines
<1> QED
  BY <1>2, <1>3, <1>4 DEF Pred, IsEnd

(* A byte comes.                                                           *)
LEMMA StreamArrive ==
  ASSUME TypeStream, Stream, NEW end \in BOOLEAN, Arrive(end)
  PROVE  TypeStream' /\ Stream' /\ Drained' = Drained
<1> USE SizesAssumption, PaceAssumption, BoundsAssumption
<1>c. PICK c : c = [line |-> Len(lens) + 1, pos |-> IF end THEN 0 ELSE pos + 1]
  OBVIOUS
<1>len. Len(lens) \in Nat /\ pos \in 0..MaxLen /\ Len(lens) + 1 \in Lines
  BY DEF TypeStream, Arrive, Lines
<1>bytes. c \in Bytes
  BY <1>c, <1>len DEF Arrive, Bytes
<1>u. U = Unread /\ U \in 0..RXBUFSIZE-1 /\ U < Burst
  BY DistIsUnread DEF U, TypeStream, Unread, Arrive
<1>u1. U' = U + 1 /\ DMA0SZ' \in 1..RXBUFSIZE
  BY <1>u, DistDown DEF U, TypeStream, Arrive, dmaVars
<1>rx. rxbuf' = [rxbuf EXCEPT ![RXBUFSIZE - DMA0SZ] = c]
  BY <1>c DEF Arrive
<1>same. UNCHANGED <<last_size, size, ring, overflow, spilled, pc>>
  BY DEF Arrive, dmaVars
<1>at. \A i \in 0..U : At(i)' = IF i = U THEN c ELSE At(i)
  <2>1. Spot(last_size, U) = RXBUFSIZE - DMA0SZ
    BY Spots DEF U, TypeStream
  <2>2. /\ \A i \in 0..RXBUFSIZE-1 : Spot(last_size, i) \in 0..RXBUFSIZE-1
        /\ \A i, j \in 0..RXBUFSIZE-1 : Spot(last_size, i) = Spot(last_size, j) => i = j
    <3>1. last_size \in 1..RXBUFSIZE
      BY DEF TypeStream
    <3> QED
      BY <3>1, Spots
  <2>3. \A i \in 0..U : /\ Spot(last_size, i) \in 0..RXBUFSIZE-1
                        /\ Spot(last_size, i) = Spot(last_size, U) => i = U
    BY <1>u, <2>2
  <2> QED
    BY <1>rx, <1>same, <2>1, <2>3 DEF At, TypeStream
<1>lens. UNCHANGED lens \/ lens' = Append(lens, pos)
  BY DEF Arrive
<1>new. /\ lens' = (IF end THEN Append(lens, pos) ELSE lens)
        /\ pos' = (IF end THEN 0 ELSE pos + 1) /\ (end => pos > 0)
  BY DEF Arrive
<1>lens1. /\ lens' \in Seq(0..MaxLen)
          /\ \A i \in 1..Len(lens) : lens'[i] = lens[i]
          /\ Len(lens') = (IF end THEN Len(lens) + 1 ELSE Len(lens))
          /\ end => lens'[Len(lens) + 1] = pos
  <2>1. CASE end
    <3>1. lens \in Seq(0..MaxLen) /\ lens' = Append(lens, pos)
      BY <1>new, <2>1 DEF TypeStream
    <3> QED
      BY <1>len, <2>1, <3>1, AppendProperties
  <2>2. CASE ~end
    BY <1>len, <1>new, <2>2 DEF TypeStream
  <2> QED
    BY <2>1, <2>2
<1>last. c = LastArrived' /\ Pred(c)' = LastArrived
  BY <1>c, <1>len, <1>new, <1>lens1 DEF LastArrived, Pred
<1>knownc. Known(c)'
  BY <1>c, <1>len, <1>bytes, <1>lens1 DEF Known, IsEnd
<1>old. \A i \in 0..U-1 : Known(At(i))' /\ Pred(At(i))' = Pred(At(i))
  <2>1. SUFFICES ASSUME NEW i \in 0..U-1 PROVE Known(At(i))' /\ Pred(At(i))' = Pred(At(i))
    OBVIOUS
  <2>2. PICK b : b = At(i)
    OBVIOUS
  <2>3. Known(b)' /\ Pred(b)' = Pred(b)
    BY <1>lens, <2>2, KnownStays DEF Stream
  <2>4. At(i)' = b
    BY <1>u, <1>at, <2>2
  <2> QED
    BY <2>2, <2>3, <2>4 DEF Known, Pred, IsEnd
<1>1. TypeStream'
  <2>1. rxbuf' \in [0..RXBUFSIZE-1 -> Bytes \cup {NUL}]
    BY <1>rx, <1>bytes DEF TypeStream
  <2>2. pos' \in 0..MaxLen /\ Len(lens') <= MaxLines
    BY <1>len, <1>new, <1>lens1 DEF Arrive, Lines
  <2> QED
    BY <1>same, <1>u1, <1>lens1, <2>1, <2>2 DEF TypeStream
<1>2. \A i \in 0..U' - 1 : Known(At(i))'
  <2>1. ASSUME NEW i \in 0..U' - 1, i # U PROVE Known(At(i))'
    BY <1>old, <1>u, <1>u1, <2>1
  <2>2. ASSUME NEW i \in 0..U' - 1, i = U PROVE Known(At(i))'
    <3>1. At(i)' = c
      BY <1>at, <1>u, <2>2
    <3> QED
      BY <1>knownc, <3>1 DEF Known, IsEnd
  <2> QED
    BY <2>1, <2>2
<1>3. \A i \in 1..U' - 1 : At(i - 1)' = Pred(At(i))'
  <2>1. ASSUME NEW i \in 1..U' - 1, i # U PROVE At(i - 1)' = Pred(At(i))'
    <3>1. At(i - 1) = Pred(At(i)) /\ At(i - 1)' = At(i - 1) /\ Pred(At(i))' = Pred(At(i))
      BY <1>old, <1>at, <1>u, <1>u1, <2>1 DEF Stream
    <3> QED
      BY <3>1
  <2>2. ASSUME NEW i \in 1..U' - 1, i = U PROVE At(i - 1)' = Pred(At(i))'
    <3>1. At(i)' = c /\ At(i - 1)' = At(i - 1) /\ At(i - 1) = LastArrived
      BY <1>at, <1>u, <2>2 DEF Stream
    <3>2. Pred(At(i))' = Pred(c)'
      BY <3>1 DEF Pred
    <3> QED
      BY <1>last, <3>1, <3>2
  <2> QED
    BY <2>1, <2>2
<1>4. At(U - 1)' = LastArrived'
  <2>1. PICK n : n = U
    OBVIOUS
  <2>2. At(n)' = c /\ U' - 1 = n
    BY <1>at, <1>u, <1>u1, <2>1
  <2> QED
    BY <1>last, <2>2 DEF At
<1>5. \A i \in 1..Len(lens') : lens'[i] > 0
  BY <1>len, <1>new, <1>lens1 DEF Stream
<1>6. \A i \in 1..Len(ring') : Known(ring[i])'
  <2>1. SUFFICES ASSUME NEW i \in 1..Len(ring) PROVE Known(ring[i])'
    BY <1>same
  <2>2. PICK b : b = ring[i]
    OBVIOUS
  <2>3. Known(b)'
    BY <1>lens, <2>2, KnownStays DEF Stream
  <2> QED
    BY <1>same, <2>2, <2>3 DEF Known, IsEnd
<1>7. Stream'
  <2>1. U' <= Burst /\ (pc' = "drain" => Dist(last_size, size)' <= U')
    BY <1>u, <1>u1, <1>same, DistIsUnread DEF Stream, Dist, TypeStream
  <2> QED
    BY <1>2, <1>3, <1>4, <1>5, <1>6, <2>1 DEF Stream
<1>8. Drained' = Drained
  <2>1. Drained' = Pred(At(0))'
    BY <1>u, <1>u1 DEF Drained
  <2>2. CASE U = 0
    <3>1. At(0)' = c
      BY <1>at, <2>2
    <3> QED
      BY <1>last, <2>1, <2>2, <3>1 DEF Drained, Pred
  <2>3. CASE U # 0
    BY <1>old, <1>u, <2>1, <2>3 DEF Drained
  <2> QED
    BY <2>2, <2>3
<1> QED
  BY <1>1, <1>7, <1>8

(* The callback reads a byte.                                              *)
LEMMA StreamDrain ==
  ASSUME TypeStream, Stream, DrainByte
  PROVE  /\ TypeStream' /\ Stream'
         /\ U > 0 /\ Known(At(0)) /\ Drained = Pred(At(0)) /\ Drained' = At(0)
         /\ IF RingRoom /\ (overflow => IsEnd(At(0)))
            THEN ring' = Append(ring, At(0)) /\ ~overflow' /\ spilled' = spilled
            ELSE overflow' /\ spilled' = spilled \cup {At(0).line} /\ ring' = ring
<1> USE SizesAssumption, PaceAssumption, BoundsAssumption
<1>c. At(0) = rxbuf[RXBUFSIZE - last_size]
  BY Spots DEF At, TypeStream
<1>same. /\ UNCHANGED <<lens, pos, rxbuf, DMA0SZ, size, pc>> /\ last_size' = Down(last_size)
         /\ pc = "drain" /\ last_size # size
  BY DEF DrainByte, inVars
<1>ring. IF RingRoom /\ (overflow => IsEnd(At(0)))
         THEN ring' = Append(ring, At(0)) /\ ~overflow' /\ spilled' = spilled
         ELSE overflow' /\ spilled' = spilled \cup {At(0).line} /\ ring' = ring
  BY <1>c DEF DrainByte
<1>type. last_size \in 1..RXBUFSIZE /\ DMA0SZ \in 1..RXBUFSIZE /\ size \in 1..RXBUFSIZE
  BY DEF TypeStream
<1>u. U \in 1..RXBUFSIZE-1 /\ Dist(last_size, size) \in 1..U
  <2>1. U \in 0..RXBUFSIZE-1 /\ Dist(last_size, size) \in 0..RXBUFSIZE-1
    BY <1>type, DistIsUnread DEF U
  <2>2. Dist(last_size, size) # 0 /\ Dist(last_size, size) <= U
    BY <1>type, <1>same, DistDown DEF Stream
  <2> QED
    BY <2>1, <2>2
<1>u1. /\ U' = U - 1 /\ last_size' \in 1..RXBUFSIZE
       /\ Dist(last_size, size)' = Dist(last_size, size) - 1
  <2>1. Dist(Down(last_size), DMA0SZ) = U - 1 /\ Down(last_size) \in 1..RXBUFSIZE
    BY <1>u, <1>type, DistDown DEF U
  <2>2. Dist(Down(last_size), size) = Dist(last_size, size) - 1
    BY <1>u, <1>type, DistDown
  <2> QED
    BY <1>same, <2>1, <2>2 DEF U, Dist
<1>at. \A i \in 0..U-2 : At(i)' = At(i + 1)
  <2>1. \A i \in 0..RXBUFSIZE-2 : Spot(Down(last_size), i) = Spot(last_size, i + 1)
    BY <1>type, Spots
  <2> QED
    BY <1>u, <1>same, <2>1 DEF At, Spot
<1>pred. UNCHANGED LastArrived /\ \A b : Pred(b)' = Pred(b) /\ Known(b)' = Known(b)
  BY <1>same DEF LastArrived, Pred, Known
<1>known. Known(At(0)) /\ At(0) \in Bytes
  BY <1>u DEF Stream, Known
<1>1. TypeStream'
  <2>1. ring' \in Seq(Bytes) /\ Len(ring') < BUFSIZE
    <3>1. ring \in Seq(Bytes) /\ Len(ring) \in Nat /\ Len(ring) < BUFSIZE
      BY DEF TypeStream
    <3>2. CASE ring' = Append(ring, At(0)) /\ RingRoom
      <4>1. ring' \in Seq(Bytes) /\ Len(ring') = Len(ring) + 1
        BY <1>known, <3>1, <3>2, AppendProperties
      <4> QED
        BY <3>1, <3>2, <4>1 DEF RingRoom
    <3>3. CASE ring' = ring
      BY <3>1, <3>3
    <3> QED
      BY <1>ring, <3>2, <3>3
  <2>2. overflow' \in BOOLEAN /\ spilled' \subseteq Lines
    <3>1. At(0).line \in Lines
      BY <1>known DEF Bytes
    <3>2. overflow' \in BOOLEAN
      BY DEF DrainByte, TypeStream
    <3>3. spilled' = spilled \/ spilled' = spilled \cup {At(0).line}
      BY <1>ring
    <3> QED
      BY <3>1, <3>2, <3>3 DEF TypeStream
  <2> QED
    BY <1>same, <1>u1, <2>1, <2>2 DEF TypeStream
<1>2. Stream'
  <2>1. \A i \in 0..U' - 1 : Known(At(i))'
    <3>1. \A i \in 0..U' - 1 : Known(At(i + 1)) /\ At(i)' = At(i + 1)
      BY <1>u, <1>u1, <1>at DEF Stream
    <3> QED
      BY <3>1, <1>same DEF Known
  <2>2. \A i \in 1..U' - 1 : At(i - 1)' = Pred(At(i))'
    <3>1. \A i \in 1..U' - 1 : At((i + 1) - 1) = Pred(At(i + 1))
      BY <1>u, <1>u1 DEF Stream
    <3>2. \A i \in 1..U' - 1 : At(i)' = At(i + 1) /\ At(i - 1)' = At((i + 1) - 1)
      BY <1>u, <1>u1, <1>at
    <3> QED
      BY <3>1, <3>2, <1>same DEF Pred
  <2>3. U' > 0 => At(U - 1)' = LastArrived'
    <3>1. SUFFICES ASSUME U' > 0 PROVE At(U - 1)' = LastArrived'
      OBVIOUS
    <3>2. PICK n : n = U - 2
      OBVIOUS
    <3>3. At(n)' = At(n + 1) /\ n + 1 = U - 1 /\ U' - 1 = n
      BY <1>u, <1>u1, <1>at, <3>1, <3>2
    <3>4. At(n + 1) = LastArrived
      BY <1>u, <3>3 DEF Stream
    <3> QED
      BY <1>pred, <3>3, <3>4 DEF At
  <2>4. \A i \in 1..Len(ring') : Known(ring[i])'
    <3>1. SUFFICES ASSUME NEW i \in 1..Len(ring') PROVE Known(ring'[i])
      BY <1>same DEF Known
    <3>2. ring \in Seq(Bytes) /\ At(0) \in Bytes /\ Len(ring) \in Nat
      BY <1>known DEF TypeStream
    <3>3. CASE ring' = ring
      BY <3>3, <3>1 DEF Stream
    <3>4. CASE ring' = Append(ring, At(0))
      <4>1. (i \in 1..Len(ring) /\ ring'[i] = ring[i]) \/ ring'[i] = At(0)
        BY <3>1, <3>2, <3>4, AppendProperties
      <4> QED
        BY <1>known, <4>1 DEF Stream
    <3> QED
      BY <1>ring, <3>3, <3>4
  <2> QED
    BY <1>u, <1>u1, <1>same, <2>1, <2>2, <2>3, <2>4 DEF Stream
<1>3. Drained = Pred(At(0)) /\ Drained' = At(0)
  <2>1. Drained = Pred(At(0))
    BY <1>u DEF Drained
  <2>2. CASE U = 1
    <3>1. At(0) = LastArrived
      BY <2>2 DEF Stream
    <3> QED
      BY <1>u1, <1>pred, <2>1, <2>2, <3>1 DEF Drained
  <2>3. CASE U # 1
    <3>1. At(0)' = At(1) /\ At(0) = Pred(At(1))
      BY <1>u, <1>at, <2>3 DEF Stream
    <3>2. Drained' = Pred(At(0))'
      BY <1>u, <1>u1, <2>3 DEF Drained
    <3> QED
      BY <1>same, <2>1, <3>1, <3>2 DEF Pred
  <2> QED
    BY <2>2, <2>3
<1> QED
  BY <1>1, <1>2, <1>3, <1>u, <1>known, <1>ring

(* No other step touches what has come.                                    *)
LEMMA StreamOther ==
  ASSUME TypeStream, Stream, UNCHANGED <<inVars, last_size, overflow, spilled>>,
         ring' = ring \/ (ring # <<>> /\ ring' = Tail(ring)),
         size' \in {size, DMA0SZ},
         pc' = "drain" => size' = DMA0SZ \/ (pc = "drain" /\ size' = size)
  PROVE  TypeStream' /\ Stream' /\ Drained' = Drained
<1>1. UNCHANGED <<lens, pos, rxbuf, DMA0SZ, last_size, overflow, spilled>>
  BY DEF inVars
<1>2. UNCHANGED U /\ UNCHANGED LastArrived /\ \A i \in 0..U-1 : At(i)' = At(i)
  BY <1>1 DEF U, Dist, LastArrived, At, Spot
<1>type. last_size \in 1..RXBUFSIZE /\ DMA0SZ \in 1..RXBUFSIZE /\ size \in 1..RXBUFSIZE
  BY DEF TypeStream
<1>u. U \in 0..RXBUFSIZE-1
  BY <1>type, DistIsUnread DEF U
<1>3. ring' \in Seq(Bytes) /\ Len(ring') < BUFSIZE /\ \A i \in 1..Len(ring') : Known(ring'[i])
  <2>1. ring \in Seq(Bytes) /\ Len(ring) \in Nat /\ Len(ring) < BUFSIZE
    BY DEF TypeStream
  <2>2. CASE ring' = ring
    BY <2>1, <2>2 DEF Stream
  <2>3. CASE ring # <<>> /\ ring' = Tail(ring)
    <3>1. /\ ring' \in Seq(Bytes) /\ Len(ring') = Len(ring) - 1
          /\ \A i \in 1..Len(ring') : ring'[i] = ring[i + 1]
      BY <2>1, <2>3, HeadTailProperties
    <3> QED
      BY <2>1, <3>1, SizesAssumption DEF Stream
  <2> QED
    BY <2>2, <2>3
<1>4. TypeStream'
  BY <1>1, <1>3 DEF TypeStream
<1>5. pc' = "drain" => Dist(last_size, size)' <= U'
  <2>1. CASE size' = DMA0SZ
    BY <1>1, <1>2, <1>u, <2>1 DEF U, Dist
  <2>2. CASE pc = "drain" /\ size' = size
    BY <1>1, <1>2, <2>2 DEF Stream, Dist
  <2> QED
    BY <2>1, <2>2
<1>6. \A i \in 0..U-1 : At(i)' = At(i) /\ Pred(At(i))' = Pred(At(i)) /\ Known(At(i))' = Known(At(i))
  BY <1>1, <1>2 DEF Pred, Known
<1>7. Stream'
  <2>1. U > 0 => At(U - 1)' = LastArrived'
    <3>1. PICK n : n = U - 1
      OBVIOUS
    <3>2. U > 0 => At(n)' = LastArrived
      BY <1>2, <1>u, <3>1 DEF Stream
    <3> QED
      BY <1>2, <3>1, <3>2 DEF At
  <2>2. \A i \in 1..U-1 : At(i - 1)' = Pred(At(i))'
    BY <1>6, <1>u DEF Stream
  <2>3. \A i \in 0..U-1 : Known(At(i))'
    BY <1>6 DEF Stream
  <2>4. \A i \in 1..Len(ring') : Known(ring[i])'
    BY <1>1, <1>3 DEF Known
  <2> QED
    BY <1>1, <1>2, <1>5, <2>1, <2>2, <2>3, <2>4 DEF Stream
<1>8. Drained' = Drained
  BY <1>1, <1>2, <1>6, <1>u DEF Drained
<1> QED
  BY <1>4, <1>7, <1>8

-----------------------------------------------------------------------------
(* The line buffer and the process that fills it.                          *)

(* serial_line_process waits as long as its CONTINUE is in the queue; the  *)
(* last place of the line buffer never holds a byte.                       *)
Waits ==
  /\ waiting <=> In(events, "continue")
  /\ Unique(events, "continue")
  /\ pc = "serial" => ~waiting
  /\ ~waiting => ptr < BUFSIZE
  /\ buf[BUFSIZE - 1] = NUL

(* The string that the readers find in the line buffer.                    *)
LEMMA TextIs ==
  ASSUME TypeBuffer, Waits
  PROVE  \E n \in 0..BUFSIZE-1 :
           /\ buf[n] = NUL /\ \A j \in 0..n-1 : buf[j] # NUL
           /\ Text \in Seq(Bytes) /\ Len(Text) = n
           /\ \A i \in 1..n : Text[i] = buf[i - 1]
<1> DEFINE P(i) == buf[i] = NUL /\ \A j \in 0..i-1 : buf[j] # NUL
           n == CHOOSE i \in 0..BUFSIZE-1 : P(i)
<1>0. BUFSIZE - 1 \in Nat
  BY SizesAssumption
<1>1. \E i \in 0..BUFSIZE-1 : P(i)
  BY <1>0, FirstNul DEF Waits
<1>2. n \in 0..BUFSIZE-1 /\ P(n)
  BY <1>1
<1>3. Text = [i \in 1..n |-> buf[i - 1]]
  BY DEF Text
<1> HIDE DEF n
<1>4. \A i \in 1..n : i - 1 \in 0..n-1 /\ i - 1 \in 0..BUFSIZE-1
  BY <1>0, <1>2
<1>5. \A i \in 1..n : buf[i - 1] \in Bytes
  BY <1>2, <1>4 DEF TypeBuffer
<1>6. Text \in [1..n -> Bytes]
  BY <1>3, <1>5
<1>7. Text \in Seq(Bytes) /\ Len(Text) = n
  <2>1. n \in Nat
    BY <1>0, <1>2
  <2>2. Text \in Seq(Bytes)
    BY <1>6, <2>1, SeqDef
  <2>3. DOMAIN Text = 1..n /\ DOMAIN Text = 1..Len(Text) /\ Len(Text) \in Nat
    BY <1>6, <2>2, LenProperties
  <2> QED
    BY <2>1, <2>2, <2>3
<1> QED
  BY <1>2, <1>3, <1>7

LEMMA WaitsInit == Init => TypeBuffer /\ TypeQueue /\ Waits
<1> SUFFICES ASSUME Init PROVE TypeBuffer /\ TypeQueue /\ Waits
  OBVIOUS
<1> USE SizesAssumption, BoundsAssumption
<1>1. TypeBuffer
  BY DEF Init, TypeBuffer
<1>2. TypeQueue
  BY DEF Init, TypeQueue
<1>3. Len(events) = 0 /\ events = <<>>
  BY DEF Init
<1>4. ~In(events, "continue") /\ Unique(events, "continue")
  BY <1>3 DEF In, Unique
<1>5. buf[BUFSIZE - 1] = NUL
  BY DEF Init
<1> QED
  BY <1>1, <1>2, <1>4, <1>5 DEF Init, Waits

Base == TypeStream /\ TypeBuffer /\ TypeQueue /\ Waits

(* Steps that leave the buffer alone: they may take an event that is not   *)
(* CONTINUE, post one, or do neither.                                      *)
LEMMA WaitsOther ==
  ASSUME Base, UNCHANGED <<bufVars, UAV_cmd, read, halfPosted>>,
         needspoll' \in BOOLEAN, pc' \in {"loop", "drain", "serial"},
         pc' = "serial" => ~waiting,
         \/ events' = events
         \/ events # <<>> /\ Head(events).ev # "continue" /\ events' = Tail(events)
         \/ Room /\ \E x \in Events : x.ev # "continue" /\ events' = Append(events, x)
  PROVE  TypeBuffer' /\ TypeQueue' /\ Waits'
<1>1. /\ events' \in Seq(Events) /\ Len(events') <= PROCESS_CONF_NUMEVENTS
      /\ In(events', "continue") <=> In(events, "continue")
      /\ Unique(events', "continue")
  <2>q. events \in Seq(Events) /\ Len(events) \in Nat /\ Unique(events, "continue")
        /\ Len(events) <= PROCESS_CONF_NUMEVENTS /\ PROCESS_CONF_NUMEVENTS \in Nat
    BY SizesAssumption DEF Base, TypeQueue, Waits
  <2>1. CASE events' = events
    BY <2>q, <2>1
  <2>2. CASE events # <<>> /\ Head(events).ev # "continue" /\ events' = Tail(events)
    <3>1. Tail(events) \in Seq(Events) /\ Len(Tail(events)) = Len(events) - 1
      BY <2>q, <2>2, AfterTail
    <3>2. /\ In(Tail(events), "continue") <=> In(events, "continue")
          /\ Unique(Tail(events), "continue")
      BY <2>q, <2>2, TailKeeps
    <3>3. events' \in Seq(Events) /\ Len(events') <= PROCESS_CONF_NUMEVENTS
      <4>1. events' \in Seq(Events) /\ Len(events') = Len(events) - 1
        BY <2>2, <3>1, Zenon
      <4> QED
        BY <2>q, <4>1
    <3>4. /\ In(events', "continue") <=> In(events, "continue")
          /\ Unique(events', "continue")
      BY <2>2, <3>2
    <3> QED
      BY <3>3, <3>4
  <2>3. ASSUME Room, NEW x \in Events, x.ev # "continue", events' = Append(events, x)
        PROVE  /\ events' \in Seq(Events) /\ Len(events') <= PROCESS_CONF_NUMEVENTS
               /\ In(events', "continue") <=> In(events, "continue")
               /\ Unique(events', "continue")
    <3>1. Append(events, x) \in Seq(Events) /\ Len(Append(events, x)) = Len(events) + 1
      BY <2>q, <2>3, AfterAppend
    <3>2. /\ In(Append(events, x), "continue") <=> In(events, "continue") \/ x.ev = "continue"
          /\ Unique(Append(events, x), "continue")
      BY <2>q, <2>3, AfterAppend
    <3> QED
      BY <2>q, <2>3, <3>1, <3>2 DEF Room
  <2> QED
    BY <2>1, <2>2, <2>3
<1>2. UNCHANGED <<buf, ptr, waiting>>
  BY DEF bufVars
<1>3. TypeQueue'
  BY <1>1 DEF Base, TypeQueue
<1>4. Waits'
  BY <1>1, <1>2 DEF Base, Waits
<1>5. TypeBuffer'
  BY <1>2, <1>4 DEF Base, TypeBuffer, Waits
<1> QED
  BY <1>3, <1>4, <1>5

(* GetByte stays below the last place of the buffer.                       *)
LEMMA WaitsGetByte ==
  ASSUME Base, GetByte
  PROVE  TypeBuffer' /\ TypeQueue' /\ Waits'
<1>1. Head(ring) \in Bytes /\ pc = "serial" /\ ~waiting /\ ptr < BUFSIZE /\ ptr \in Nat
  BY HeadTailProperties DEF Base, TypeStream, TypeBuffer, Waits, GetByte
<1>2. UNCHANGED <<waiting, needspoll, pc, events, UAV_cmd, read, halfPosted>>
  BY DEF GetByte, appVars
<1>3. /\ buf' \in [0..BUFSIZE-1 -> Bytes \cup {NUL}] /\ buf'[BUFSIZE - 1] = NUL
      /\ ptr' \in 0..BUFSIZE /\ ptr' < BUFSIZE
  <2>1. CASE ptr < BUFSIZE - 1
    <3>1. buf' = [buf EXCEPT ![ptr] = Head(ring)] /\ ptr' = ptr + 1
      BY <2>1 DEF GetByte
    <3> QED
      BY <1>1, <2>1, <3>1, SizesAssumption DEF Base, TypeBuffer, Waits
  <2>2. CASE ~(ptr < BUFSIZE - 1)
    <3>1. UNCHANGED <<buf, ptr>>
      BY <2>2 DEF GetByte
    <3> QED
      BY <1>1, <3>1 DEF Base, TypeBuffer, Waits
  <2> QED
    BY <2>1, <2>2
<1> QED
  BY <1>2, <1>3 DEF Base, TypeBuffer, TypeQueue, Waits

(* The three ways in which GetEnd finds room for its two events.           *)
Free == PROCESS_CONF_NUMEVENTS - Len(events)
LEMMA GetEndIs ==
  ASSUME Base, GetEnd
  PROVE  /\ Free \in Nat /\ ~In(events, "continue")
         /\ Event("line") \in Events /\ Event("continue") \in Events
         /\ Event("line").ev = "line" /\ Event("continue").ev = "continue"
         /\ events' = IF Free = 0 THEN events
                      ELSE IF Free = 1 THEN Append(events, Event("line"))
                      ELSE Append(Append(events, Event("line")), Event("continue"))
<1>1. Free \in Nat /\ events \in Seq(Events)
  BY SizesAssumption DEF Free, Base, TypeQueue
<1>2. Event("line") \in Events /\ Event("continue") \in Events
  BY BoundsAssumption DEF Event, Events
<1>3. ~In(events, "continue")
  BY DEF GetEnd, Base, Waits
<1>4. events' = Posted(<<Event("line"), Event("continue")>>)
  BY DEF GetEnd
<1>5. Event("line").ev = "line" /\ Event("continue").ev = "continue"
  BY DEF Event
<1> QED
  BY <1>1, <1>2, <1>3, <1>4, <1>5, PostedIs DEF Free

LEMMA WaitsGetEnd ==
  ASSUME Base, GetEnd
  PROVE  TypeBuffer' /\ TypeQueue' /\ Waits'
<1>1. pc = "serial" /\ ~waiting /\ ptr < BUFSIZE /\ ptr \in Nat
  BY DEF Base, TypeBuffer, Waits, GetEnd
<1>2. UNCHANGED <<needspoll, UAV_cmd, read>>
  BY DEF GetEnd, appVars
<1>3. /\ buf' \in [0..BUFSIZE-1 -> Bytes \cup {NUL}] /\ buf'[BUFSIZE - 1] = NUL
  <2>1. buf' = [buf EXCEPT ![ptr] = NUL]
    BY DEF GetEnd
  <2> QED
    BY <1>1, <2>1, SizesAssumption DEF Base, TypeBuffer, Waits
<1>4. halfPosted' \in BOOLEAN
  BY DEF GetEnd, Base, TypeBuffer
<1>q. events \in Seq(Events) /\ Len(events) \in Nat /\ Unique(events, "continue")
      /\ PROCESS_CONF_NUMEVENTS \in Nat /\ Free = PROCESS_CONF_NUMEVENTS - Len(events)
  BY SizesAssumption DEF Base, TypeQueue, Waits, Free
<1>e. /\ Free \in Nat /\ ~In(events, "continue")
      /\ Event("line") \in Events /\ Event("continue") \in Events
      /\ Event("line").ev = "line" /\ Event("continue").ev = "continue"
      /\ events' = IF Free = 0 THEN events
                   ELSE IF Free = 1 THEN Append(events, Event("line"))
                   ELSE Append(Append(events, Event("line")), Event("continue"))
  BY GetEndIs
<1> DEFINE q1 == Append(events, Event("line"))
           q2 == Append(q1, Event("continue"))
<1>q1. /\ q1 \in Seq(Events) /\ Len(q1) = Len(events) + 1
       /\ ~In(q1, "continue") /\ Unique(q1, "continue")
  <2>1. q1 \in Seq(Events) /\ Len(q1) = Len(events) + 1
    BY <1>q, <1>e, AfterAppend
  <2>2. (In(q1, "continue") <=> In(events, "continue") \/ Event("line").ev = "continue")
        /\ Unique(q1, "continue")
    BY <1>q, <1>e, AfterAppend
  <2> QED
    BY <1>e, <2>1, <2>2
<1> HIDE DEF q1
<1>q2. /\ q2 \in Seq(Events) /\ Len(q2) = Len(q1) + 1
       /\ In(q2, "continue") /\ Unique(q2, "continue")
  <2>1. q2 \in Seq(Events) /\ Len(q2) = Len(q1) + 1
    BY <1>q1, <1>e, AfterAppend
  <2>2. (In(q2, "continue") <=> In(q1, "continue") \/ Event("continue").ev = "continue")
        /\ Unique(q2, "continue")
    BY <1>q1, <1>e, AfterAppend
  <2> QED
    BY <1>e, <2>1, <2>2
<1> HIDE DEF q2
<1>5. CASE Free = 0
  <2>1. events' = events /\ ptr' = 0 /\ UNCHANGED <<waiting, pc>>
    BY <1>e, <1>5 DEF GetEnd, Free
  <2> QED
    BY <1>1, <1>2, <1>3, <1>4, <1>q, <1>e, <2>1, SizesAssumption
    DEF Base, TypeBuffer, TypeQueue, Waits
<1>6. CASE Free = 1
  <2>1. events' = q1 /\ ptr' = 0 /\ UNCHANGED <<waiting, pc>>
    <3>1. events' = q1
      BY <1>e, <1>6 DEF q1
    <3> QED
      BY <1>6, <3>1 DEF GetEnd, Free
  <2>2. events' \in Seq(Events) /\ Len(events') <= PROCESS_CONF_NUMEVENTS
    BY <1>q, <1>q1, <1>6, <2>1
  <2>3. ~In(events', "continue") /\ Unique(events', "continue")
    BY <1>q1, <2>1
  <2> QED
    BY <1>1, <1>2, <1>3, <1>4, <2>1, <2>2, <2>3, SizesAssumption
    DEF Base, TypeBuffer, TypeQueue, Waits
<1>7. CASE Free >= 2
  <2>1. events' = q2 /\ ptr' = ptr + 1 /\ waiting' = TRUE /\ pc' = "loop"
    <3>1. events' = q2
      BY <1>e, <1>7 DEF q1, q2
    <3> QED
      BY <1>7, <3>1 DEF GetEnd, Free
  <2>2. events' \in Seq(Events) /\ Len(events') <= PROCESS_CONF_NUMEVENTS
    BY <1>q, <1>q1, <1>q2, <1>7, <2>1
  <2>3. In(events', "continue") /\ Unique(events', "continue")
    BY <1>q2, <2>1
  <2> QED
    BY <1>1, <1>2, <1>3, <1>4, <2>1, <2>2, <2>3, SizesAssumption
    DEF Base, TypeBuffer, TypeQueue, Waits
<1> QED
  BY <1>e, <1>5, <1>6, <1>7

LEMMA WaitsContinue ==
  ASSUME Base, ContinueEvent
  PROVE  TypeBuffer' /\ TypeQueue' /\ Waits' /\ ~In(events', "continue")
<1>1. UNCHANGED <<buf, needspoll, UAV_cmd, read, halfPosted>>
  BY DEF ContinueEvent, appVars
<1>2. events \in Seq(Events) /\ events # <<>> /\ Head(events).ev = "continue"
      /\ Unique(events, "continue") /\ events' = Tail(events)
  BY DEF ContinueEvent, Takes, Base, TypeQueue, Waits
<1>3. ~In(events', "continue") /\ Unique(events', "continue")
  BY <1>2, TailKeeps
<1>4. events' \in Seq(Events) /\ Len(events') = Len(events) - 1 /\ Len(events) \in Nat
  BY <1>2, AfterTail
<1>5. pc' = "serial" /\ ~waiting' /\ ptr' = 0 /\ waiting' \in BOOLEAN
  BY DEF ContinueEvent
<1>6. TypeQueue'
  BY <1>1, <1>4, SizesAssumption DEF Base, TypeQueue
<1>7. TypeBuffer' /\ Waits'
  BY <1>1, <1>3, <1>5, SizesAssumption DEF Base, TypeBuffer, Waits
<1> QED
  BY <1>3, <1>6, <1>7

(* ez240_uart_process takes the line, and may post an event.               *)
Told == [ev |-> "serial", line |-> Text[1].line]
LEMMA LineEventIs ==
  ASSUME Base, NEW found \in BOOLEAN, LineEvent(found)
  PROVE  /\ events' = IF found THEN Append(Tail(events), Told) ELSE Tail(events)
         /\ found => Told \in Events /\ Text # <<>>
         /\ Tail(events) \in Seq(Events) /\ Len(Tail(events)) = Len(events) - 1
         /\ Text \in Seq(Bytes)
<1>1. events \in Seq(Events) /\ events # <<>>
  BY DEF LineEvent, Takes, Base, TypeQueue
<1>2. Tail(events) \in Seq(Events) /\ Len(Tail(events)) = Len(events) - 1
  BY <1>1, AfterTail
<1>3. Text \in Seq(Bytes)
  BY TextIs DEF Base
<1>4. ASSUME found PROVE Told \in Events /\ Text # <<>>
  <2>1. Text # <<>>
    BY <1>4 DEF LineEvent
  <2>2. Text[1] \in Bytes
    BY <1>3, <2>1
  <2> QED
    BY <2>1, <2>2 DEF Told, Bytes, Lines, Events
<1>5. CASE found
  <2>1. events' = Tail(events) \o <<Told>>
    BY <1>5 DEF LineEvent, Told
  <2> QED
    BY <1>2, <1>3, <1>4, <1>5, <2>1, AppendIsConcat
<1>6. CASE ~found
  <2>1. events' = Tail(events) \o <<>>
    BY <1>6 DEF LineEvent
  <2> QED
    BY <1>2, <1>3, <1>6, <2>1, ConcatEmptySeq
<1> QED
  BY <1>5, <1>6

LEMMA WaitsLine ==
  ASSUME Base, NEW found \in BOOLEAN, LineEvent(found)
  PROVE  TypeBuffer' /\ TypeQueue' /\ Waits'
<1>1. UNCHANGED <<buf, ptr, waiting, needspoll, pc, halfPosted>>
  BY DEF LineEvent, bufVars
<1>2. events \in Seq(Events) /\ events # <<>> /\ Head(events).ev # "continue"
      /\ Unique(events, "continue") /\ Len(events) \in Nat
  BY DEF LineEvent, Takes, Base, TypeQueue, Waits
<1>3. /\ events' = IF found THEN Append(Tail(events), Told) ELSE Tail(events)
      /\ found => Told \in Events /\ Text # <<>>
      /\ Tail(events) \in Seq(Events) /\ Len(Tail(events)) = Len(events) - 1
      /\ Text \in Seq(Bytes)
  BY LineEventIs
<1>4. (In(Tail(events), "continue") <=> In(events, "continue"))
      /\ Unique(Tail(events), "continue")
  BY <1>2, TailKeeps
<1>5. /\ events' \in Seq(Events) /\ Len(events') <= PROCESS_CONF_NUMEVENTS
      /\ (In(events', "continue") <=> In(events, "continue")) /\ Unique(events', "continue")
  <2>1. CASE ~found
    <3>1. events' = Tail(events)
      BY <1>3, <2>1
    <3>2. events' \in Seq(Events) /\ Len(events') = Len(events) - 1
      BY <1>3, <3>1, Zenon
    <3>3. Len(events') <= PROCESS_CONF_NUMEVENTS
      BY <1>2, <3>2, SizesAssumption DEF Base, TypeQueue
    <3> QED
      BY <1>4, <3>1, <3>2, <3>3, Zenon
  <2>2. CASE found
    <3> DEFINE q == Append(Tail(events), Told)
    <3>1. q \in Seq(Events) /\ Len(q) = Len(Tail(events)) + 1
      BY <1>3, <2>2, AfterAppend
    <3>2. (In(q, "continue") <=> In(Tail(events), "continue") \/ Told.ev = "continue")
          /\ (Told.ev # "continue" => Unique(q, "continue"))
      BY <1>3, <1>4, <2>2, AfterAppend
    <3>3. events' = q
      BY <1>3, <2>2
    <3>4. Told.ev # "continue"
      BY DEF Told
    <3> HIDE DEF q
    <3>5. Len(q) <= PROCESS_CONF_NUMEVENTS
      BY <1>2, <1>3, <3>1 DEF Base, TypeQueue
    <3> QED
      BY <1>4, <3>1, <3>2, <3>3, <3>4, <3>5, Zenon
  <2> QED
    BY <2>1, <2>2
<1>6. UAV_cmd' \in 0..MaxLines
  <2>1. found => Text[1].line \in 0..MaxLines
    <3>1. found => Text[1] \in Bytes
      BY <1>3
    <3> QED
      BY <3>1 DEF Bytes, Lines
  <2> QED
    BY <2>1 DEF LineEvent, Base, TypeQueue
<1>7. read' \in Seq(Seq(Bytes))
  BY <1>3 DEF LineEvent, Base, TypeQueue
<1> QED
  BY <1>1, <1>5, <1>6, <1>7 DEF Base, TypeBuffer, TypeQueue, Waits

(* Types, stream and process together.                                     *)
LEMMA BaseStep ==
  ASSUME Base, Stream, [Next]_vars
  PROVE  Base' /\ Stream'
<1>t. TypeStream /\ TypeBuffer /\ TypeQueue /\ Waits
  BY DEF Base
<1>1. ASSUME NEW end \in BOOLEAN, Arrive(end) PROVE Base' /\ Stream'
  <2>1. TypeStream' /\ Stream'
    BY <1>t, <1>1, StreamArrive
  <2>2. UNCHANGED <<bufVars, needspoll, pc, events, appVars, halfPosted>>
    BY <1>1 DEF Arrive
  <2> QED
    BY <1>t, <2>1, <2>2 DEF Base, TypeBuffer, TypeQueue, Waits, bufVars, appVars
<1>2. CASE DrainByte
  <2>1. TypeStream' /\ Stream'
    BY <1>t, <1>2, StreamDrain
  <2>2. UNCHANGED <<bufVars, pc, events, appVars, halfPosted>> /\ needspoll' = TRUE
    BY <1>2 DEF DrainByte
  <2> QED
    BY <1>t, <2>1, <2>2 DEF Base, TypeBuffer, TypeQueue, Waits, bufVars, appVars
<1>3. CASE Tick \/ OtherPosts
  <2>1. TypeStream' /\ Stream'
    BY <1>t, <1>3, StreamOther DEF Tick, OtherPosts, dmaVars
  <2>2. /\ UNCHANGED <<bufVars, UAV_cmd, read, halfPosted, needspoll, pc>>
        /\ Room /\ (events' = Append(events, Event("timer")) \/ events' = Append(events, Event("other")))
    BY <1>3 DEF Tick, OtherPosts, appVars
  <2>3. Event("timer") \in Events /\ Event("other") \in Events
        /\ Event("timer").ev # "continue" /\ Event("other").ev # "continue"
    BY BoundsAssumption DEF Event, Events
  <2>4. TypeBuffer' /\ TypeQueue' /\ Waits'
    <3>1. needspoll' \in BOOLEAN /\ pc' \in {"loop", "drain", "serial"}
          /\ (pc' = "serial" => ~waiting)
      BY <1>t, <2>2 DEF TypeBuffer, Waits
    <3> QED
      BY <2>2, <2>3, <3>1, WaitsOther
  <2> QED
    BY <2>1, <2>4 DEF Base
<1>4. CASE TimerEvent \/ OtherEvent
  <2>1. TypeStream' /\ Stream'
    BY <1>t, <1>4, StreamOther DEF TimerEvent, OtherEvent, dmaVars
  <2>2. /\ UNCHANGED <<bufVars, UAV_cmd, read, halfPosted, needspoll>> /\ pc' \in {"loop", "drain"}
        /\ events # <<>> /\ Head(events).ev # "continue" /\ events' = Tail(events)
    BY <1>4 DEF TimerEvent, OtherEvent, Takes, appVars
  <2>3. TypeBuffer' /\ TypeQueue' /\ Waits'
    <3>1. needspoll' \in BOOLEAN /\ pc' \in {"loop", "drain", "serial"} /\ pc' # "serial"
      BY <1>t, <2>2 DEF TypeBuffer
    <3> QED
      BY <2>2, <3>1, WaitsOther
  <2> QED
    BY <2>1, <2>3 DEF Base
<1>5. CASE DrainDone \/ Poll \/ Yield
  <2>1. TypeStream' /\ Stream'
    BY <1>t, <1>5, StreamOther DEF DrainDone, Poll, Yield, dmaVars
  <2>2. /\ UNCHANGED <<bufVars, UAV_cmd, read, halfPosted, events>>
        /\ needspoll' \in {needspoll, FALSE}
        /\ pc' = "loop" \/ (pc' = "serial" /\ ~waiting)
    BY <1>5 DEF DrainDone, Poll, Yield, appVars
  <2>3. TypeBuffer' /\ TypeQueue' /\ Waits'
    <3>1. needspoll' \in BOOLEAN /\ pc' \in {"loop", "drain", "serial"}
          /\ (pc' = "serial" => ~waiting)
      BY <1>t, <2>2 DEF TypeBuffer
    <3> QED
      BY <2>2, <3>1, WaitsOther
  <2> QED
    BY <2>1, <2>3 DEF Base
<1>6. CASE GetByte
  <2>1. TypeStream' /\ Stream'
    BY <1>t, <1>6, StreamOther DEF GetByte
  <2> QED
    BY <1>6, <2>1, WaitsGetByte DEF Base
<1>7. CASE GetEnd
  <2>1. pc' # "drain"
    BY <1>7 DEF GetEnd
  <2>2. TypeStream' /\ Stream'
    BY <1>t, <1>7, <2>1, StreamOther DEF GetEnd
  <2> QED
    BY <1>7, <2>2, WaitsGetEnd DEF Base
<1>8. CASE ContinueEvent
  <2>1. TypeStream' /\ Stream'
    BY <1>t, <1>8, StreamOther DEF ContinueEvent, dmaVars
  <2> QED
    BY <1>8, <2>1, WaitsContinue DEF Base
<1>9. ASSUME NEW found \in BOOLEAN, LineEvent(found) PROVE Base' /\ Stream'
  <2>1. TypeStream' /\ Stream'
    BY <1>t, <1>9, StreamOther DEF LineEvent, dmaVars, Takes
  <2> QED
    BY <1>9, <2>1, WaitsLine DEF Base
<1>10. CASE UNCHANGED vars
  <2>1. TypeStream' /\ Stream'
    BY <1>t, <1>10, StreamOther DEF vars, dmaVars
  <2> QED
    BY <1>t, <1>10, <2>1
    DEF Base, TypeBuffer, TypeQueue, Waits, vars, bufVars, appVars
<1> QED
  BY <1>1, <1>2, <1>3, <1>4, <1>5, <1>6, <1>7, <1>8, <1>9, <1>10 DEF Next, MainLoop

(* Every variable keeps its type, and every index its buffer, whatever is  *)
(* refused by the queue or dropped by a buffer.                            *)
THEOREM TypeCorrect == Spec => []TypeOK
<1>1. Init => Base /\ Stream
  BY StreamInit, WaitsInit DEF Base
<1>2. Base /\ Stream /\ [Next]_vars => Base' /\ Stream'
  BY BaseStep
<1>3. Base => TypeOK
  BY TypeParts DEF Base
<1> QED
  BY <1>1, <1>2, <1>3, PTL DEF Spec

-----------------------------------------------------------------------------
(* A line on its way through the ring buffer, the line buffer and the      *)
(* queue, as long as no CONTINUE was refused behind it.                    *)

(* Where bytes were skipped between b and d, the line of b has lost some.  *)
Skipped(b, d) == IF IsEnd(b) THEN d.line > b.line
                             ELSE d.line >= b.line /\ b.line \in spilled

(* c comes after b in the ring buffer: nothing was skipped between them,   *)
(* or c is the END that ended the overflow.                                *)
Linked(b, c) == b = Pred(c) \/ (IsEnd(c) /\ Skipped(b, c))

(* The bytes in the ring buffer behind g, the last one taken from it.      *)
Nth(g, i)  == IF i = 0 THEN g ELSE ring[i]
Chained(g) == \A i \in 1..Len(ring) : Linked(Nth(g, i - 1), ring[i])
CaughtUp(g) == IF overflow THEN Skipped(Nth(g, Len(ring)), Drained)
                           ELSE Nth(g, Len(ring)) = Drained

(* The first n places of the line buffer are the beginning of line l.      *)
Prefix(n, l) == \A j \in 0..n-1 : buf[j] = [line |-> l, pos |-> j + 1]
(* n bytes of line l are all of it, or there is a reason.                  *)
Cut(n, l) == l <= Len(lens) /\ (n \in {lens[l], BUFSIZE - 1} \/ l \in spilled)

(* The line buffer holds what was taken since the last END.                *)
Gathered(g) ==
  IF waiting \/ ptr = 0 THEN IsEnd(g)
  ELSE ~IsEnd(g) /\ Prefix(ptr, g.line) /\ (g.pos = ptr \/ ptr = BUFSIZE - 1)

(* What the program was given came before.                                 *)
ReadUpTo(n) == \A k \in 1..Len(read) : read[k] # <<>> => read[k][1].line <= n
HasRead(g) == ReadUpTo(g.line) /\ (~IsEnd(g) => ReadUpTo(g.line - 1))

(* While a line is posted, the line buffer holds it.                       *)
PostedLine(g) == In(events, "line") =>
  /\ ptr - 1 \in 0..BUFSIZE-1 /\ buf[ptr - 1] = NUL
  /\ ptr - 1 > 0 => /\ Prefix(ptr - 1, buf[0].line) /\ buf[0].line <= g.line
                    /\ Cut(ptr - 1, buf[0].line) /\ ReadUpTo(buf[0].line - 1)

Handed(g) == Chained(g) /\ CaughtUp(g) /\ Gathered(g) /\ HasRead(g) /\ PostedLine(g)

(* At most one line is posted, with its CONTINUE behind it and every event *)
(* for gateway_process before it.                                          *)
AllTold(q, n) == \A i \in 1..Len(q) : q[i].ev = "serial" => q[i].line = n
Queue ==
  /\ Unique(events, "line") /\ Before(events, "line", "continue")
  /\ In(events, "line") => In(events, "continue")
  /\ Before(events, "serial", "line") /\ AllTold(events, UAV_cmd)

(* What was given to the program.                                          *)
Whole   == \A k \in 1..Len(read) : \A i \in 1..Len(read[k]) :
             read[k][i] = [line |-> read[k][1].line, pos |-> i]
Ordered == \A j, k \in 1..Len(read) : read[j] # <<>> /\ read[k] # <<>> /\ j < k
             => read[j][1].line < read[k][1].line
Reasons == \A k \in 1..Len(read) : read[k] # <<>> => Cut(Len(read[k]), read[k][1].line)

Given    == Queue /\ Whole /\ Ordered /\ Reasons
LineInv  == halfPosted \/ (Given /\ \E g \in Bytes \cup {NUL} : Handed(g))

LEMMA LineInit == Init => LineInv
<1> SUFFICES ASSUME Init PROVE Given /\ Handed(NUL)
  BY DEF LineInv
<1>1. Len(ring) = 0 /\ Len(read) = 0 /\ Len(events) = 0 /\ Len(lens) = 0
  BY DEF Init
<1>2. Given
  BY <1>1 DEF Given, Queue, Whole, Ordered, Reasons, Unique, Before, In, AllTold
<1>3. IsEnd(NUL)
  BY DEF IsEnd, NUL
<1>4. Drained = NUL
  <2>1. U = 0
    BY SizesAssumption DEF Init, U, Dist
  <2> QED
    BY <1>1, <2>1 DEF Init, Drained, LastArrived, NUL
<1>5. Chained(NUL) /\ CaughtUp(NUL)
  BY <1>1, <1>4 DEF Chained, CaughtUp, Nth, Init
<1>6. Gathered(NUL) /\ HasRead(NUL) /\ PostedLine(NUL)
  BY <1>1, <1>3 DEF Gathered, HasRead, ReadUpTo, PostedLine, In, Init
<1> QED
  BY <1>2, <1>5, <1>6 DEF Handed

(* Cuts stay explained while lines come and others are spilled.            *)
LEMMA CutStays ==
  ASSUME TypeStream, spilled \subseteq spilled', lens' = lens \/ lens' = Append(lens, pos),
         NEW n, NEW l \in Lines, Cut(n, l)
  PROVE  Cut(n, l)'
<1>1. Len(lens) \in Nat /\ Len(lens') \in Nat /\ Len(lens) <= Len(lens')
  BY DEF TypeStream
<1>2. \A i \in 1..Len(lens) : lens'[i] = lens[i]
  <2>1. lens \in Seq(0..MaxLen) /\ pos \in 0..MaxLen
    BY DEF TypeStream
  <2> QED
    BY <2>1, AppendProperties
<1>3. l \in 1..Len(lens)
  BY <1>1, BoundsAssumption DEF Cut, Lines
<1> QED
  BY <1>1, <1>2, <1>3 DEF Cut, Lines

(* The steps of the UART and of the callback leave the rest alone.         *)
LEMMA ReasonsStay ==
  ASSUME Base, spilled \subseteq spilled', lens' = lens \/ lens' = Append(lens, pos),
         UNCHANGED <<read, buf, ptr, events, UAV_cmd, waiting>>, Given,
         NEW g \in Bytes \cup {NUL}, Gathered(g), HasRead(g), PostedLine(g)
  PROVE  Given' /\ Gathered(g)' /\ HasRead(g)' /\ PostedLine(g)'
<1>1. Queue' /\ Whole' /\ Ordered'
  BY DEF Given, Queue, Whole, Ordered
<1>2. Reasons'
  <2>1. SUFFICES ASSUME NEW k \in 1..Len(read), read[k] # <<>>
                 PROVE Cut(Len(read[k]), read[k][1].line)'
    BY DEF Reasons
  <2>2. read[k] \in Seq(Bytes)
    BY DEF Base, TypeQueue
  <2>3. read[k][1] \in Bytes
    BY <2>1, <2>2
  <2>4. PICK n, l : n = Len(read[k]) /\ l = read[k][1].line
    OBVIOUS
  <2>5. l \in Lines /\ Cut(n, l)
    BY <2>1, <2>3, <2>4 DEF Bytes, Given, Reasons
  <2>6. Cut(n, l)'
    BY <2>5, CutStays DEF Base
  <2> QED
    BY <2>4, <2>6 DEF Cut
<1>3. Gathered(g)' /\ HasRead(g)'
  BY DEF Gathered, HasRead, ReadUpTo, Prefix
<1>4. PostedLine(g)'
  <2>1. SUFFICES ASSUME In(events, "line"), ptr - 1 > 0 PROVE Cut(ptr - 1, buf[0].line)'
    BY DEF PostedLine, Prefix, ReadUpTo
  <2>2. PICK n, l : n = ptr - 1 /\ l = buf[0].line
    OBVIOUS
  <2>3. n \in Nat \ {0} /\ buf[0] = [line |-> l, pos |-> 1] /\ Cut(n, l)
    BY <2>1, <2>2, SizesAssumption DEF PostedLine, Prefix
  <2>4. buf[0] \in Bytes
    <3>1. buf[0] \in Bytes \cup {NUL}
      BY SizesAssumption DEF Base, TypeBuffer
    <3> QED
      BY <2>3, <3>1 DEF NUL
  <2>5. Cut(n, l)'
    BY <2>2, <2>3, <2>4, CutStays DEF Base, Bytes
  <2> QED
    BY <2>2, <2>5 DEF Cut
<1> QED
  BY <1>1, <1>2, <1>3, <1>4 DEF Given

LEMMA LineArrive ==
  ASSUME Base, Stream, NEW end \in BOOLEAN, Arrive(end), Given,
         NEW g \in Bytes \cup {NUL}, Handed(g)
  PROVE  Given' /\ Handed(g)'
<1>1. /\ UNCHANGED <<ring, overflow, spilled, read, buf, ptr, events, UAV_cmd, waiting>>
      /\ lens' = lens \/ lens' = Append(lens, pos)
  BY DEF Arrive, dmaVars, bufVars, appVars
<1>2. Given' /\ Gathered(g)' /\ HasRead(g)' /\ PostedLine(g)'
  BY <1>1, ReasonsStay DEF Handed
<1>3. Chained(g)'
  <2>1. SUFFICES ASSUME NEW i \in 1..Len(ring) PROVE Linked(Nth(g, i - 1), ring[i])'
    BY <1>1 DEF Chained
  <2>2. PICK b : b = ring[i]
    OBVIOUS
  <2>3. Pred(b)' = Pred(b)
    BY <1>1, <2>2, KnownStays DEF Base, Stream
  <2>4. Linked(Nth(g, i - 1), b)
    BY <2>2 DEF Handed, Chained
  <2>5. Nth(g, i - 1)' = Nth(g, i - 1) /\ ring'[i] = b
    BY <1>1, <2>2 DEF Nth
  <2>6. Skipped(Nth(g, i - 1), b)' = Skipped(Nth(g, i - 1), b)
    BY <1>1, <2>5 DEF Skipped
  <2> QED
    BY <2>2, <2>3, <2>4, <2>5, <2>6 DEF Linked, Skipped, Pred, IsEnd
<1>4. CaughtUp(g)'
  <2>1. Drained' = Drained
    BY StreamArrive DEF Base
  <2> QED
    BY <1>1, <2>1 DEF Handed, CaughtUp, Nth, Skipped
<1> QED
  BY <1>2, <1>3, <1>4 DEF Handed

(* What the callback puts into the ring buffer, or skips.                  *)
LEMMA LineDrain ==
  ASSUME Base, Stream, DrainByte, Given, NEW g \in Bytes \cup {NUL}, Handed(g)
  PROVE  Given' /\ Handed(g)'
<1>c. PICK c : c = At(0)
  OBVIOUS
<1>1. /\ Known(c) /\ Drained = Pred(c) /\ Drained' = c
      /\ IF RingRoom /\ (overflow => IsEnd(c))
         THEN ring' = Append(ring, c) /\ ~overflow' /\ spilled' = spilled
         ELSE overflow' /\ spilled' = spilled \cup {c.line} /\ ring' = ring
  BY <1>c, StreamDrain DEF Base
<1>2. UNCHANGED <<read, buf, ptr, events, UAV_cmd, waiting, lens>>
  BY DEF DrainByte, inVars, bufVars, appVars
<1>spill. spilled \subseteq spilled'
  BY <1>1
<1>3. Given' /\ Gathered(g)' /\ HasRead(g)' /\ PostedLine(g)'
  BY <1>2, <1>spill, ReasonsStay DEF Handed
<1>skip. \A b, d : (Skipped(b, d) => Skipped(b, d)') /\ (Linked(b, d) => Linked(b, d)')
  BY <1>2, <1>spill DEF Skipped, Linked, Pred, IsEnd
<1>ring. ring \in Seq(Bytes) /\ Len(ring) \in Nat /\ c \in Bytes
  BY <1>1 DEF Base, TypeStream, Known
<1> DEFINE b == Nth(g, Len(ring))
<1>b. b \in Bytes \cup {NUL}
  BY <1>ring DEF Nth
<1>num. c.line \in Nat /\ c.pos \in Nat /\ b.line \in Nat /\ b.pos \in Nat
  BY <1>ring, <1>b, BoundsAssumption DEF Bytes, Lines, NUL
<1>last. IF overflow THEN Skipped(b, Pred(c)) ELSE b = Pred(c)
  BY <1>1 DEF Handed, CaughtUp
<1>end. IsEnd(c) => ~IsEnd(Pred(c)) /\ Pred(c).line = c.line
  <2>1. SUFFICES ASSUME IsEnd(c) PROVE ~IsEnd(Pred(c)) /\ Pred(c).line = c.line
    OBVIOUS
  <2>2. c.line \in 1..Len(lens)
    BY <1>1, <1>ring, <2>1, BoundsAssumption DEF Known, Bytes, Lines
  <2>3. lens[c.line] > 0
    BY <2>2 DEF Stream
  <2>4. lens[c.line] # 0
    BY <2>3
  <2> QED
    BY <2>1, <2>4 DEF Pred, IsEnd
<1>pred. ~IsEnd(c) => \/ c.pos = 1 /\ Pred(c) = [line |-> c.line - 1, pos |-> 0]
                      \/ c.pos > 1 /\ Pred(c) = [line |-> c.line, pos |-> c.pos - 1]
  BY <1>num DEF IsEnd, Pred
<1> HIDE DEF b
<1>4. CASE ring' = Append(ring, c) /\ ~overflow' /\ (overflow => IsEnd(c)) /\ spilled' = spilled
  <2>1. Linked(b, c)
    <3>1. CASE ~overflow
      BY <1>last, <3>1 DEF Linked
    <3>2. CASE overflow
      BY <1>4, <1>last, <1>end, <3>2 DEF Linked, Skipped
    <3> QED
      BY <3>1, <3>2
  <2>2. /\ Len(ring') = Len(ring) + 1 /\ ring'[Len(ring) + 1] = c
        /\ \A i \in 1..Len(ring) : ring'[i] = ring[i]
    BY <1>4, <1>ring, AppendProperties
  <2>3. Chained(g)'
    <3>1. SUFFICES ASSUME NEW i \in 1..Len(ring') PROVE Linked(Nth(g, i - 1), ring[i])'
      BY DEF Chained
    <3>2. CASE i \in 1..Len(ring)
      <4>1. PICK x, y : x = Nth(g, i - 1) /\ y = ring[i]
        OBVIOUS
      <4>2. Nth(g, i - 1)' = x /\ ring'[i] = y
        BY <1>ring, <2>2, <3>2, <4>1 DEF Nth
      <4>3. Linked(x, y)'
        BY <3>2, <4>1, <1>skip DEF Handed, Chained
      <4> QED
        BY <4>2, <4>3 DEF Linked, Skipped, Pred, IsEnd
    <3>3. CASE i = Len(ring) + 1
      <4>1. PICK x : x = b
        OBVIOUS
      <4>2. Nth(g, i - 1)' = x /\ ring'[i] = c
        BY <1>ring, <2>2, <3>3, <4>1 DEF Nth, b
      <4>3. Linked(x, c)'
        BY <2>1, <4>1, <1>skip
      <4> QED
        BY <4>2, <4>3 DEF Linked, Skipped, Pred, IsEnd
    <3> QED
      BY <1>ring, <2>2, <3>2, <3>3
  <2>4. CaughtUp(g)'
    BY <1>1, <1>4, <1>ring, <2>2 DEF CaughtUp, Nth
  <2> QED
    BY <1>3, <2>3, <2>4 DEF Handed
<1>5. CASE overflow' /\ spilled' = spilled \cup {c.line} /\ ring' = ring
  <2>1. Skipped(b, c)'
    <3>1. PICK x : x = b
      OBVIOUS
    <3>2. Skipped(x, Pred(c)) \/ x = Pred(c)
      BY <1>last, <3>1
    <3>3. c.line \in spilled' /\ spilled \subseteq spilled'
      BY <1>5
    <3>4. IF IsEnd(x) THEN c.line > x.line ELSE c.line >= x.line /\ x.line \in spilled'
      <4>1. CASE IsEnd(c)
        BY <1>end, <1>num, <3>1, <3>2, <3>3, <4>1 DEF Skipped
      <4>2. CASE ~IsEnd(c) /\ c.pos = 1 /\ Pred(c) = [line |-> c.line - 1, pos |-> 0]
        BY <1>num, <3>1, <3>2, <3>3, <4>2 DEF Skipped, IsEnd
      <4>3. CASE ~IsEnd(c) /\ c.pos > 1 /\ Pred(c) = [line |-> c.line, pos |-> c.pos - 1]
        BY <1>num, <3>1, <3>2, <3>3, <4>3 DEF Skipped, IsEnd
      <4> QED
        BY <1>pred, <4>1, <4>2, <4>3
    <3>5. b' = x
      BY <1>5, <3>1 DEF b, Nth
    <3> QED
      BY <3>4, <3>5 DEF Skipped, IsEnd
  <2>2. Chained(g)'
    <3>1. SUFFICES ASSUME NEW i \in 1..Len(ring) PROVE Linked(Nth(g, i - 1), ring[i])'
      BY <1>5 DEF Chained
    <3>2. PICK x, y : x = Nth(g, i - 1) /\ y = ring[i]
      OBVIOUS
    <3>3. Nth(g, i - 1)' = x /\ ring'[i] = y
      BY <1>5, <3>2 DEF Nth
    <3>4. Linked(x, y)'
      BY <3>2, <1>skip DEF Handed, Chained
    <3> QED
      BY <3>3, <3>4 DEF Linked, Skipped, Pred, IsEnd
  <2>3. CaughtUp(g)'
    BY <1>1, <1>5, <2>1 DEF CaughtUp, Nth, b, Skipped, IsEnd
  <2> QED
    BY <1>3, <2>2, <2>3 DEF Handed
<1> QED
  BY <1>1, <1>4, <1>5

(* Taking a byte from the ring buffer makes it the last one taken.         *)
LEMMA ChainTail ==
  ASSUME TypeStream, ring # <<>>, ring' = Tail(ring), Drained' = Drained,
         UNCHANGED <<lens, overflow, spilled>>,
         NEW g, Chained(g), CaughtUp(g), NEW c, c = Head(ring)
  PROVE  Chained(c)' /\ CaughtUp(c)' /\ Linked(g, c) /\ c = ring[1] /\ 1 \in 1..Len(ring)
<1>1. /\ ring \in Seq(Bytes) /\ Len(ring) \in Nat \ {0} /\ c = ring[1]
      /\ Len(ring') = Len(ring) - 1 /\ \A i \in 1..Len(ring') : ring'[i] = ring[i + 1]
  <2>1. ring \in Seq(Bytes)
    BY DEF TypeStream
  <2> QED
    BY <2>1, HeadTailProperties, EmptySeq
<1>2. \A i \in 0..Len(ring') : Nth(c, i)' = Nth(g, i + 1)
  BY <1>1 DEF Nth
<1>3. Chained(c)'
  <2>1. SUFFICES ASSUME NEW i \in 1..Len(ring') PROVE Linked(Nth(c, i - 1), ring[i])'
    BY DEF Chained
  <2>2. PICK x, y : x = Nth(g, i) /\ y = ring[i + 1]
    OBVIOUS
  <2>3. Linked(x, y)
    <3>1. i + 1 \in 1..Len(ring) /\ (i + 1) - 1 = i
      BY <1>1
    <3> QED
      BY <2>2, <3>1 DEF Chained
  <2>4. Nth(c, i - 1)' = x /\ ring'[i] = y
    <3>1. i - 1 \in 0..Len(ring') /\ (i - 1) + 1 = i
      BY <1>1
    <3> QED
      BY <1>1, <1>2, <2>2, <3>1
  <2> QED
    BY <2>3, <2>4 DEF Linked, Skipped, Pred, IsEnd
<1>4. CaughtUp(c)'
  <2>1. PICK x : x = Nth(g, Len(ring))
    OBVIOUS
  <2>2. Nth(c, Len(ring))' = x
    <3>1. Len(ring') \in 0..Len(ring') /\ Len(ring') + 1 = Len(ring)
      BY <1>1
    <3> QED
      BY <1>1, <2>1, <3>1 DEF Nth
  <2> QED
    BY <2>1, <2>2 DEF CaughtUp, Skipped, IsEnd
<1>5. Linked(g, c)
  <2>1. 1 \in 1..Len(ring) /\ Nth(g, 1 - 1) = g
    BY <1>1 DEF Nth
  <2> QED
    BY <1>1, <2>1 DEF Chained
<1> QED
  BY <1>1, <1>3, <1>4, <1>5

(* The process takes a byte of a line.                                     *)
LEMMA LineGetByte ==
  ASSUME Base, Stream, GetByte, Given, NEW g \in Bytes \cup {NUL}, Handed(g)
  PROVE  Given' /\ \E c \in Bytes \cup {NUL} : Handed(c)'
<1>c. PICK c : c = Head(ring)
  OBVIOUS
<1>1. /\ UNCHANGED <<lens, overflow, spilled, read, events, UAV_cmd, waiting>>
      /\ ring # <<>> /\ ring' = Tail(ring) /\ ~IsEnd(c) /\ pc = "serial"
  BY <1>c DEF GetByte, inVars, appVars
<1>2. Drained' = Drained
  BY StreamOther DEF GetByte, Base
<1>3. Chained(c)' /\ CaughtUp(c)' /\ Linked(g, c) /\ c = ring[1] /\ 1 \in 1..Len(ring)
  BY <1>c, <1>1, <1>2, ChainTail DEF Base, Handed
<1>4. c \in Bytes /\ Known(c)
  BY <1>3 DEF Base, TypeStream, Stream
<1>num. /\ c.line \in Nat /\ c.pos \in Nat \ {0} /\ g.line \in Nat /\ g.pos \in Nat
        /\ c = [line |-> c.line, pos |-> c.pos]
  BY <1>1, <1>4, BoundsAssumption DEF Bytes, Lines, NUL, IsEnd
<1>pred. g = Pred(c) /\ \/ c.pos = 1 /\ g.line = c.line - 1 /\ g.pos = 0
                        \/ c.pos > 1 /\ g.line = c.line /\ g.pos = c.pos - 1
  <2>1. g = Pred(c)
    BY <1>1, <1>3 DEF Linked
  <2> QED
    BY <2>1, <1>num DEF Pred
<1>5. ~waiting /\ ~In(events, "line") /\ ptr \in Nat /\ ptr < BUFSIZE
      /\ buf \in [0..BUFSIZE-1 -> Bytes \cup {NUL}]
  BY <1>1 DEF Base, Waits, TypeBuffer, Given, Queue
<1>6. Given'
  BY <1>1 DEF Given, Queue, Whole, Ordered, Reasons, Cut
<1>7. HasRead(c)'
  <2>1. ReadUpTo(c.line - 1)
    <3>1. CASE IsEnd(g)
      BY <1>pred, <1>num, <3>1 DEF IsEnd, Handed, HasRead
    <3>2. CASE ~IsEnd(g)
      BY <1>pred, <1>num, <3>2 DEF IsEnd, Handed, HasRead
    <3> QED
      BY <3>1, <3>2
  <2>2. ReadUpTo(c.line)
    <3>1. SUFFICES ASSUME NEW k \in 1..Len(read), read[k] # <<>> PROVE read[k][1].line <= c.line
      BY DEF ReadUpTo
    <3>2. read[k] \in Seq(Bytes)
      BY DEF Base, TypeQueue
    <3>3. read[k][1] \in Bytes
      BY <3>1, <3>2
    <3>4. read[k][1].line \in Nat
      BY <3>3, BoundsAssumption DEF Bytes, Lines
    <3>5. read[k][1].line <= c.line - 1
      BY <2>1, <3>1 DEF ReadUpTo
    <3> QED
      BY <1>num, <3>4, <3>5
  <2> QED
    BY <1>1, <2>1, <2>2 DEF HasRead, ReadUpTo
<1>8. Gathered(c)'
  <2>1. CASE ptr = 0
    <3>1. c.pos = 1
      BY <1>pred, <1>num, <2>1 DEF Handed, Gathered, IsEnd
    <3>2. buf' = [buf EXCEPT ![0] = c] /\ ptr' = 1
      BY <1>c, <2>1, SizesAssumption DEF GetByte
    <3>3. buf'[0] = c
      BY <1>5, <3>2, SizesAssumption
    <3>4. \A j \in 0..1-1 : buf'[j] = [line |-> c.line, pos |-> j + 1]
      BY <1>num, <3>1, <3>3
    <3> QED
      BY <1>1, <1>5, <3>1, <3>2, <3>4 DEF Gathered, Prefix, IsEnd
  <2>2. CASE ptr # 0
    <3>1. ~IsEnd(g) /\ Prefix(ptr, g.line) /\ (g.pos = ptr \/ ptr = BUFSIZE - 1)
      BY <1>5, <2>2 DEF Handed, Gathered
    <3>2. c.line = g.line /\ c.pos = g.pos + 1
      BY <1>pred, <1>num, <3>1 DEF IsEnd
    <3>3. CASE ptr < BUFSIZE - 1
      <4>1. buf' = [buf EXCEPT ![ptr] = c] /\ ptr' = ptr + 1 /\ g.pos = ptr
        BY <1>c, <1>5, <3>1, <3>3, SizesAssumption DEF GetByte
      <4>2. \A j \in 0..ptr : buf'[j] = [line |-> c.line, pos |-> j + 1]
        <5>1. \A j \in 0..ptr-1 : buf'[j] = buf[j]
          BY <1>5, <4>1
        <5>2. buf'[ptr] = c
          <6>1. ptr \in 0..BUFSIZE-1
            BY <1>5, <3>3, SizesAssumption
          <6> QED
            BY <1>5, <4>1, <6>1
        <5>3. c = [line |-> c.line, pos |-> ptr + 1]
          <6>1. c.pos = ptr + 1
            BY <3>2, <4>1
          <6> QED
            BY <1>num, <6>1
        <5>4. \A j \in 0..ptr-1 : buf'[j] = [line |-> c.line, pos |-> j + 1]
          BY <3>1, <3>2, <5>1 DEF Prefix
        <5>5. \A j \in 0..ptr : j = ptr \/ j \in 0..ptr-1
          BY <1>5
        <5> QED
          BY <5>2, <5>3, <5>4, <5>5
      <4> QED
        BY <1>1, <1>5, <3>2, <4>1, <4>2 DEF Gathered, Prefix, IsEnd
    <3>4. CASE ~(ptr < BUFSIZE - 1)
      <4>1. buf' = buf /\ ptr' = ptr /\ ptr = BUFSIZE - 1
        BY <1>5, <3>4, SizesAssumption DEF GetByte
      <4> QED
        BY <1>1, <1>5, <2>2, <3>1, <3>2, <4>1 DEF Gathered, Prefix, IsEnd
    <3> QED
      BY <3>3, <3>4
  <2> QED
    BY <2>1, <2>2
<1>9. PostedLine(c)'
  BY <1>1, <1>5 DEF PostedLine
<1> QED
  BY <1>3, <1>4, <1>6, <1>7, <1>8, <1>9 DEF Handed

(* The events for gateway_process, as the queue changes.                   *)
LEMMA ToldKeeps ==
  ASSUME NEW q \in Seq(Events), NEW n, AllTold(q, n)
  PROVE  /\ q # <<>> => AllTold(Tail(q), n)
         /\ \A x \in Events : (x.ev = "serial" => x.line = n) => AllTold(Append(q, x), n)
<1>1. ASSUME q # <<>> PROVE AllTold(Tail(q), n)
  BY <1>1, AfterTail DEF AllTold
<1>2. ASSUME NEW x \in Events, x.ev = "serial" => x.line = n PROVE AllTold(Append(q, x), n)
  <2> DEFINE p == Append(q, x)
  <2>1. /\ Len(p) = Len(q) + 1 /\ Len(q) \in Nat /\ p[Len(q) + 1] = x
        /\ \A i \in 1..Len(q) : p[i] = q[i]
    BY AppendProperties
  <2> HIDE DEF p
  <2>2. \A i \in 1..Len(p) : i = Len(q) + 1 \/ i \in 1..Len(q)
    BY <2>1
  <2>3. AllTold(p, n)
    BY <1>2, <2>1, <2>2 DEF AllTold
  <2> QED
    BY <2>3 DEF p
<1> QED
  BY <1>1, <1>2

(* What is not after one line is not after a later one.                    *)
LEMMA ReadLess ==
  ASSUME Base, NEW m \in Int, NEW n \in Int, m <= n, ReadUpTo(m)
  PROVE  ReadUpTo(n)
<1>1. SUFFICES ASSUME NEW k \in 1..Len(read), read[k] # <<>> PROVE read[k][1].line <= n
  BY DEF ReadUpTo
<1>2. read[k] \in Seq(Bytes)
  BY DEF Base, TypeQueue
<1>3. read[k][1] \in Bytes
  BY <1>1, <1>2
<1>4. read[k][1].line \in Nat
  BY <1>3, BoundsAssumption DEF Bytes, Lines
<1>5. read[k][1].line <= m
  BY <1>1 DEF ReadUpTo
<1> QED
  BY <1>4, <1>5

(* The process takes an END: it posts the line, or drops it when the queue *)
(* is full.                                                                *)
LEMMA LineGetEnd ==
  ASSUME Base, Stream, GetEnd, ~halfPosted', Given, NEW g \in Bytes \cup {NUL}, Handed(g)
  PROVE  Given' /\ \E c \in Bytes \cup {NUL} : Handed(c)'
<1>c. PICK c : c = Head(ring)
  OBVIOUS
<1>1. /\ UNCHANGED <<lens, overflow, spilled, read, UAV_cmd>>
      /\ ring # <<>> /\ ring' = Tail(ring) /\ IsEnd(c) /\ pc = "serial" /\ pc' # "drain"
      /\ buf' = [buf EXCEPT ![ptr] = NUL] /\ Free # 1
  BY <1>c DEF GetEnd, inVars, appVars, Free
<1>2. Drained' = Drained
  BY <1>1, StreamOther DEF GetEnd, Base
<1>3. Chained(c)' /\ CaughtUp(c)' /\ Linked(g, c) /\ c = ring[1] /\ 1 \in 1..Len(ring)
  BY <1>c, <1>1, <1>2, ChainTail DEF Base, Handed
<1>4. c \in Bytes /\ Known(c)
  BY <1>3 DEF Base, TypeStream, Stream
<1>num. c.line \in Nat /\ g.line \in Nat /\ g.pos \in Nat /\ c.line <= Len(lens)
  BY <1>1, <1>4, BoundsAssumption DEF Bytes, Lines, NUL, Known
<1>link. /\ g.line <= c.line
         /\ ~IsEnd(g) => (g.line = c.line /\ g.pos = lens[c.line]) \/ g.line \in spilled
  <2>1. CASE g = Pred(c)
    BY <1>1, <1>num, <2>1 DEF Pred, IsEnd
  <2>2. CASE Skipped(g, c)
    BY <1>num, <2>2 DEF Skipped
  <2> QED
    BY <1>3, <2>1, <2>2 DEF Linked
<1>5. /\ ~waiting /\ ptr \in Nat /\ ptr < BUFSIZE /\ ptr \in 0..BUFSIZE-1
      /\ ~In(events, "line") /\ ~In(events, "continue")
      /\ buf \in [0..BUFSIZE-1 -> Bytes \cup {NUL}]
  BY <1>1, SizesAssumption DEF Base, Waits, TypeBuffer, Given, Queue
<1>6. Whole' /\ Ordered' /\ Reasons'
  BY <1>1 DEF Given, Whole, Ordered, Reasons, Cut
<1>7. HasRead(c)'
  <2>1. ReadUpTo(c.line)
    BY <1>num, <1>link, ReadLess DEF Handed, HasRead
  <2> QED
    BY <1>1, <2>1 DEF HasRead, ReadUpTo, IsEnd
<1>e. /\ Free \in Nat /\ Event("line") \in Events /\ Event("continue") \in Events
      /\ Event("line").ev = "line" /\ Event("continue").ev = "continue"
      /\ events' = IF Free = 0 THEN events
                   ELSE IF Free = 1 THEN Append(events, Event("line"))
                   ELSE Append(Append(events, Event("line")), Event("continue"))
  BY GetEndIs
<1>8. CASE Free = 0
  <2>1. events' = events /\ ptr' = 0
    BY <1>e, <1>8 DEF GetEnd, Free
  <2>2. Queue'
    BY <1>1, <2>1 DEF Given, Queue
  <2>3. Gathered(c)' /\ PostedLine(c)'
    BY <1>1, <1>5, <2>1 DEF Gathered, PostedLine, IsEnd
  <2> QED
    BY <1>3, <1>4, <1>6, <1>7, <2>2, <2>3 DEF Given, Handed
<1>9. CASE Free >= 2
  <2> DEFINE q1 == Append(events, Event("line"))
             q2 == Append(q1, Event("continue"))
  <2>1. events' = q2
    BY <1>e, <1>9
  <2>2. ptr' = ptr + 1 /\ waiting'
    BY <1>9 DEF GetEnd, Free
  <2>q. /\ events \in Seq(Events) /\ Unique(events, "line") /\ Before(events, "line", "continue")
        /\ Before(events, "serial", "line") /\ AllTold(events, UAV_cmd)
    BY DEF Base, TypeQueue, Given, Queue
  <2>q1. /\ q1 \in Seq(Events) /\ Unique(q1, "line") /\ Before(q1, "line", "continue")
         /\ Before(q1, "serial", "line") /\ AllTold(q1, UAV_cmd)
    <3>1. q1 \in Seq(Events)
      BY <1>e, <2>q, AfterAppend
    <3>2. Unique(q1, "line") /\ Before(q1, "line", "continue")
      BY <1>5, <1>e, <2>q, AfterAppend
    <3>3. Before(q1, "serial", "line")
      BY <1>e, <2>q, AfterAppend
    <3>4. AllTold(q1, UAV_cmd)
      BY <1>e, <2>q, ToldKeeps
    <3> QED
      BY <3>1, <3>2, <3>3, <3>4
  <2> HIDE DEF q1
  <2>q2. /\ q2 \in Seq(Events) /\ Unique(q2, "line") /\ Before(q2, "line", "continue")
         /\ Before(q2, "serial", "line") /\ AllTold(q2, UAV_cmd) /\ In(q2, "continue")
    <3>1. q2 \in Seq(Events)
      BY <1>e, <2>q1, AfterAppend
    <3>2. Unique(q2, "line") /\ Before(q2, "line", "continue")
      BY <1>e, <2>q1, AfterAppend
    <3>3. Before(q2, "serial", "line")
      BY <1>e, <2>q1, AfterAppend
    <3>4. AllTold(q2, UAV_cmd)
      BY <1>e, <2>q1, ToldKeeps
    <3>5. In(q2, "continue") <=> In(q1, "continue") \/ Event("continue").ev = "continue"
      BY <1>e, <2>q1, AfterAppend
    <3> QED
      BY <1>e, <3>1, <3>2, <3>3, <3>4, <3>5
  <2> HIDE DEF q2
  <2>3. Queue'
    BY <1>1, <2>1, <2>q2 DEF Queue
  <2>4. Gathered(c)'
    BY <1>1, <2>2 DEF Gathered, IsEnd
  <2>5. ptr' - 1 = ptr /\ buf'[ptr] = NUL
    BY <1>1, <1>5, <2>2
  <2>6. ASSUME ptr > 0
        PROVE  /\ \A j \in 0..ptr-1 : buf'[j] = [line |-> g.line, pos |-> j + 1]
               /\ buf'[0].line = g.line /\ Cut(ptr, g.line) /\ ReadUpTo(g.line - 1)
    <3>1. ~IsEnd(g) /\ Prefix(ptr, g.line) /\ (g.pos = ptr \/ ptr = BUFSIZE - 1)
      BY <1>5, <2>6 DEF Handed, Gathered
    <3>2. \A j \in 0..ptr-1 : buf'[j] = buf[j]
      BY <1>1, <1>5
    <3>3. \A j \in 0..ptr-1 : buf'[j] = [line |-> g.line, pos |-> j + 1]
      BY <3>1, <3>2 DEF Prefix
    <3>4. buf'[0].line = g.line
      <4>1. 0 \in 0..ptr-1
        BY <1>5, <2>6
      <4>2. buf'[0] = [line |-> g.line, pos |-> 0 + 1]
        BY <3>3, <4>1
      <4> QED
        BY <4>2
    <3>5. Cut(ptr, g.line)
      BY <1>num, <1>link, <3>1, SizesAssumption DEF Cut, Base, TypeStream
    <3>6. ReadUpTo(g.line - 1)
      BY <3>1 DEF Handed, HasRead
    <3> QED
      BY <3>3, <3>4, <3>5, <3>6
  <2>7. PostedLine(c)'
    <3>1. PICK n, l : n = ptr /\ l = g.line
      OBVIOUS
    <3>2. n > 0 => /\ \A j \in 0..n-1 : buf'[j] = [line |-> l, pos |-> j + 1]
                   /\ buf'[0].line = l /\ Cut(n, l) /\ ReadUpTo(l - 1)
      BY <2>6, <3>1
    <3>3. n > 0 => Cut(n, l)' /\ ReadUpTo(l - 1)' /\ Prefix(n, l)'
      BY <1>1, <3>2 DEF Cut, ReadUpTo, Prefix
    <3>4. n > 0 => Cut(n, buf[0].line)' /\ ReadUpTo(buf[0].line - 1)' /\ Prefix(n, buf[0].line)'
      BY <3>2, <3>3 DEF Cut, ReadUpTo, Prefix
    <3>5. ptr' - 1 = n /\ n \in 0..BUFSIZE-1 /\ buf'[n] = NUL /\ l <= c.line
      BY <1>5, <1>link, <2>5, <3>1
    <3> QED
      BY <3>2, <3>4, <3>5 DEF PostedLine, Prefix, Cut, ReadUpTo
  <2> QED
    BY <1>3, <1>4, <1>6, <1>7, <2>3, <2>4, <2>7 DEF Given, Handed
<1> QED
  BY <1>1, <1>e, <1>8, <1>9

(* Steps that leave the ring buffer alone.                                 *)
LEMMA ChainStays ==
  ASSUME UNCHANGED <<ring, lens, overflow, spilled>>, Drained' = Drained,
         NEW g, Chained(g), CaughtUp(g)
  PROVE  Chained(g)' /\ CaughtUp(g)'
<1>1. Chained(g)'
  BY DEF Chained, Nth, Linked, Skipped, Pred, IsEnd
<1>2. CaughtUp(g)'
  BY DEF CaughtUp, Nth, Skipped, IsEnd
<1> QED
  BY <1>1, <1>2

(* Taking the first event, whatever it is.                                 *)
LEMMA QueueTail ==
  ASSUME Base, Queue, events # <<>>, NEW t, t = Tail(events)
  PROVE  /\ t \in Seq(Events) /\ Unique(t, "line") /\ Before(t, "line", "continue")
         /\ Before(t, "serial", "line") /\ AllTold(t, UAV_cmd)
         /\ In(t, "line") => In(events, "line")
         /\ Head(events).ev = "line" => ~In(t, "line") /\ ~In(events, "serial")
         /\ Head(events).ev = "continue" => ~In(events, "line")
         /\ Head(events).ev # "continue" /\ In(t, "line") => In(t, "continue")
         /\ In(t, "serial") => In(events, "serial")
         /\ Head(events).ev = "line" => In(events, "line")
<1>1. /\ events \in Seq(Events) /\ Unique(events, "line") /\ Before(events, "line", "continue")
      /\ Before(events, "serial", "line") /\ AllTold(events, UAV_cmd)
      /\ In(events, "line") => In(events, "continue")
  BY DEF Base, TypeQueue, Queue
<1>2. t \in Seq(Events) /\ AllTold(t, UAV_cmd)
  BY <1>1, AfterTail, ToldKeeps
<1>3. /\ Unique(t, "line") /\ Before(t, "line", "continue")
      /\ In(t, "line") => In(events, "line")
      /\ Head(events).ev = "line" => ~In(t, "line")
      /\ Head(events).ev = "continue" => ~In(events, "line")
  BY <1>1, TailKeeps
<1>4. /\ Before(t, "serial", "line") /\ (In(t, "serial") => In(events, "serial"))
      /\ Head(events).ev = "line" => ~In(events, "serial")
  BY <1>1, TailKeeps
<1>5. Head(events).ev # "continue" => (In(t, "continue") <=> In(events, "continue"))
  BY <1>1, TailKeeps
<1>6. Head(events).ev = "line" => In(events, "line")
  BY <1>1, AfterTail DEF In
<1> QED
  BY <1>1, <1>2, <1>3, <1>4, <1>5, <1>6

(* The process goes on: nobody reads the line buffer any more.             *)
LEMMA LineContinue ==
  ASSUME Base, Stream, ContinueEvent, Given, NEW g, Handed(g)
  PROVE  Given' /\ Handed(g)'
<1>1. /\ UNCHANGED <<lens, ring, overflow, spilled, read, UAV_cmd, buf>>
      /\ events # <<>> /\ events' = Tail(events) /\ Head(events).ev = "continue"
      /\ ptr' = 0 /\ pc' = "serial"
  BY DEF ContinueEvent, Takes, inVars, dmaVars, appVars
<1>2. Drained' = Drained
  BY <1>1, StreamOther DEF ContinueEvent, dmaVars, Base
<1>3. Chained(g)' /\ CaughtUp(g)'
  BY <1>1, <1>2, ChainStays DEF Handed
<1>4. /\ Unique(events', "line") /\ Before(events', "line", "continue")
      /\ Before(events', "serial", "line") /\ AllTold(events', UAV_cmd)
      /\ ~In(events', "line")
  BY <1>1, QueueTail DEF Given
<1>5. Given'
  BY <1>1, <1>4 DEF Given, Queue, Whole, Ordered, Reasons, Cut
<1>6. IsEnd(g)
  <2>1. In(events, "continue")
    <3>1. events \in Seq(Events)
      BY DEF Base, TypeQueue
    <3> QED
      BY <1>1, <3>1, AfterTail DEF In
  <2> QED
    BY <2>1 DEF Base, Waits, Handed, Gathered
<1>7. Gathered(g)' /\ HasRead(g)' /\ PostedLine(g)'
  BY <1>1, <1>4, <1>6 DEF Handed, Gathered, HasRead, ReadUpTo, PostedLine, IsEnd
<1> QED
  BY <1>3, <1>5, <1>7 DEF Handed

(* Steps that leave all buffers alone: they may take an event that is for  *)
(* no process of these, post one, or do neither.                           *)
LEMMA LineOther ==
  ASSUME Base, Given, NEW g, Handed(g), Drained' = Drained,
         UNCHANGED <<lens, ring, overflow, spilled, buf, ptr, waiting, UAV_cmd, read>>,
         \/ events' = events
         \/ /\ events # <<>> /\ events' = Tail(events)
            /\ Head(events).ev \notin {"line", "continue"}
         \/ \E x \in Events : /\ x.ev \notin {"line", "continue", "serial"}
                              /\ events' = Append(events, x)
  PROVE  Given' /\ Handed(g)'
<1>1. Chained(g)' /\ CaughtUp(g)'
  BY ChainStays DEF Handed
<1>2. /\ Unique(events', "line") /\ Before(events', "line", "continue")
      /\ Before(events', "serial", "line") /\ AllTold(events', UAV_cmd)
      /\ In(events', "line") => In(events, "line")
      /\ In(events', "line") => In(events', "continue")
  <2>1. CASE events' = events
    BY <2>1 DEF Given, Queue
  <2>2. CASE /\ events # <<>> /\ events' = Tail(events)
             /\ Head(events).ev \notin {"line", "continue"}
    BY <2>2, QueueTail DEF Given
  <2>3. ASSUME NEW x \in Events, x.ev \notin {"line", "continue", "serial"},
               events' = Append(events, x)
        PROVE  /\ Unique(events', "line") /\ Before(events', "line", "continue")
               /\ Before(events', "serial", "line") /\ AllTold(events', UAV_cmd)
               /\ In(events', "line") => In(events, "line")
               /\ In(events', "line") => In(events', "continue")
    <3>1. /\ events \in Seq(Events) /\ Unique(events, "line")
          /\ Before(events, "line", "continue")
          /\ Before(events, "serial", "line") /\ AllTold(events, UAV_cmd)
          /\ In(events, "line") => In(events, "continue")
      BY DEF Base, TypeQueue, Given, Queue
    <3>2. /\ Unique(events', "line") /\ Before(events', "line", "continue")
          /\ In(events', "line") <=> In(events, "line")
      BY <2>3, <3>1, AfterAppend
    <3>3. Before(events', "serial", "line")
      BY <2>3, <3>1, AfterAppend
    <3>4. In(events', "continue") <=> In(events, "continue")
      BY <2>3, <3>1, AfterAppend
    <3>5. AllTold(events', UAV_cmd)
      BY <2>3, <3>1, ToldKeeps
    <3> QED
      BY <3>1, <3>2, <3>3, <3>4, <3>5
  <2> QED
    BY <2>1, <2>2, <2>3
<1>3. Given'
  BY <1>2 DEF Given, Queue, Whole, Ordered, Reasons, Cut
<1>4. Gathered(g)' /\ HasRead(g)'
  BY DEF Handed, Gathered, HasRead, ReadUpTo, Prefix
<1>5. PostedLine(g)'
  BY <1>2 DEF Handed, PostedLine, ReadUpTo, Prefix, Cut
<1> QED
  BY <1>1, <1>3, <1>4, <1>5 DEF Handed

(* The string in a line buffer with a posted line is that line.            *)
LEMMA TextIsLine ==
  ASSUME Base, NEW g, PostedLine(g), In(events, "line"), Text # <<>>
  PROVE  \E n \in 1..BUFSIZE-1, l \in Lines :
           /\ Text \in Seq(Bytes) /\ Len(Text) = n
           /\ \A i \in 1..n : Text[i] = [line |-> l, pos |-> i]
           /\ l <= g.line /\ Cut(n, l) /\ ReadUpTo(l - 1)
<1>1. PICK n \in 0..BUFSIZE-1 :
        /\ buf[n] = NUL /\ \A j \in 0..n-1 : buf[j] # NUL
        /\ Text \in Seq(Bytes) /\ Len(Text) = n
        /\ \A i \in 1..n : Text[i] = buf[i - 1]
  BY TextIs DEF Base
<1>2. PICK m, l : m = ptr - 1 /\ l = buf[0].line
  OBVIOUS
<1>3. m \in 0..BUFSIZE-1 /\ buf[m] = NUL
  BY <1>2 DEF PostedLine
<1>4. n \in Nat \ {0} /\ m \in Nat
  <2>1. Len(Text) # 0
    BY <1>1, EmptySeq
  <2> QED
    BY <1>1, <1>3, <2>1, SizesAssumption
<1>5. ~(m < n)
  BY <1>1, <1>3, <1>4
<1>6. /\ \A j \in 0..m-1 : buf[j] = [line |-> l, pos |-> j + 1]
      /\ l <= g.line /\ Cut(m, l) /\ ReadUpTo(l - 1)
  BY <1>2, <1>4, <1>5 DEF PostedLine, Prefix
<1>7. ~(n < m)
  <2>1. SUFFICES ASSUME n < m PROVE FALSE
    OBVIOUS
  <2>2. buf[n] = [line |-> l, pos |-> n + 1]
    <3>1. n \in 0..m-1
      BY <1>4, <2>1
    <3> QED
      BY <1>6, <3>1
  <2>3. n + 1 = 0
    BY <1>1, <2>2 DEF NUL
  <2> QED
    BY <1>4, <2>3
<1>8. n = m
  BY <1>4, <1>5, <1>7
<1>9. \A i \in 1..n : Text[i] = [line |-> l, pos |-> i]
  <2>1. SUFFICES ASSUME NEW i \in 1..n PROVE Text[i] = [line |-> l, pos |-> i]
    OBVIOUS
  <2>2. i - 1 \in 0..m-1 /\ (i - 1) + 1 = i
    BY <1>4, <1>8
  <2> QED
    BY <1>1, <1>6, <2>2
<1>10. l \in Lines
  <2>1. 1 \in 1..Len(Text)
    BY <1>1, <1>4
  <2>2. Text[1] \in Bytes /\ Text[1] = [line |-> l, pos |-> 1]
    BY <1>1, <1>9, <2>1
  <2> QED
    BY <2>2 DEF Bytes
<1> QED
  BY <1>1, <1>4, <1>6, <1>8, <1>9, <1>10

(* The program is given the line.                                          *)
LEMMA LineLine ==
  ASSUME Base, Stream, NEW found \in BOOLEAN, LineEvent(found), Given,
         NEW g \in Bytes \cup {NUL}, Handed(g)
  PROVE  Given' /\ Handed(g)'
<1>1. /\ UNCHANGED <<lens, ring, overflow, spilled, buf, ptr, waiting>>
      /\ events # <<>> /\ Head(events).ev = "line" /\ read' = Append(read, Text)
      /\ UAV_cmd' = IF found THEN Text[1].line ELSE UAV_cmd
  BY DEF LineEvent, Takes, inVars, dmaVars, bufVars
<1>2. Drained' = Drained
  BY StreamOther DEF LineEvent, dmaVars, Base, Takes
<1>3. Chained(g)' /\ CaughtUp(g)'
  BY <1>1, <1>2, ChainStays DEF Handed
<1>e. /\ events' = IF found THEN Append(Tail(events), Told) ELSE Tail(events)
      /\ found => Told \in Events /\ Text # <<>>
      /\ Text \in Seq(Bytes)
  BY LineEventIs
<1> DEFINE t == Tail(events)
<1>t. /\ t \in Seq(Events) /\ Unique(t, "line") /\ Before(t, "line", "continue")
      /\ Before(t, "serial", "line") /\ AllTold(t, UAV_cmd)
      /\ ~In(t, "line") /\ ~In(t, "serial") /\ In(events, "line")
  BY <1>1, QueueTail DEF Given
<1> HIDE DEF t
<1>told. AllTold(t, Text[1].line)
  BY <1>t DEF AllTold, In
<1>4. Queue' /\ ~In(events', "line")
  <2>1. CASE ~found
    <3>1. events' = t /\ UAV_cmd' = UAV_cmd
      BY <1>1, <1>e, <2>1 DEF t
    <3> QED
      BY <1>t, <3>1 DEF Queue
  <2>2. CASE found
    <3>1. events' = Append(t, Told) /\ UAV_cmd' = Text[1].line
      BY <1>1, <1>e, <2>2 DEF t
    <3>2. Told \in Events /\ Told.ev = "serial" /\ Told.line = Text[1].line
      BY <1>e, <2>2 DEF Told
    <3>3. /\ Unique(events', "line") /\ Before(events', "line", "continue")
          /\ In(events', "line") <=> In(t, "line") \/ Told.ev = "line"
      BY <1>t, <3>1, <3>2, AfterAppend
    <3>4. Before(events', "serial", "line")
      BY <1>t, <3>1, <3>2, AfterAppend
    <3>5. AllTold(events', UAV_cmd')
      BY <1>t, <1>told, <3>1, <3>2, ToldKeeps
    <3> QED
      BY <1>t, <3>2, <3>3, <3>4, <3>5 DEF Queue
  <2> QED
    BY <2>1, <2>2
<1>5. PostedLine(g)' /\ Gathered(g)'
  BY <1>1, <1>4 DEF Handed, PostedLine, Gathered, Prefix
<1>wait. IsEnd(g)
  BY <1>t DEF Given, Queue, Base, Waits, Handed, Gathered
<1>r. /\ read \in Seq(Seq(Bytes)) /\ Len(read) \in Nat /\ Len(read') = Len(read) + 1
      /\ read'[Len(read) + 1] = Text /\ \A k \in 1..Len(read) : read'[k] = read[k]
      /\ \A k \in 1..Len(read') : k \in 1..Len(read) \/ k = Len(read) + 1
  <2>1. read \in Seq(Seq(Bytes))
    BY DEF Base, TypeQueue
  <2>2. /\ read' \in Seq(Seq(Bytes)) /\ Len(read') = Len(read) + 1
        /\ read'[Len(read) + 1] = Text /\ \A k \in 1..Len(read) : read'[k] = read[k]
    BY <1>1, <1>e, <2>1, AppendProperties
  <2> QED
    BY <2>1, <2>2
<1>6. CASE Text = <<>>
  <2>1. Whole' /\ Ordered' /\ Reasons'
    <3>1. Len(Text) = 0
      BY <1>6
    <3>2. \A k \in 1..Len(read') : read'[k] # <<>> => k \in 1..Len(read) /\ read'[k] = read[k]
      BY <1>6, <1>r
    <3>3. Whole'
      BY <1>r, <3>1 DEF Given, Whole
    <3>4. Ordered'
      BY <3>2 DEF Given, Ordered
    <3>5. Reasons'
      BY <1>1, <3>2 DEF Given, Reasons, Cut
    <3> QED
      BY <3>3, <3>4, <3>5
  <2>2. HasRead(g)'
    BY <1>6, <1>r, <1>wait DEF Handed, HasRead, ReadUpTo, IsEnd
  <2> QED
    BY <1>3, <1>4, <1>5, <2>1, <2>2 DEF Given, Handed
<1>7. CASE Text # <<>>
  <2>1. PICK n \in 1..BUFSIZE-1, l \in Lines :
          /\ Text \in Seq(Bytes) /\ Len(Text) = n
          /\ \A i \in 1..n : Text[i] = [line |-> l, pos |-> i]
          /\ l <= g.line /\ Cut(n, l) /\ ReadUpTo(l - 1)
    BY <1>7, <1>t, TextIsLine DEF Handed
  <2>2. Text[1].line = l
    <3>1. 1 \in 1..n
      BY SizesAssumption
    <3>2. Text[1] = [line |-> l, pos |-> 1]
      BY <2>1, <3>1
    <3> QED
      BY <3>2
  <2>num. l \in Nat /\ g.line \in Nat
    BY BoundsAssumption DEF Lines, Bytes, NUL
  <2>3. Whole'
    <3>1. SUFFICES ASSUME NEW k \in 1..Len(read'), NEW i \in 1..Len(read'[k])
                   PROVE  read'[k][i] = [line |-> read'[k][1].line, pos |-> i]
      BY DEF Whole
    <3>2. CASE k \in 1..Len(read)
      BY <1>r, <3>2 DEF Given, Whole
    <3>3. CASE k = Len(read) + 1
      BY <1>r, <2>1, <2>2, <3>3
    <3> QED
      BY <1>r, <3>2, <3>3
  <2>4. \A k \in 1..Len(read) : read[k] # <<>> => read[k][1].line \in Nat /\ read[k][1].line < l
    <3>1. SUFFICES ASSUME NEW k \in 1..Len(read), read[k] # <<>>
                   PROVE  read[k][1].line \in Nat /\ read[k][1].line < l
      OBVIOUS
    <3>2. read[k] \in Seq(Bytes)
      BY <1>r
    <3>3. read[k][1] \in Bytes
      BY <3>1, <3>2
    <3>4. read[k][1].line \in Nat
      BY <3>3, BoundsAssumption DEF Bytes, Lines
    <3>5. read[k][1].line <= l - 1
      BY <2>1, <3>1 DEF ReadUpTo
    <3> QED
      BY <2>num, <3>4, <3>5
  <2>5. Ordered'
    <3>1. SUFFICES ASSUME NEW j \in 1..Len(read'), NEW k \in 1..Len(read'),
                          read'[j] # <<>>, read'[k] # <<>>, j < k
                   PROVE  read'[j][1].line < read'[k][1].line
      BY DEF Ordered
    <3>2. j \in 1..Len(read) /\ read'[j] = read[j]
      BY <1>r, <3>1
    <3>3. CASE k \in 1..Len(read)
      BY <1>r, <3>1, <3>2, <3>3 DEF Given, Ordered
    <3>4. CASE k = Len(read) + 1
      BY <1>r, <2>2, <2>4, <3>1, <3>2, <3>4
    <3> QED
      BY <1>r, <3>3, <3>4
  <2>6. Reasons'
    <3>1. SUFFICES ASSUME NEW k \in 1..Len(read'), read'[k] # <<>>
                   PROVE  Cut(Len(read[k]), read[k][1].line)'
      BY DEF Reasons
    <3>2. CASE k \in 1..Len(read)
      BY <1>1, <1>r, <3>1, <3>2 DEF Given, Reasons, Cut
    <3>3. CASE k = Len(read) + 1
      BY <1>1, <1>r, <2>1, <2>2, <3>3 DEF Cut
    <3> QED
      BY <1>r, <3>2, <3>3
  <2>7. HasRead(g)'
    <3>1. SUFFICES ASSUME NEW k \in 1..Len(read'), read'[k] # <<>>
                   PROVE  read'[k][1].line <= g.line
      BY <1>wait DEF HasRead, ReadUpTo, IsEnd
    <3>2. CASE k \in 1..Len(read)
      BY <1>r, <3>1, <3>2 DEF Handed, HasRead, ReadUpTo
    <3>3. CASE k = Len(read) + 1
      BY <1>r, <2>1, <2>2, <3>3
    <3> QED
      BY <1>r, <3>2, <3>3
  <2> QED
    BY <1>3, <1>4, <1>5, <2>3, <2>5, <2>6, <2>7 DEF Given, Handed
<1> QED
  BY <1>6, <1>7

(* Every step keeps it, or refuses a CONTINUE behind its line.             *)
LEMMA LineStep ==
  ASSUME Base, Stream, LineInv, [Next]_vars
  PROVE  LineInv'
<1>1. SUFFICES ASSUME ~halfPosted' PROVE Given' /\ \E c \in Bytes \cup {NUL} : Handed(c)'
  BY DEF LineInv
<1>2. ~halfPosted
  <2>1. halfPosted' = halfPosted \/ halfPosted' = (halfPosted \/ Free = 1)
    BY DEF Next, MainLoop, Arrive, Tick, OtherPosts, TimerEvent, DrainByte, DrainDone, Poll,
           Yield, GetByte, GetEnd, ContinueEvent, LineEvent, OtherEvent, vars, Free
  <2> QED
    BY <1>1, <2>1
<1>g. Given /\ \E g \in Bytes \cup {NUL} : Handed(g)
  BY <1>2 DEF LineInv
<1>h. PICK g \in Bytes \cup {NUL} : Handed(g)
  BY <1>g
<1>3. ASSUME NEW end \in BOOLEAN, Arrive(end) PROVE Given' /\ Handed(g)'
  BY <1>g, <1>h, <1>3, LineArrive
<1>4. CASE DrainByte
  BY <1>g, <1>h, <1>4, LineDrain
<1>5. CASE Tick \/ OtherPosts
  <2>1. Drained' = Drained
    BY <1>5, StreamOther DEF Tick, OtherPosts, dmaVars, Base
  <2>2. /\ UNCHANGED <<lens, ring, overflow, spilled, buf, ptr, waiting, UAV_cmd, read>>
        /\ events' = Append(events, Event("timer")) \/ events' = Append(events, Event("other"))
    BY <1>5 DEF Tick, OtherPosts, inVars, dmaVars, bufVars, appVars
  <2>3. /\ Event("timer") \in Events /\ Event("timer").ev = "timer"
        /\ Event("other") \in Events /\ Event("other").ev = "other"
    BY BoundsAssumption DEF Event, Events
  <2> QED
    BY <1>g, <1>h, <2>1, <2>2, <2>3, LineOther
<1>6. CASE TimerEvent \/ OtherEvent
  <2>1. Drained' = Drained
    BY <1>6, StreamOther DEF TimerEvent, OtherEvent, dmaVars, Base
  <2>2. /\ UNCHANGED <<lens, ring, overflow, spilled, buf, ptr, waiting, UAV_cmd, read>>
        /\ events # <<>> /\ events' = Tail(events)
        /\ Head(events).ev \notin {"line", "continue"}
    BY <1>6 DEF TimerEvent, OtherEvent, Takes, inVars, dmaVars, bufVars, appVars
  <2> QED
    BY <1>g, <1>h, <2>1, <2>2, LineOther
<1>7. CASE DrainDone \/ Poll \/ Yield \/ UNCHANGED vars
  <2>1. Drained' = Drained
    BY <1>7, StreamOther DEF DrainDone, Poll, Yield, vars, dmaVars, Base
  <2>2. UNCHANGED <<lens, ring, overflow, spilled, buf, ptr, waiting, UAV_cmd, read, events>>
    BY <1>7 DEF DrainDone, Poll, Yield, vars, inVars, dmaVars, bufVars, appVars
  <2> QED
    BY <1>g, <1>h, <2>1, <2>2, LineOther
<1>8. CASE GetByte
  BY <1>g, <1>h, <1>8, LineGetByte
<1>9. CASE GetEnd
  BY <1>1, <1>g, <1>h, <1>9, LineGetEnd
<1>10. CASE ContinueEvent
  BY <1>g, <1>h, <1>10, LineContinue
<1>11. ASSUME NEW found \in BOOLEAN, LineEvent(found) PROVE Given' /\ Handed(g)'
  BY <1>g, <1>h, <1>11, LineLine
<1> QED
  BY <1>3, <1>4, <1>5, <1>6, <1>7, <1>8, <1>9, <1>10, <1>11 DEF Next, MainLoop

IInv == Base /\ Stream /\ LineInv

(* The bytes on their way and the lines given to the program belong        *)
(* together, as long as no CONTINUE was refused behind a line: the         *)
(* inductive invariant from which the properties follow.                   *)
THEOREM Invariance == Spec => []IInv
<1>1. Init => IInv
  BY StreamInit, WaitsInit, LineInit DEF IInv, Base
<1>2. IInv /\ [Next]_vars => IInv'
  BY BaseStep, LineStep DEF IInv
<1> QED
  BY <1>1, <1>2, PTL DEF Spec

(* What ez240_uart_process is given is the beginning of one line of the    *)
(* UAV, never parts of two, however the DMA's, the ring and the line       *)
(* buffer overflow and whatever else is in the event queue.                *)
THEOREM LinesAreOne == Spec => []OneLine
<1>1. IInv => OneLine
  <2>1. SUFFICES ASSUME Base, Whole PROVE OneLine
    BY DEF IInv, LineInv, Given, OneLine
  <2>2. DOMAIN read = 1..Len(read) /\ \A k \in 1..Len(read) : DOMAIN read[k] = 1..Len(read[k])
    BY <2>1 DEF Base, TypeQueue
  <2> QED
    BY <2>1, <2>2 DEF Whole, OneLine
<1> QED
  BY <1>1, Invariance, PTL

(* ez240_uart_process is given no line twice, and none after a later one.  *)
THEOREM LinesInOrder == Spec => []InOrder
<1>1. IInv => InOrder
  <2>1. SUFFICES ASSUME Base, Ordered PROVE InOrder
    BY DEF IInv, LineInv, Given, InOrder
  <2>2. DOMAIN read = 1..Len(read)
    BY <2>1 DEF Base, TypeQueue
  <2> QED
    BY <2>1, <2>2 DEF Ordered, InOrder
<1> QED
  BY <1>1, Invariance, PTL

(* A line that ez240_uart_process is given in part was too long for the    *)
(* line buffer, or came when the ring buffer was full.                     *)
THEOREM CutsExplained == Spec => []CutOnlyWhenFull
<1>1. IInv => CutOnlyWhenFull
  <2>1. SUFFICES ASSUME Base, Reasons PROVE CutOnlyWhenFull
    BY DEF IInv, LineInv, Given, CutOnlyWhenFull
  <2>2. DOMAIN read = 1..Len(read)
    BY <2>1 DEF Base, TypeQueue
  <2> QED
    BY <2>1, <2>2 DEF Reasons, Cut, CutOnlyWhenFull
<1> QED
  BY <1>1, Invariance, PTL

(* gateway_process finds in the one UAV_cmd the command whose event it     *)
(* handles: no later line has been decoded into it.                        *)
THEOREM CommandsStay == Spec => []CommandOfEvent
<1>1. IInv => CommandOfEvent
  <2>1. SUFFICES ASSUME Base, AllTold(events, UAV_cmd), events # <<>>, Head(events).ev = "serial"
                 PROVE  Head(events).line = UAV_cmd
    BY DEF IInv, LineInv, Given, Queue, CommandOfEvent
  <2>2. 1 \in 1..Len(events) /\ Head(events) = events[1]
    <3>1. events \in Seq(Events)
      BY <2>1 DEF Base, TypeQueue
    <3> QED
      BY <2>1, <3>1, AfterTail
  <2> QED
    BY <2>1, <2>2 DEF AllTold
<1> QED
  BY <1>1, Invariance, PTL
=============================================================================
