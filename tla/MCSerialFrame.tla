--------------------------- MODULE MCSerialFrame ----------------------------
(***************************************************************************)
(* SerialFrame for TLC: the exclusive or of bytes, and addresses whose     *)
(* bytes are those of the header (85 and 170), the first byte of "sUAV"    *)
(* (115), a command, an id or a length (2, 3), or a length that no sender  *)
(* wrote and that ends within two frames (12).                             *)
(***************************************************************************)
EXTENDS SerialFrame, Bitwise

MCXor(a, b) == a ^^ b
MCAddrs == {<<2, 85>>, <<85, 3>>, <<170, 115>>, <<12, 0>>}
(* "che[ck error!]" of the gateway's decoder, "Upd[ate completed]" of      *)
(* deluge_tx.c.                                                            *)
MCTexts == {<<99, 104, 101>>, <<85, 112, 100>>}

(* The laws of the exclusive or that FrameProofs assumes (XorLaws), the    *)
(* law of three bytes for lengths, ids and some addresses.                 *)
Few == 0..15 \cup {84, 85, 115, 170, 253, 254, 255}
ASSUME XorIsGroup ==
  /\ \A a, b \in Byte : ByteXor(a, b) = ByteXor(b, a)
  /\ \A a \in Byte : ByteXor(a, a) = 0 /\ ByteXor(a, 0) = a
  /\ \A a, b, c \in Few : ByteXor(a, ByteXor(b, c)) = ByteXor(ByteXor(a, b), c)
=============================================================================
