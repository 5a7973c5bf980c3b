---------------------------- MODULE CommandLine -----------------------------
(***************************************************************************)
(* What network_control and the gateway count on from the line between     *)
(* them: frames may be lost, but the receiver is given only frames that    *)
(* were sent, in the order they were sent, each at most once.              *)
(* SerialFrame implements it for the bytes on the line, but for the losses *)
(* that its check cannot tell.                                             *)
(***************************************************************************)
EXTENDS Sequences, Naturals

CONSTANTS Frames,  \* what may be sent
          None     \* the receiver has nothing

VARIABLES line,    \* the frames on their way, oldest first
          got      \* the frame the receiver was given last

Init == line = <<>> /\ got = None

Send == \E f \in Frames : line' = Append(line, f) /\ got' = got

(* What is overtaken is lost.                                              *)
Deliver == \E i \in 1..Len(line) :
  got' = line[i] /\ line' = SubSeq(line, i + 1, Len(line))

Lose == \E i \in 0..Len(line) :
  line' = SubSeq(line, i + 1, Len(line)) /\ got' = got

(* The receiver has used the frame, or it restarts: what is on its way may *)
(* be lost with it.                                                        *)
Forget == got' = None /\ line' \in {line, <<>>}

Spec == Init /\ [][Send \/ Deliver \/ Lose \/ Forget]_<<line, got>>
=============================================================================
