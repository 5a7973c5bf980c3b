------------------------------ MODULE MCGather ------------------------------
(* The table of gather.c, whole and cut to its first columns.              *)
EXTENDS Gather, Sequences

Rows == << <<17,18,19,20,23,24,25,27,28,31,32,34>>,
           <<16,17,18,19,20,23,24,25,27,28,31,32>>,
           <<16,16,17,17,18,18,19,19,20,20,23,23>>,
           <<16,17,18,17,17,17,18,18,18,19,19,19>> >>

FirstColumns == [r \in 0..3 |-> [i \in Columns |-> Rows[r + 1][i + 1]]]

(* The assumptions hold of all twelve columns, not only of those that the  *)
(* runs use.                                                               *)
ASSUME WholeTableDescends ==
  \A r \in 2..4 : \A i \in 1..12 :
    /\ Rows[r][i] < Rows[1][i]
    /\ Rows[r][i] \in {16} \cup {Rows[1][j] : j \in 1..12}
=============================================================================
