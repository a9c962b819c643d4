---------------------------- MODULE MCDatagrams ----------------------------
(* Names of the least, the greatest and a middle length for TLC.             *)
EXTENDS Datagrams

NamesOfLengths == [w \in Worms |-> {2 * w, 10 * w, 21 * w}]
=============================================================================
