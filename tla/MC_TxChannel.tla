---------------------------- MODULE MC_TxChannel ----------------------------
(* A two-slot TX ring and two distinct packets, so that a record taken    *)
(* from the wrong slot or overwritten is told apart from the right one.   *)
EXTENDS TxChannel

CONSTANTS p1, p2

MC_Pkts == {p1, p2}

=============================================================================
