---------------------------- MODULE MC_RxChannel ----------------------------
(* Two RX channels (two ports of the UDP range) and a port outside it, as  *)
(* in run_test_arp; two distinct packets so that a packet read from the    *)
(* wrong slot is told apart from the right one.                            *)
EXTENDS RxChannel, TLC

CONSTANTS c1, c2, p1, p2

MC_Channels == {c1, c2}

MC_Pkts == {p1, p2}

MC_Symmetry == Permutations(MC_Channels) \cup Permutations(MC_Pkts)

=============================================================================
