------------------------ MODULE MC_DescriptorRegister ------------------------
(* The testbench's layout: 5-bit head and tail.  The hardware drives them  *)
(* to 0, to 16 (the first value past 4 bits) and to 31 (all five bits      *)
(* set), which keeps the pairs of a stale read and a current word small.   *)
EXTENDS DescriptorRegister

MC_IndexValues == {0, 16, 31}

=============================================================================
