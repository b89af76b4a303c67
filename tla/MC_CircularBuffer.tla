------------------------- MODULE MC_CircularBuffer -------------------------
(* The testbench's own configuration: BUFFER_LENGTH = 3, INDEX_WIDTH = 2.  *)
(* Seven calls are enough for the indices to wrap twice and for both the  *)
(* push-while-full and the pop-while-empty branches to run.               *)
EXTENDS CircularBuffer, TLC

CONSTANTS d0, d1

MC_Data == {d0, d1}


=============================================================================
