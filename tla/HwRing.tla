------------------------------- MODULE HwRing -------------------------------
(***************************************************************************)
(* The index logic of the circular_buffer RTL block, as the testbenches    *)
(* observe it through head_index_o, tail_index_o, full_o and empty_o.      *)
(* The RTL is not part of the Python sources, so these operators follow    *)
(* the spec (section 4.1): the head advances on a push pulse, the tail on  *)
(* a pop pulse, both modulo BUFFER_LENGTH; a push while full and a pop     *)
(* while empty leave the ring unchanged.                                   *)
(***************************************************************************)
EXTENDS Naturals

CONSTANT BUFFER_LENGTH

ASSUME BUFFER_LENGTH \in Nat \ {0}

Index == 0 .. BUFFER_LENGTH - 1

\* The four descriptor fields the hardware owns.
Ring == [head : Index, tail : Index, full : BOOLEAN, empty : BOOLEAN]

\* State right after rst: both indices at 0, empty.
ResetRing == [head |-> 0, tail |-> 0, full |-> FALSE, empty |-> TRUE]

\* Mutant: the index counter runs on past the last slot.
NextIndex_nowrap(i) == i + 1

NextIndex(i) == (i + 1) % BUFFER_LENGTH

\* One rising edge on data_pushed_i.
HwPush(r) ==
    IF r.full THEN r
    ELSE [r EXCEPT !.head  = NextIndex(r.head),
                   !.empty = FALSE,
                   !.full  = (NextIndex(r.head) = r.tail)]

\* One rising edge on data_popped_i.
HwPop(r) ==
    IF r.empty THEN r
    ELSE [r EXCEPT !.tail  = NextIndex(r.tail),
                   !.full  = FALSE,
                   !.empty = (NextIndex(r.tail) = r.head)]

\* Number of occupied slots as the index fields encode it.
Occupancy(r) ==
    IF r.full THEN BUFFER_LENGTH ELSE (r.head - r.tail) % BUFFER_LENGTH

\* The occupied slot indices, oldest first.
WindowIdx(r) == [k \in 1 .. Occupancy(r) |-> (r.tail + k - 1) % BUFFER_LENGTH]

=============================================================================
