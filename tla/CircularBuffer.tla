--------------------------- MODULE CircularBuffer ---------------------------
(***************************************************************************)
(* The circular_buffer testbench (test_circular_buffer.py): the TB keeps   *)
(* the element storage in its own list buffer_data, indexed by the head    *)
(* and tail indices the RTL reports, and drives the RTL with one-cycle     *)
(* data_pushed_i / data_popped_i pulses.  push_to_buffer and               *)
(* pop_from_buffer each run to completion before the next call (one        *)
(* coroutine, the RTL updates on the clock edge inside the call), so each  *)
(* is one action.                                                          *)
(***************************************************************************)
EXTENDS Naturals, Sequences

CONSTANTS BUFFER_LENGTH,  \* TB.BUFFER_LENGTH, the RTL parameter
          Data,           \* the strings the test pushes ("data0", ...)
          NONE,           \* Python None
          MaxCalls        \* bound on push/pop calls per behaviour

VARIABLES ring,         \* head_index_o, tail_index_o, full_o, empty_o
          buffer_data,  \* TB.buffer_data
          elem_read,    \* local of the last pop_from_buffer call
          popLog,       \* the "successfully popped: ..." log lines
          calls         \* number of calls made so far

vars == <<ring, buffer_data, elem_read, popLog, calls>>

HW == INSTANCE HwRing

\* The TB's one buffer, as the single queue "tb".
Fifo == INSTANCE BoundedFifo WITH Queues <- {"tb"},
                                   Capacity <- BUFFER_LENGTH,
                                   q <- [n \in {"tb"} |->
                                          [k \in 1 .. HW!Occupancy(ring) |->
                                            buffer_data[HW!WindowIdx(ring)[k]]]],
                                   out <- [n \in {"tb"} |-> popLog]

\* TB.__init__ and TB.init: empty list, RTL held in reset.
Init ==
    /\ ring = HW!ResetRing
    /\ buffer_data = [i \in HW!Index |-> NONE]
    /\ elem_read = NONE
    /\ popLog = << >>
    /\ calls = 0

push_to_buffer(data) ==
    /\ calls < MaxCalls
    /\ calls' = calls + 1
    /\ IF ~ring.full
         THEN /\ buffer_data' = [buffer_data EXCEPT ![ring.head] = data]
              /\ ring' = HW!HwPush(ring)
         ELSE UNCHANGED <<buffer_data, ring>>
    /\ UNCHANGED <<elem_read, popLog>>

\* Mutant: the slot is read but never set back to None.
pop_from_buffer_keep ==
    /\ calls < MaxCalls
    /\ calls' = calls + 1
    /\ IF ~ring.empty
         THEN /\ elem_read' = buffer_data[ring.tail]
              /\ buffer_data' = buffer_data
              /\ ring' = HW!HwPop(ring)
              /\ popLog' = Append(popLog, buffer_data[ring.tail])
         ELSE /\ elem_read' = NONE
              /\ UNCHANGED <<buffer_data, ring, popLog>>

\* Mutant: the element is taken at the head index instead of the tail.
pop_from_buffer_head ==
    /\ calls < MaxCalls
    /\ calls' = calls + 1
    /\ IF ~ring.empty
         THEN /\ elem_read' = buffer_data[ring.head]
              /\ buffer_data' = [buffer_data EXCEPT ![ring.head] = NONE]
              /\ ring' = HW!HwPop(ring)
              /\ popLog' = Append(popLog, buffer_data[ring.head])
         ELSE /\ elem_read' = NONE
              /\ UNCHANGED <<buffer_data, ring, popLog>>

pop_from_buffer ==
    /\ calls < MaxCalls
    /\ calls' = calls + 1
    /\ IF ~ring.empty
         THEN /\ elem_read' = buffer_data[ring.tail]
              /\ buffer_data' = [buffer_data EXCEPT ![ring.tail] = NONE]
              /\ ring' = HW!HwPop(ring)
              /\ popLog' = Append(popLog, buffer_data[ring.tail])
         ELSE /\ elem_read' = NONE
              /\ UNCHANGED <<buffer_data, ring, popLog>>

Next ==
    \/ \E d \in Data : push_to_buffer(d)
    \/ pop_from_buffer

Spec == Init /\ [][Next]_vars

-----------------------------------------------------------------------------

(* The TB's list only ever holds pushed strings or None at the RTL's      *)
(* index range, and head_index_o / tail_index_o stay inside the ring.     *)
TypeOK ==
    /\ ring \in HW!Ring
    /\ buffer_data \in [HW!Index -> Data \cup {NONE}]
    /\ elem_read \in Data \cup {NONE}
    /\ popLog \in Seq(Data)
    /\ calls \in 0 .. MaxCalls

(* The TB's list and the RTL's flags describe the same ring: a slot of     *)
(* buffer_data holds an element exactly when it lies between tail_index_o  *)
(* and head_index_o as full_o and empty_o say, and full_o and empty_o are  *)
(* never both set.  push_to_buffer writes at the head and pop_from_buffer  *)
(* clears at the tail; a missed clear or a flag update out of step breaks  *)
(* it only after the indices have wrapped.                                 *)
SlotsMatchIndices ==
    /\ ~(ring.full /\ ring.empty)
    /\ ring.empty <=> HW!Occupancy(ring) = 0
    /\ \A i \in HW!Index :
         (buffer_data[i] /= NONE) <=>
            (\E k \in 1 .. HW!Occupancy(ring) : HW!WindowIdx(ring)[k] = i)

(* push_to_buffer and pop_from_buffer together behave as a bounded FIFO   *)
(* of BUFFER_LENGTH elements that ignores a push while full: every popped *)
(* element (popLog) is the oldest pushed one not yet popped, in order.    *)
ImplementsFifo == Fifo!Spec

=============================================================================
