----------------------------- MODULE BoundedFifo -----------------------------
(***************************************************************************)
(* What a ring channel promises, whatever its index arithmetic: for each   *)
(* queue name in Queues, a FIFO of at most Capacity elements.  Put         *)
(* appends, or drops the element when the queue is full (the hardware      *)
(* drops rather than reports); Take removes the oldest element and         *)
(* records it in out, the sequence of everything ever taken from that      *)
(* queue.  Taking from an empty queue is not a step.                       *)
(***************************************************************************)
EXTENDS Naturals, Sequences

CONSTANTS Queues, Capacity, Data

VARIABLES q, out

fifoVars == <<q, out>>

Init ==
    /\ q = [n \in Queues |-> << >>]
    /\ out = [n \in Queues |-> << >>]

Put(n, v) ==
    /\ IF Len(q[n]) < Capacity
         THEN q' = [q EXCEPT ![n] = Append(@, v)]
         ELSE q' = q
    /\ out' = out

Take(n) ==
    /\ q[n] /= << >>
    /\ out' = [out EXCEPT ![n] = Append(@, Head(q[n]))]
    /\ q' = [q EXCEPT ![n] = Tail(@)]

Next == \E n \in Queues : (\E v \in Data : Put(n, v)) \/ Take(n)

Spec == Init /\ [][Next]_fifoVars

=============================================================================
