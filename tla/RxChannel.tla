------------------------------ MODULE RxChannel ------------------------------
(***************************************************************************)
(* The receive path of test_fpga_core.py.  The testbench (one coroutine)   *)
(* sends UDP frames into the SFP port and consumes them with               *)
(* check_buffer_rx: poll the channel descriptor until empty is clear,      *)
(* optionally assert the interrupt line, read tail_index, read the slot    *)
(* in shared memory, write 0 to the ISR, then pulse the popped bit 0,1,0   *)
(* by read-modify-write of the descriptor.  Each of these is one AXI-Lite  *)
(* transaction and the hardware runs concurrently with all of them.        *)
(*                                                                         *)
(* The hardware side (UDP port filter, DMA of the frame into the slot at   *)
(* head_index, the push, the BUFRX_PUSH interrupt, the pop on a rising     *)
(* edge of popped) is RTL outside the Python sources, modelled from the   *)
(* spec, as is the interrupt controller: ISR is set by a push, and the     *)
(* line buffer_rx_pushed_interr_o is ISR gated by IER and GIE, which the  *)
(* last writes of TB.config before its RES pulse set to 1.                 *)
(***************************************************************************)
EXTENDS Naturals, Sequences

CONSTANTS Channels,          \* RX buffers, one per UDP port of the range
          OutOfRange,        \* a destination port outside the UDP range
          BUFFER_RX_LENGTH,  \* controller_inst.BUFFER_RX_LENGTH
          Pkts,              \* the Packet_cfg values the test sends
          NONE,
          MaxSent,           \* bound on send_packet_to_dut calls
          MaxOutstanding     \* most packets a test sends to one channel
                             \* before it checks them

ASSUME OutOfRange \notin Channels

VARIABLES ring,      \* per channel: head/tail/full/empty of the descriptor
          shmem,     \* per channel: the packet record held by each slot
          popped,    \* per channel: the popped bit of the descriptor
          isr,       \* ADDR_ISR0
          ier,       \* ADDR_IER0
          gie,       \* ADDR_GIE
          wire,      \* frames sent on sfp0 rx, not yet taken by the DUT
          pc,        \* where check_buffer_rx is, "idle" between calls
          cur,       \* its buffer_rx_id argument
          chk,       \* its check_int_status argument
          tailIdx,   \* circbuff_rx_tail_index
          got,       \* read_bytes of check_buffer_rx_slot
          expected,  \* per channel: packets sent and not yet checked
          nSent,     \* send_packet_to_dut calls so far
          consumed   \* per channel: packets released by a pop edge

vars == <<ring, shmem, popped, isr, ier, gie, wire, pc, cur, chk, tailIdx, got,
          expected, nSent, consumed>>

HW == INSTANCE HwRing WITH BUFFER_LENGTH <- BUFFER_RX_LENGTH

\* The packets held by channel ch, oldest first.
Queued(ch) == [k \in 1 .. HW!Occupancy(ring[ch]) |->
                 shmem[ch][HW!WindowIdx(ring[ch])[k]]]

RxFifo == INSTANCE BoundedFifo WITH Queues <- Channels,
                                   Capacity <- BUFFER_RX_LENGTH,
                                   Data <- Pkts,
                                   q <- [ch \in Channels |-> Queued(ch)],
                                   out <- consumed

PopSteps == {"pop0", "pop1", "pop2"}

\* Mutant: the pulse written 1,0,1 instead of 0,1,0.
PulseValue_swapped == [pop0 |-> 1, pop1 |-> 0, pop2 |-> 1]

\* The three set_buffer_rx_popped calls of check_buffer_rx.
PulseValue == [pop0 |-> 0, pop1 |-> 1, pop2 |-> 0]

NextPopStep == [pop0 |-> "pop1", pop1 |-> "pop2", pop2 |-> "idle"]

\* The interrupt line: level-triggered, the status bit gated by both
\* enables.
IrqLine == isr = 1 /\ ier = 1 /\ gie = 1

\* State after TB.init and the writes of TB.config before "Enable
\* interrupts"; its RES pulse touches no RX state.
Init ==
    /\ ring = [ch \in Channels |-> HW!ResetRing]
    /\ shmem = [ch \in Channels |-> [i \in HW!Index |-> NONE]]
    /\ popped = [ch \in Channels |-> 0]
    /\ isr = 0
    /\ ier = 0
    /\ gie = 0
    /\ wire = << >>
    /\ pc = "ier"
    /\ cur \in Channels
    /\ chk = FALSE
    /\ tailIdx = 0
    /\ got = NONE
    /\ expected = [ch \in Channels |-> << >>]
    /\ nSent = 0
    /\ consumed = [ch \in Channels |-> << >>]

-----------------------------------------------------------------------------
(* Testbench actions.                                                      *)

\* TB.config, "Enable interrupts": write 1 to ADDR_IER0, then to ADDR_GIE.
enable_ier ==
    /\ pc = "ier"
    /\ ier' = 1
    /\ pc' = "gie"
    /\ UNCHANGED <<ring, shmem, popped, isr, gie, wire, cur, chk, tailIdx,
                   got, expected, nSent, consumed>>

enable_gie ==
    /\ pc = "gie"
    /\ gie' = 1
    /\ pc' = "idle"
    /\ UNCHANGED <<ring, shmem, popped, isr, ier, wire, cur, chk, tailIdx,
                   got, expected, nSent, consumed>>

\* send_packet_to_dut: queue a frame for the SFP source.  A test only
\* waits for packets sent to a port of the range.
send_packet_to_dut(dst, p) ==
    /\ pc = "idle"
    /\ nSent < MaxSent
    /\ dst \in Channels => Len(expected[dst]) < MaxOutstanding
    /\ nSent' = nSent + 1
    /\ wire' = Append(wire, <<dst, p>>)
    /\ expected' = IF dst \in Channels
                     THEN [expected EXCEPT ![dst] = Append(@, p)]
                     ELSE expected
    /\ UNCHANGED <<ring, shmem, popped, isr, ier, gie, pc, cur, chk, tailIdx,
                   got, consumed>>

\* Mutant: a check of a channel the test sent nothing to (a wrong
\* buffer_rx_id, or a port the filter drops).
check_buffer_rx_any(ch, c) ==
    /\ pc = "idle"
    /\ pc' = "poll"
    /\ cur' = ch
    /\ chk' = c
    /\ UNCHANGED <<ring, shmem, popped, isr, ier, gie, wire, tailIdx, got, expected,
                   nSent, consumed>>

\* check_buffer_rx(packet_cfg, buffer_rx_id, check_int_status) is called
\* for a channel the test has sent a packet to.
check_buffer_rx(ch, c) ==
    /\ pc = "idle"
    /\ expected[ch] /= << >>
    /\ pc' = "poll"
    /\ cur' = ch
    /\ chk' = c
    /\ UNCHANGED <<ring, shmem, popped, isr, ier, gie, wire, tailIdx, got, expected,
                   nSent, consumed>>

\* The while loop on the empty bit: it re-reads the descriptor until the
\* bit is clear; the iterations that read 1 change nothing.
poll_empty ==
    /\ pc = "poll"
    /\ ~ring[cur].empty
    /\ pc' = IF chk THEN "chkint" ELSE "readtail"
    /\ UNCHANGED <<ring, shmem, popped, isr, ier, gie, wire, cur, chk, tailIdx, got,
                   expected, nSent, consumed>>

\* check_int_status(1): reads buffer_rx_pushed_interr_o.
check_int_status ==
    /\ pc = "chkint"
    /\ pc' = "readtail"
    /\ UNCHANGED <<ring, shmem, popped, isr, ier, gie, wire, cur, chk, tailIdx, got,
                   expected, nSent, consumed>>

\* Mutant: the index field decoded at BUFFER_HEAD_OFFSET.
read_tail_head ==
    /\ pc = "readtail"
    /\ tailIdx' = ring[cur].head
    /\ pc' = "readslot"
    /\ UNCHANGED <<ring, shmem, popped, isr, ier, gie, wire, cur, chk, got,
                   expected, nSent, consumed>>

\* get_buffer_rx_param(buffer_rx_id, BUFFER_TAIL_OFFSET).
read_tail ==
    /\ pc = "readtail"
    /\ tailIdx' = ring[cur].tail
    /\ pc' = "readslot"
    /\ UNCHANGED <<ring, shmem, popped, isr, ier, gie, wire, cur, chk, got,
                   expected, nSent, consumed>>

\* check_buffer_rx_slot: read the record at the tail slot.
check_buffer_rx_slot ==
    /\ pc = "readslot"
    /\ got' = shmem[cur][tailIdx]
    /\ pc' = "ack"
    /\ UNCHANGED <<ring, shmem, popped, isr, ier, gie, wire, cur, chk, tailIdx,
                   expected, nSent, consumed>>

\* Mutant: the acknowledgement left out of check_buffer_rx.
deassert_interrupt_noop ==
    /\ pc = "ack"
    /\ pc' = "pop0"
    /\ UNCHANGED <<ring, shmem, popped, isr, ier, gie, wire, cur, chk,
                   tailIdx, got, expected, nSent, consumed>>

\* deassert_interrupt: write 0 onto ISR.
deassert_interrupt ==
    /\ pc = "ack"
    /\ isr' = 0
    /\ pc' = "pop0"
    /\ UNCHANGED <<ring, shmem, popped, ier, gie, wire, cur, chk, tailIdx, got,
                   expected, nSent, consumed>>

\* The hardware pops channel ch on a rising edge of its popped bit.
HwPoppedEdge(ch, v) == popped[ch] = 0 /\ v = 1

\* set_buffer_rx_popped(buffer_rx_id, v): replace_bits on the descriptor
\* read back and write it.  Only the software-owned bits of the written
\* word take effect; the last of the three calls ends check_buffer_rx.
set_buffer_rx_popped ==
    /\ pc \in PopSteps
    /\ LET v == PulseValue[pc]
           edge == HwPoppedEdge(cur, v)
       IN /\ popped' = [popped EXCEPT ![cur] = v]
          /\ ring' = IF edge THEN [ring EXCEPT ![cur] = HW!HwPop(@)] ELSE ring
          /\ consumed' = IF edge /\ ~ring[cur].empty
                           THEN [consumed EXCEPT ![cur] = Append(@, got)]
                           ELSE consumed
    /\ pc' = NextPopStep[pc]
    /\ IF pc = "pop2"
         THEN expected' = [expected EXCEPT ![cur] = Tail(@)]
         ELSE UNCHANGED expected
    /\ UNCHANGED <<shmem, isr, ier, gie, wire, cur, chk, tailIdx, got, nSent>>

-----------------------------------------------------------------------------
(* Hardware action.                                                        *)

\* The DUT takes the next frame: the UDP port filter drops it when its port
\* is outside the range; otherwise it is written to the slot at head_index
\* and pushed, raising the interrupt, unless the buffer is full, in which
\* case it is dropped.
HwReceiveFrame ==
    /\ wire /= << >>
    /\ LET dst == Head(wire)[1]
           p   == Head(wire)[2]
       IN IF dst \in Channels /\ ~ring[dst].full
            THEN /\ shmem' = [shmem EXCEPT ![dst][ring[dst].head] = p]
                 /\ ring' = [ring EXCEPT ![dst] = HW!HwPush(@)]
                 /\ isr' = 1
            ELSE UNCHANGED <<shmem, ring, isr>>
    /\ wire' = Tail(wire)
    /\ UNCHANGED <<popped, ier, gie, pc, cur, chk, tailIdx, got, expected,
                   nSent, consumed>>

-----------------------------------------------------------------------------

Next ==
    \/ enable_ier
    \/ enable_gie
    \/ \E dst \in Channels \cup {OutOfRange}, p \in Pkts :
          send_packet_to_dut(dst, p)
    \/ \E ch \in Channels, c \in BOOLEAN : check_buffer_rx(ch, c)
    \/ poll_empty
    \/ check_int_status
    \/ read_tail
    \/ check_buffer_rx_slot
    \/ deassert_interrupt
    \/ set_buffer_rx_popped
    \/ HwReceiveFrame

\* The testbench coroutine, in TB.config and once inside check_buffer_rx,
\* keeps running (each await returns) and the DUT keeps taking frames off
\* the wire.
\* Sending and starting a check are the test's choice and are not fair.
Fairness ==
    /\ WF_vars(enable_ier) /\ WF_vars(enable_gie)
    /\ WF_vars(poll_empty) /\ WF_vars(check_int_status) /\ WF_vars(read_tail)
    /\ WF_vars(check_buffer_rx_slot) /\ WF_vars(deassert_interrupt)
    /\ WF_vars(set_buffer_rx_popped)
    /\ WF_vars(HwReceiveFrame)

Spec == Init /\ [][Next]_vars /\ Fairness

-----------------------------------------------------------------------------

(* Every variable has its type; in particular the tail index the TB reads *)
(* and the hardware indices stay inside the BUFFER_RX_LENGTH slots.       *)
TypeOK ==
    /\ ring \in [Channels -> HW!Ring]
    /\ shmem \in [Channels -> [HW!Index -> Pkts \cup {NONE}]]
    /\ popped \in [Channels -> {0, 1}]
    /\ isr \in {0, 1} /\ ier \in {0, 1} /\ gie \in {0, 1}
    /\ wire \in Seq((Channels \cup {OutOfRange}) \X Pkts)
    /\ pc \in {"ier", "gie", "idle", "poll", "chkint", "readtail", "readslot", "ack"}
              \cup PopSteps
    /\ cur \in Channels
    /\ chk \in BOOLEAN
    /\ tailIdx \in HW!Index
    /\ got \in Pkts \cup {NONE}
    /\ expected \in [Channels -> Seq(Pkts)]
    /\ nSent \in 0 .. MaxSent
    /\ consumed \in [Channels -> Seq(Pkts)]

(* The assertion of check_buffer_rx_slot (read_bytes == expected_value)   *)
(* holds: once check_buffer_rx has read the slot, it holds the oldest     *)
(* packet the test sent to that channel and has not checked yet, however  *)
(* the DUT's pushes on this and other channels interleave with the        *)
(* separate reads of empty, tail_index and the slot.                      *)
ReadMatchesExpected ==
    pc \in {"ack"} \cup PopSteps => got = Head(expected[cur])

(* Each RX channel, seen through its descriptor and shared memory, is a   *)
(* bounded FIFO: the pop edge of every check_buffer_rx releases exactly   *)
(* the packet that check read, and releases it once.                      *)
RxImplementsFifo == RxFifo!Spec

(* check_buffer_rx returns: its while loop on the empty bit (no timeout) *)
(* ends and the pop pulse completes.  This needs every checked packet to  *)
(* have reached the ring and to still be there: the test checks only     *)
(* channels it sent to, sends no more than the ring holds before it      *)
(* checks, and every earlier check popped exactly one slot.              *)
PollReturns == pc = "poll" ~> pc = "idle"

(* The assertion check_int_status(1) of check_buffer_rx: when the test    *)
(* finds data in a channel and asks, the interrupt line is asserted.      *)
IrqAssertedWhenDataFound == pc = "chkint" /\ chk => IrqLine

(* No spurious interrupt (spec 4.3, 4.4): while the line is asserted some *)
(* channel holds a packet.  check_buffer_rx writes 0 to the ISR before   *)
(* its pop pulse, so a push the pop may consume is either acknowledged   *)
(* already or leaves a packet behind; the DUT's pushes race both writes. *)
NoSpuriousInterrupt == IrqLine => \E ch \in Channels : ~ring[ch].empty

=============================================================================
