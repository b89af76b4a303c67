------------------------------ MODULE TxChannel ------------------------------
(***************************************************************************)
(* The transmit path of test_fpga_core.py.  place_packet_at_mem reads the  *)
(* TX descriptor registers (head, then tail, full, empty: separate AXI-    *)
(* Lite reads), and if full was 0 writes the record into the slot at head  *)
(* and pulses ADDR_BUFTX_PUSHED 0,1,0; if full was 1 it does nothing.      *)
(* check_tx_packet_at_sfp takes the next frame from the SFP sink; if it    *)
(* is a broadcast (the DUT's ARP request) it answers with reply_arp and    *)
(* takes one more frame; then it asserts the UDP frame matches the         *)
(* packet.  The DUT concurrently takes records at the tail, resolves the   *)
(* destination by ARP once, and sends them; that RTL is modelled from the  *)
(* spec.  The tail and empty reads of place_packet_at_mem are only         *)
(* printed and are left out.                                               *)
(***************************************************************************)
EXTENDS Naturals, Sequences

CONSTANTS BUFFER_TX_LENGTH,
          Pkts,            \* the Packet_cfg values the test places
          ARP,             \* an ARP request frame (broadcast destination)
          NONE,
          MaxPlaced,       \* bound on place_packet_at_mem calls
          MaxOutstanding   \* most packets placed before they are checked

ASSUME ARP \notin Pkts

VARIABLES ring,        \* TX head/tail/full/empty
          shmem,       \* the record held by each TX slot
          pushedReg,   \* ADDR_BUFTX_PUSHED_0_Y_O
          txFrame,     \* the record the DUT has taken and not yet sent
          arpCached,   \* the DUT knows the destination MAC
          arpAsked,    \* the DUT has sent its ARP request
          arpReply,    \* the TB's ARP response is on its way to the DUT
          sfp,         \* frames on sfp0 tx not yet received by the sink
          pc,          \* where the TB is, "idle" between calls
          cfg,         \* packet_cfg of the current place call
          headIdx,     \* circbuff_tx_head_index
          frame,       \* rx_pkt of check_tx_packet_at_sfp
          expected,    \* packets placed and not yet checked
          nPlaced,     \* place_packet_at_mem calls so far
          taken        \* every record the DUT has taken, in order

vars == <<ring, shmem, pushedReg, txFrame, arpCached, arpAsked, arpReply,
          sfp, pc, cfg, headIdx, frame, expected, nPlaced, taken>>

HW == INSTANCE HwRing WITH BUFFER_LENGTH <- BUFFER_TX_LENGTH

Queued == [k \in 1 .. HW!Occupancy(ring) |-> shmem[HW!WindowIdx(ring)[k]]]

TxFifo == INSTANCE BoundedFifo WITH Queues <- {"tx"},
                                     Capacity <- BUFFER_TX_LENGTH,
                                     Data <- Pkts,
                                     q <- [n \in {"tx"} |-> Queued],
                                     out <- [n \in {"tx"} |-> taken]

PushSteps == {"push0", "push1", "push2"}

\* Mutant: the pulse written 1,0,1 instead of 0,1,0.
PushValue_swapped == [push0 |-> 1, push1 |-> 0, push2 |-> 1]

\* The three writes of notify_pl_buffer_tx_push.
PushValue == [push0 |-> 0, push1 |-> 1, push2 |-> 0]

NextPushStep == [push0 |-> "push1", push1 |-> "push2", push2 |-> "idle"]

\* State after TB.init and TB.config: ARP cache empty.
Init ==
    /\ ring = HW!ResetRing
    /\ shmem = [i \in HW!Index |-> NONE]
    /\ pushedReg = 0
    /\ txFrame = NONE
    /\ arpCached = FALSE
    /\ arpAsked = FALSE
    /\ arpReply = FALSE
    /\ sfp = << >>
    /\ pc = "idle"
    /\ cfg = NONE
    /\ headIdx = 0
    /\ frame = NONE
    /\ expected = << >>
    /\ nPlaced = 0
    /\ taken = << >>

-----------------------------------------------------------------------------
(* Testbench actions.                                                      *)

\* place_packet_at_mem(packet_cfg) is called; the test will check for it.
place_packet_at_mem(p) ==
    /\ pc = "idle"
    /\ nPlaced < MaxPlaced
    /\ Len(expected) < MaxOutstanding
    /\ pc' = "rdhead"
    /\ cfg' = p
    /\ expected' = Append(expected, p)
    /\ nPlaced' = nPlaced + 1
    /\ UNCHANGED <<ring, shmem, pushedReg, txFrame, arpCached, arpAsked,
                   arpReply, sfp, headIdx, frame, taken>>

\* Mutant: the slot address computed from the tail register.
read_head_tail ==
    /\ pc = "rdhead"
    /\ headIdx' = ring.tail
    /\ pc' = "rdfull"
    /\ UNCHANGED <<ring, shmem, pushedReg, txFrame, arpCached, arpAsked,
                   arpReply, sfp, cfg, frame, expected, nPlaced, taken>>

\* Read ADDR_BUFTX_HEAD_0_N_I.
read_head ==
    /\ pc = "rdhead"
    /\ headIdx' = ring.head
    /\ pc' = "rdfull"
    /\ UNCHANGED <<ring, shmem, pushedReg, txFrame, arpCached, arpAsked,
                   arpReply, sfp, cfg, frame, expected, nPlaced, taken>>

\* Read ADDR_BUFTX_FULL_0_N_I; write the packet only if it read 0.
read_full ==
    /\ pc = "rdfull"
    /\ pc' = IF ring.full THEN "idle" ELSE "write"
    /\ UNCHANGED <<ring, shmem, pushedReg, txFrame, arpCached, arpAsked,
                   arpReply, sfp, cfg, headIdx, frame, expected, nPlaced,
                   taken>>

\* axi_ram.write(circbuff_tx_next_pack_addr, ddr_packet).
write_slot ==
    /\ pc = "write"
    /\ shmem' = [shmem EXCEPT ![headIdx] = cfg]
    /\ pc' = "push0"
    /\ UNCHANGED <<ring, pushedReg, txFrame, arpCached, arpAsked, arpReply,
                   sfp, cfg, headIdx, frame, expected, nPlaced, taken>>

\* notify_pl_buffer_tx_push: one write of 0, 1 or 0; the DUT pushes on
\* the rising edge.
notify_pl_buffer_tx_push ==
    /\ pc \in PushSteps
    /\ LET v == PushValue[pc]
       IN /\ pushedReg' = v
          /\ ring' = IF pushedReg = 0 /\ v = 1 THEN HW!HwPush(ring) ELSE ring
    /\ pc' = NextPushStep[pc]
    /\ UNCHANGED <<shmem, txFrame, arpCached, arpAsked, arpReply, sfp, cfg,
                   headIdx, frame, expected, nPlaced, taken>>

\* check_tx_packet_at_sfp(packet_cfg) is called for a placed packet.
check_tx_packet_at_sfp ==
    /\ pc = "idle"
    /\ expected /= << >>
    /\ pc' = "recv"
    /\ UNCHANGED <<ring, shmem, pushedReg, txFrame, arpCached, arpAsked,
                   arpReply, sfp, cfg, headIdx, frame, expected, nPlaced,
                   taken>>

\* rx_frame = await sfp0_sink.recv(); a broadcast goes to reply_arp.
recv_frame ==
    /\ pc = "recv"
    /\ sfp /= << >>
    /\ frame' = Head(sfp)
    /\ sfp' = Tail(sfp)
    /\ pc' = IF Head(sfp) = ARP THEN "reply" ELSE "assert"
    /\ UNCHANGED <<ring, shmem, pushedReg, txFrame, arpCached, arpAsked,
                   arpReply, cfg, headIdx, expected, nPlaced, taken>>

\* Mutant: the broadcast frame is taken for the packet, no ARP reply.
reply_arp_skipped ==
    /\ pc = "reply"
    /\ pc' = "assert"
    /\ UNCHANGED <<ring, shmem, pushedReg, txFrame, arpCached, arpAsked,
                   arpReply, sfp, cfg, headIdx, frame, expected, nPlaced,
                   taken>>

\* reply_arp, then the second recv for the actual payload.
reply_arp ==
    /\ pc = "reply"
    /\ arpReply' = TRUE
    /\ pc' = "recv2"
    /\ UNCHANGED <<ring, shmem, pushedReg, txFrame, arpCached, arpAsked,
                   sfp, cfg, headIdx, frame, expected, nPlaced, taken>>

recv_after_arp ==
    /\ pc = "recv2"
    /\ sfp /= << >>
    /\ frame' = Head(sfp)
    /\ sfp' = Tail(sfp)
    /\ pc' = "assert"
    /\ UNCHANGED <<ring, shmem, pushedReg, txFrame, arpCached, arpAsked,
                   arpReply, cfg, headIdx, expected, nPlaced, taken>>

\* The field asserts of check_tx_packet_at_sfp; the call returns.
assert_packet ==
    /\ pc = "assert"
    /\ pc' = "idle"
    /\ expected' = Tail(expected)
    /\ frame' = NONE
    /\ UNCHANGED <<ring, shmem, pushedReg, txFrame, arpCached, arpAsked,
                   arpReply, sfp, cfg, headIdx, nPlaced, taken>>

-----------------------------------------------------------------------------
(* Hardware actions.                                                       *)

\* The DMA reads the record at the tail and pops it.
HwTakeRecord ==
    /\ ~ring.empty
    /\ txFrame = NONE
    /\ txFrame' = shmem[ring.tail]
    /\ ring' = HW!HwPop(ring)
    /\ taken' = Append(taken, shmem[ring.tail])
    /\ UNCHANGED <<shmem, pushedReg, arpCached, arpAsked, arpReply, sfp, pc,
                   cfg, headIdx, frame, expected, nPlaced>>

\* The destination is unknown: broadcast one ARP request.
HwSendArpRequest ==
    /\ txFrame /= NONE
    /\ ~arpCached
    /\ ~arpAsked
    /\ arpAsked' = TRUE
    /\ sfp' = Append(sfp, ARP)
    /\ UNCHANGED <<ring, shmem, pushedReg, txFrame, arpCached, arpReply, pc,
                   cfg, headIdx, frame, expected, nPlaced, taken>>

\* The ARP response from the TB fills the cache.
HwReceiveArpReply ==
    /\ arpReply
    /\ arpReply' = FALSE
    /\ arpCached' = TRUE
    /\ UNCHANGED <<ring, shmem, pushedReg, txFrame, arpAsked, sfp, pc, cfg,
                   headIdx, frame, expected, nPlaced, taken>>

\* The destination is known: the UDP frame goes out on sfp0 tx.
HwSendFrame ==
    /\ txFrame /= NONE
    /\ arpCached
    /\ sfp' = Append(sfp, txFrame)
    /\ txFrame' = NONE
    /\ UNCHANGED <<ring, shmem, pushedReg, arpCached, arpAsked, arpReply, pc,
                   cfg, headIdx, frame, expected, nPlaced, taken>>

-----------------------------------------------------------------------------

TbStep ==
    \/ read_head
    \/ read_full
    \/ write_slot
    \/ notify_pl_buffer_tx_push
    \/ recv_frame
    \/ reply_arp
    \/ recv_after_arp
    \/ assert_packet

HwStep ==
    \/ HwTakeRecord
    \/ HwSendArpRequest
    \/ HwReceiveArpReply
    \/ HwSendFrame

Next ==
    \/ \E p \in Pkts : place_packet_at_mem(p)
    \/ check_tx_packet_at_sfp
    \/ TbStep
    \/ HwStep

\* A call of the test coroutine, once started, keeps being scheduled, and
\* the clocked DUT keeps taking, resolving and sending.
Fairness ==
    /\ WF_vars(TbStep)
    /\ WF_vars(HwTakeRecord)
    /\ WF_vars(HwSendArpRequest)
    /\ WF_vars(HwReceiveArpReply)
    /\ WF_vars(HwSendFrame)

Spec == Init /\ [][Next]_vars /\ Fairness

-----------------------------------------------------------------------------

(* Every variable has its type; in particular the head index the TB reads *)
(* and the hardware indices stay inside the BUFFER_TX_LENGTH slots.       *)
TypeOK ==
    /\ ring \in HW!Ring
    /\ shmem \in [HW!Index -> Pkts \cup {NONE}]
    /\ pushedReg \in {0, 1}
    /\ txFrame \in Pkts \cup {NONE}
    /\ arpCached \in BOOLEAN /\ arpAsked \in BOOLEAN /\ arpReply \in BOOLEAN
    /\ sfp \in Seq(Pkts \cup {ARP})
    /\ pc \in {"idle", "rdhead", "rdfull", "write", "recv", "reply", "recv2",
               "assert"} \cup PushSteps
    /\ cfg \in Pkts \cup {NONE}
    /\ headIdx \in HW!Index
    /\ frame \in Pkts \cup {ARP, NONE}
    /\ expected \in Seq(Pkts)
    /\ nPlaced \in 0 .. MaxPlaced
    /\ taken \in Seq(Pkts)

(* The asserts of check_tx_packet_at_sfp hold: the frame it checks is the *)
(* UDP packet of the oldest placed and unchecked packet, although the     *)
(* DUT drains the ring while place_packet_at_mem reads head and full and  *)
(* the first frame out may be the DUT's ARP request.                      *)
ReceivedMatchesExpected == pc = "assert" => frame = Head(expected)

(* The TX ring, written by place_packet_at_mem and drained by the DUT, is *)
(* a bounded FIFO: no record is overwritten before the DUT has taken it,  *)
(* and the DUT takes them in the order they were pushed.                  *)
TxImplementsFifo == TxFifo!Spec

(* Every check_tx_packet_at_sfp call returns: the frame it waits for is   *)
(* sent, including when the DUT first has to resolve the destination.     *)
CheckReturns == (pc = "recv") ~> (pc = "idle")

=============================================================================
