------------------------------ MODULE SlotCheck ------------------------------
(***************************************************************************)
(* The packet record in shared memory and the read-back check of           *)
(* check_buffer_rx_slot (test_fpga_core.py).  The record is built byte by  *)
(* byte as the TB builds expected_value (and place_packet_at_mem its       *)
(* ddr_packet): payload_size as 8 little-endian bytes, the source IP as    *)
(* ip_str_to_ip_bytes makes it, the source port, the destination IP and    *)
(* port, then the payload bytes x % 256.  The DUT writes each received     *)
(* record into the slot at head_index and, from spec 4.4 / 6, truncates it *)
(* to BUFFER_ELEM_MAX_SIZE bytes.  The TB reads payload_size + 5*8 bytes   *)
(* from the slot at tail_index, whatever lies past the slot included, and  *)
(* asserts equality when the record is shorter than the slot, inequality   *)
(* otherwise.  The test sends a packet and checks it before the next, so   *)
(* at most one record is outstanding.                                      *)
(***************************************************************************)
EXTENDS Naturals, SequencesExt, ByteCodec

CONSTANTS BUFFER_ELEM_MAX_SIZE,  \* slot size in bytes
          BUFFER_RX_LENGTH,      \* slots of the channel's ring
          PayloadSizes,          \* payload_size values the test may send
          SRC_IP, DST_IP,        \* IPv4 addresses, as their four octets
          SRC_UDP, DST_UDP,      \* UDP ports
          MaxPackets             \* bound on packets sent

VARIABLES mem,     \* the AxiRam bytes of the ring and of the next buffer
          ring,    \* head/tail/full/empty of the RX descriptor
          pc,      \* "idle", "dut" (frame on the wire), "check"
          size,    \* payload_size of the packet in flight
          nSent    \* packets sent so far

vars == <<mem, ring, pc, size, nSent>>

HW == INSTANCE HwRing WITH BUFFER_LENGTH <- BUFFER_RX_LENGTH

\* The channel's BUFFER_SIZE bytes, then the first slot of the next buffer.
Addr == 0 .. (BUFFER_RX_LENGTH + 1) * BUFFER_ELEM_MAX_SIZE - 1

Byte == 0 .. 255

\* expected_value of check_buffer_rx_slot, ddr_packet of place_packet_at_mem.
Record(n) ==
    ToBytes8(n) \o ip_str_to_ip_bytes(SRC_IP) \o ToBytes8(SRC_UDP)
        \o ip_str_to_ip_bytes(DST_IP) \o ToBytes8(DST_UDP) \o Payload(n)

\* Mutant: the slot offset dropped from packet_addr.
SlotAddr_first(slot) == 0

\* packet_addr relative to the channel's buffer: buffer_slot * BUFFER_ELEM_MAX_SIZE.
SlotAddr(slot) == slot * BUFFER_ELEM_MAX_SIZE

\* axi_ram.read(packet_addr, payload_size + 5*8).
ReadBack(slot, n) == [i \in 1 .. n + 5 * 8 |-> mem[SlotAddr(slot) + i - 1]]

Init ==
    /\ mem = [a \in Addr |-> 0]
    /\ ring = HW!ResetRing
    /\ pc = "idle"
    /\ size = 0
    /\ nSent = 0

\* send_packet_to_dut(packet_cfg) with the given payload_size.
send_packet_to_dut(n) ==
    /\ pc = "idle"
    /\ nSent < MaxPackets
    /\ pc' = "dut"
    /\ size' = n
    /\ nSent' = nSent + 1
    /\ UNCHANGED <<mem, ring>>

\* The DUT writes the record into the slot at head, at most
\* BUFFER_ELEM_MAX_SIZE bytes of it, and pushes.
HwWriteRecord ==
    /\ pc = "dut"
    /\ LET r == Record(size)
           base == ring.head * BUFFER_ELEM_MAX_SIZE
       IN mem' = [a \in Addr |->
                    IF a >= base /\ a < base + BUFFER_ELEM_MAX_SIZE /\ a - base < Len(r)
                      THEN r[a - base + 1] ELSE mem[a]]
    /\ ring' = HW!HwPush(ring)
    /\ pc' = "check"
    /\ UNCHANGED <<size, nSent>>

\* check_buffer_rx: the slot at tail is read and asserted on
\* (check_buffer_rx_slot), then popped.
check_buffer_rx ==
    /\ pc = "check"
    /\ ring' = HW!HwPop(ring)
    /\ pc' = "idle"
    /\ UNCHANGED <<mem, size, nSent>>

Next ==
    \/ \E n \in PayloadSizes : send_packet_to_dut(n)
    \/ HwWriteRecord
    \/ check_buffer_rx

Spec == Init /\ [][Next]_vars

-----------------------------------------------------------------------------

\* What check_buffer_rx_slot reads for the packet being checked.
Read == ReadBack(ring.tail, size)

(* The header of expected_value for the packet being checked, read as    *)
(* the spec's little-endian record fields, gives back what it encodes:    *)
(* payload_size and the ports as u64, each IPv4 address as the number of *)
(* its dotted form (compared in 16-bit halves, TLC's integers being       *)
(* 32-bit) followed by 4 bytes of padding.  FittingRecordReadsBack        *)
(* compares the DUT's record with this same encoding, so only this check  *)
(* ties the TB's byte conversions to the layout.                          *)
RecordHeaderEncoding ==
    LET r == Record(size)
        Field(at, n) == SubSeq(r, at, at + n - 1)
        IpField(at, ip) ==
            /\ LeValue(Field(at, 2)) = AddrValue(SubSeq(ip, 3, 4))
            /\ LeValue(Field(at + 2, 2)) = AddrValue(SubSeq(ip, 1, 2))
            /\ LeValue(Field(at + 4, 4)) = 0
    IN /\ LeValue(Field(1, 8)) = size
       /\ IpField(9, SRC_IP)
       /\ LeValue(Field(17, 8)) = SRC_UDP
       /\ IpField(25, DST_IP)
       /\ LeValue(Field(33, 8)) = DST_UDP

(* Every byte of shared memory is a byte: the record the TB and the DUT    *)
(* lay out holds only values 0..255, and the ring stays in its slots.      *)
TypeOK ==
    /\ mem \in [Addr -> Byte]
    /\ ring \in HW!Ring
    /\ pc \in {"idle", "dut", "check"}
    /\ size \in PayloadSizes \cup {0}
    /\ nSent \in 0 .. MaxPackets

(* A record that fits in its slot (header and payload no longer than       *)
(* BUFFER_ELEM_MAX_SIZE) reads back exactly as the TB built it, however    *)
(* the earlier records of other sizes have filled the ring and wrapped.    *)
FittingRecordReadsBack ==
    pc = "check" /\ Len(Record(size)) <= BUFFER_ELEM_MAX_SIZE
        => Read = Record(size)

(* The assertion of check_buffer_rx_slot holds: read_bytes equals         *)
(* expected_value when payload_size + 5*8 < BUFFER_ELEM_MAX_SIZE and      *)
(* differs from it otherwise.  It fails at an exact fit, and also for a   *)
(* record one byte too long whose read runs into a neighbouring slot      *)
(* holding a stale byte equal to the one that was cut.                     *)
SlotAssertionHolds ==
    pc = "check" =>
        IF size + 5 * 8 < BUFFER_ELEM_MAX_SIZE
          THEN Read = Record(size)
          ELSE Read /= Record(size)

=============================================================================
