# TLA+ models of the accnet_udpip host/DUT protocol

This directory holds the TLA+ models and TLC configurations for the
accnet_udpip repository. The Python sources under `src/` are cocotb
testbenches and host scripts. They drive a hardware UDP/IP offload engine
(the DUT) through two things:

- AXI-Lite control registers, whose RX descriptors are bit-packed;
- ring buffers in shared memory, whose head, tail, full and empty indices
  the RTL keeps.

The testbenches hold the host side of the protocol. The RTL (`rtl/*.v`) is
not part of the Python sources. Where a model needs the DUT's behaviour,
that behaviour is modelled from `spec.md` and marked `spec_modelled` in
`PROJECT.json`.

## 1. Inventory

### Components

| Component | Source | State it keeps | Operations |
|---|---|---|---|
| Circular buffer RTL (`circular_buffer.v`) | not under src/ (spec §4.1) | head, tail, full, empty | push edge, pop edge |
| Circular buffer testbench | `tb/circular_buffer/test_circular_buffer.py` | `buffer_data` (the element storage, kept by the TB), the RTL's outputs | `push_to_buffer`, `pop_from_buffer`, `run_test_circular_buffer` |
| RX descriptor codec | `tb/fpga_core_10g/test_fpga_core.py` 78-90, 178-218 | the 32-bit descriptor word | `get_buffer_rx_param`, `replace_bits`, `set_buffer_rx_popped`, `set_buffer_rx_opensocket` |
| RX channel consumer | `test_fpga_core.py` 193-203, 261-307 | per-channel ring and slots, ISR, popped bit | `send_packet_to_dut`, `check_buffer_rx`, `check_buffer_rx_slot`, `deassert_interrupt` |
| TX channel producer | `test_fpga_core.py` 316-399 | TX ring and slots, the pushed register, the DUT's ARP cache | `place_packet_at_mem`, `notify_pl_buffer_tx_push`, `check_tx_packet_at_sfp`, `reply_arp` |
| Config applier | `test_fpga_core.py` 137-162, 609-683 | shadow (`*_from_ps`) and active parameters, RES register, the transaction in flight | `config`, the RES pulse, `run_test_user_reset_rx/tx` |
| Interrupt controller | `test_fpga_core.py` 155-157, 193-195, 286-288 | ISR, IER, GIE | enable, `deassert_interrupt`, `check_int_status` |
| Slot read-back check | `test_fpga_core.py` 272-284 | - | the truncation check of `check_buffer_rx_slot` |
| ARP handshake | `test_fpga_core.py` 220-259, 371-399 | the DUT's ARP cache | `send_arp_to_dut`, `recv_arp_from_dut`, `reply_arp` |
| AXI-Lite register file test | `tb/ctrl_axi_regs/test_ctrl_axi_regs.py` | MAC registers | `write_all`, `read_all`, `dump_all` |
| Byte conversions | `test_fpga_core.py` 401-426 | - | `ip_str_to_ip_bytes`, `mac_str_to_bytes`, `Packet_cfg` |
| Host scripts | `utils/ws-basic-test.py`, `ws-send-arp.py`, `ws-send-packet.py` | a bound UDP socket and its queue; where the echo script is | bind, sniff for the board's ARP request and answer it, echo every datagram as `ack: ` + text; send one ARP request; send one datagram |

### How they interact

There is a single software context: one cocotb coroutine, in which each
`await` on an AXI-Lite transaction is a point where the clocked DUT runs.

- **RX.** A frame sent into SFP RX passes the UDP port filter, is written
  by DMA to the slot at the channel's head, and is pushed. The push raises
  the BUFRX_PUSH interrupt (ISR). `check_buffer_rx` then:
  1. polls the empty bit of the channel's descriptor;
  2. optionally asserts the interrupt line;
  3. reads the tail index, then the slot;
  4. writes 0 to the ISR;
  5. pulses `popped` 0,1,0. Each write is a read-modify-write through
     `replace_bits`. The rising edge pops the ring in hardware.
- **TX.** `place_packet_at_mem` reads the TX head register, then the full
  register. If full was 0, it writes the record at the head slot and pulses
  `pushed` 0,1,0. If full was 1, it does nothing. The DUT drains the tail,
  asks for the destination by ARP once, and sends the frame.
  `check_tx_packet_at_sfp` answers one ARP request and asserts the frame.
- **Config.** `config` writes each parameter register into hardware shadow
  storage. It then pulses RES 0,1,0. The hardware copies the shadow into
  the active parameters, but only once the transaction in flight completes.

- **Host scripts and board.** On a real link the board resolves the host
  by ARP before its first datagram. `ws-basic-test` binds its socket, then
  sniffs until it sees a request from the board and answers it once. After
  that it loops forever: it receives a datagram, decodes it and sends back
  `ack: ` followed by the text. `ws-send-arp` and `ws-send-packet` each send
  one frame to the board. The board's ARP reply to `ws-send-arp` also
  reaches `ws-basic-test`'s filter.

### Hard behaviours

- The TB's steps interleave with the DUT's pushes and pops. The empty
  check, the tail read and the slot read are separate transactions, as are
  the head and full reads on TX.
- The interrupt is shared, and it is acknowledged before the pop. When
  events coalesce, one acknowledgement covers two pushes.
- A pulse is three writes. A missed or doubled rising edge makes the TB's
  indices and the hardware's disagree.
- Overflow is silent on both sides. The DUT drops RX frames when full, and
  `place_packet_at_mem` skips TX packets when full. Neither surfaces an
  error, so the test hangs or asserts later.
- Config apply is deferred until no transaction is in flight. The reset
  tests assert on the timing of that deferral.
- The echo script's progress depends on seeing an ARP request that the board
  sends only while its ARP cache is empty. Start order, restarts and the
  host's own ARP replies decide whether it ever does.
- Bit packing: `replace_bits` emulates Python's unbounded `~`, and
  `get_buffer_rx_param` hard-codes a 5-bit index width.

### Correctness properties per component

- Circular buffer: the TB's list and the RTL's flags describe the same
  occupied window. Push/pop is a bounded FIFO that ignores a push while full
  and a pop while empty.
- RX: every slot read returns the oldest unchecked packet for the channel.
  Each pop edge releases exactly the packet just read.
- TX: no record is overwritten before the DUT takes it, and frames go out
  in push order. Every check call returns, across the ARP handshake.
- Descriptor: writes change only their own field. Every read returns the
  field's last value.
- Interrupt: a consumer that finds data finds the interrupt asserted. This
  does not hold; see finding 1. The converse holds: the line is never
  asserted with every ring empty (`NoSpuriousInterrupt`).
- Config: the active configuration never changes mid-transaction. After
  the transaction it equals the shadow.
- Slot check: a record that fits in the slot reads back equal.
- Host echo: the board's ARP request is answered, even when the board's
  reply to `ws-send-arp` makes the script miss one. Every datagram is
  answered, and none waits at the socket forever. The last does not hold;
  see finding 5.

## 2. Plan

The order puts the most important behaviour first.

1. `HwRing` (operators) and `BoundedFifo` (the abstract promise of every
   ring: a bounded FIFO that drops on overflow). **Done.**
2. `CircularBuffer`: the circular-buffer TB over `HwRing`. It refines
   `BoundedFifo`. **Done.**
3. `RxChannel`: two RX channels plus an out-of-range port, the DUT
   producer, the interrupt, and `check_buffer_rx` step by step. It refines
   `BoundedFifo` per channel, and its unbounded empty poll returns under
   fairness (`PollReturns`). **Done.**
4. `DescriptorRegister`: the field layout, `replace_bits` and
   `get_buffer_rx_param` as operators, inside the register state machine.
   The read-modify-write of `set_buffer_rx_param` is a read step and a
   write step, and the hardware may update its own fields in between.
   **Done.**
5. `TxChannel`: `place_packet_at_mem`, the push pulse, the DUT drain with
   ARP, and `check_tx_packet_at_sfp`. It refines `BoundedFifo`. **Done.**
6. `ConfigApplier`: `config`, the RES pulse and the deferred commit, with
   the user-reset tests. Properties: the assertions at lines 638, 642 and
   681, the atomic commit, and the return of each test under fairness
   (`ResetTestReturns`). **Done.**
7. `SlotCheck`: the read-back assertion of `check_buffer_rx_slot` against
   a DUT that truncates records at `BUFFER_ELEM_MAX_SIZE`. This is a pure
   operator over bounded sizes; the strict `<` at line 281 is the boundary
   to examine. **Done**, as a byte-level state machine rather than a pure
   operator, because the bytes past a slot matter. The byte conversions
   (`ByteCodec`) are checked against little-endian and address readings
   of the record header (`RecordHeaderEncoding`).
8. `HostEcho`: the three host scripts of `src/utils` against an abstract
   board over a lossy link. **Done.**
9. `Driver`: composes `RxChannel`, `TxChannel` and `ConfigApplier` on one
   coroutine and one interrupt line. It will check that config commits are
   deferred by RX and TX traffic alike, and that the RX and TX pulses never
   disturb each other's descriptor fields. **Not done:** no test of
   `test_fpga_core.py` mixes RX and TX traffic, or traffic of one kind with
   a config change other than the user-reset tests that `ConfigApplier`
   already covers. A composition would check interleavings the code never
   produces.
10. `ArpHandshake`: the DUT's ARP request/retry against
   `check_tx_packet_at_sfp`'s single reply. **Not done:** neither the spec
   nor the Python sources state the DUT's retry timing. In simulation the
   testbench answers the request at once, so no retry arises.

## 3. Modules and correspondence to code

### `HwRing` (spec_modelled)
- `ResetRing`, `HwPush` and `HwPop` are the RTL ring under spec §4.1: the
  index advances `(i+1) % BUFFER_LENGTH`, and push-while-full and
  pop-while-empty are no-ops.
- `Occupancy` and `WindowIdx` give the occupied slots, oldest first.

### `BoundedFifo` (abstract)
- One queue per name in `Queues`.
- `Put` appends, or drops when full.
- `Take` moves the head to `out`.

### `CircularBuffer`
- Variables: `ring` is the RTL's outputs; `buffer_data`, `elem_read` and
  `popLog` are the TB's list, local and log lines.
- `push_to_buffer` and `pop_from_buffer` are each one action. The
  coroutine, together with the clock edge inside the call, makes each call
  atomic with respect to the RTL.
- The refinement mapping takes the queue to the TB list read along the
  window, and `out` to the popped log.

### `RxChannel`
Variables: `ring`, `shmem`, `popped`, `isr`, `ier`, `gie` and `wire`
(hardware and bus), plus the locals and arguments of `check_buffer_rx`: `pc`, `cur`, `chk`,
`tailIdx` and `got`.

`Init` is the state after `TB.init` and the config writes before "Enable
interrupts". `enable_ier` and `enable_gie` are the two writes of lines
156-157. Only then does the test send or check anything. The interrupt
controller is modelled from spec §4.3. `HwReceiveFrame` sets ISR on every
push, and the line `check_int_status` reads is `IrqLine`: ISR gated by
IER and GIE.

Each step of `check_buffer_rx` is one action, in code order:
`check_buffer_rx` → `poll_empty` → `check_int_status` → `read_tail` →
`check_buffer_rx_slot` → `deassert_interrupt` → `set_buffer_rx_popped`
(three times).

- `set_buffer_rx_popped` is modelled as one write per call. Only the
  software-owned bits of the written word take effect. The hardware fields
  of the descriptor are inputs (`_N_I`).
- The pop edge, `HwPoppedEdge`, pops the ring in the same step. The DUT
  samples the bit every clock and an AXI write spans several.
- `HwReceiveFrame` covers the DUT's whole RX path: the port filter, the
  DMA into the head slot, the push and the ISR.
- `expected` is the test's own knowledge: the packets it sent and has not
  checked yet.

### `DescriptorRegister`
- The layout constants of class TB, `get_buffer_rx_param` (after the
  read) and `replace_bits` are operators. They use the community `Bitwise`
  module.
- Python's `number & ~mask` on a non-negative number is written as
  `number - (number & mask)`, which is what it computes.
- `HwDriveField` models the RTL driving head, tail, full or empty.
- `set_buffer_rx_popped` and `set_buffer_rx_opensocket` are two steps:
  - `read_descriptor` (lines 197-200) keeps `original_value` in `rmw`;
  - `write_descriptor` (lines 201-203) writes back
    `replace_bits(original_value, ...)`.

  The hardware may drive its fields between the two steps.
- `HwRegisterWrite` is the register taking a write. It keeps the
  software-owned bits (popped, open_socket) of the written word and ignores
  the rest, as the spec's field ownership says.

### `TxChannel`
TB steps, in code order: `place_packet_at_mem` → `read_head` → `read_full`
→ `write_slot` → `notify_pl_buffer_tx_push` (three times), then
`check_tx_packet_at_sfp` → `recv_frame` → (`reply_arp` → `recv_after_arp`)
→ `assert_packet`.

The DUT side has four actions: `HwTakeRecord` (DMA from the tail, then
pop), `HwSendArpRequest`, `HwReceiveArpReply` and `HwSendFrame`. The tail
and empty reads of `place_packet_at_mem` feed only a print, so they are
not modelled.

### `ConfigApplier`
The TB is a script of steps, `Script(test)`: the steps of `TB.config`
(eight parameter writes, the live register writes, and the RES pulse
0,1,0), then the body of `run_test_user_reset_rx` or `_tx`. `k` is the
program counter and `Cur` the step under it. Each step is one action:
`config_write_param`, `write_res`, `start_transfer`, `wait_tvalid`,
`write_new_submask`, `wait_transfer_done`, `recv_first_frame`, `reply_arp`,
`other_step` (clock edges, ring reads, the TX slot write, the pop pulse)
and `assert_applied`. The last of these either ends the run or, up to
`MaxRounds`, starts the other test on the same DUT.

The controller is modelled from spec §4.6 (the RTL is not under src/):
- `shadow` holds the `*_from_ps` registers and `active` the parameters in
  use.
- A rising edge of RES commits `shadow` to `active` at once when idle, or
  sets `pending` while a transaction is `busy`.
- `HwEndTransaction` commits a pending request atomically (`HwCommitOnEnd`).
  A transaction ends only on a clock edge, so never inside a `wait_tvalid`
  loop iteration or between the last AXI-Lite write and the assert that
  follows it. A 100-byte payload lasts longer than one AXI-Lite write, so
  a TX transfer does not end during the write of 0 that completes the
  push pulse, before the tvalid loop is entered. The assumption matters
  only in the model's second `tx` round, whose ARP cache is already warm.
  The tests as written begin each test with `TB.init` and a cold cache,
  and the stalled ARP lookup holds tvalid.
- For TX, the transaction cannot end before the ARP reply is received.

### `SlotCheck`
Memory is a function from byte address to byte, for the ring of one
channel plus the next buffer's first slot. The TB builds the record as
`check_buffer_rx_slot` and `place_packet_at_mem` do, with the encoders of
module `ByteCodec`:
- `ToBytes8` is `to_bytes(8, 'little')`.
- `ip_str_to_ip_bytes` reverses the octets and pads them to 8 bytes.
- `Payload` is `x % 256`.

`HwWriteRecord` (spec §4.4) writes at most `BUFFER_ELEM_MAX_SIZE` bytes of
the record at `head` and pushes. `check_buffer_rx` reads
`payload_size + 40` bytes at `tail`, the bytes past the slot included
(`Read`), and then pops.

`ByteCodec` also holds the references `RecordHeaderEncoding` uses:
- `LeValue` reads a byte string as a little-endian number, as the spec's
  record fields are laid out.
- `AddrValue` reads an address's octets with the first most significant.

### `HostEcho`
`ws-basic-test.py` is the variable `pc` and its steps:
- `open_socket` (lines 26-28) and `start_sniff` (34-42).
- `HostReceive` delivers a frame to the host. While a capture is open
  (`pc = "sniff"`), an ARP frame from the board moves `pc` by `SniffNext`
  (lines 45-48). A request leads to `send_arp_response`. Anything else
  ends that `sniff(count=1)` call and leads to `resniff`. In `resniff` no
  capture is open, and a board frame landing then is missed.
  `sniff_again` (lines 43-44) opens the next capture. A datagram
  for `LOCAL_PORT` is appended to `sockQ` if the socket is bound and has
  room.
- `recvfrom` (lines 56-58) takes the head of `sockQ`. A text longer than
  `RECV_BUFSIZE` either raises, as on Windows, or is cut, as on Linux.
  `Decoded` gives the prefix exactly that many bytes long, or none when the
  cut splits a character, which is a `UnicodeDecodeError`. An exception
  ends the script (`pc = "ended"`) and closes the socket.
- `send_ack` (lines 64-67) sends `AckPrefix \o data` to `ReplyAddr`, the
  sender's port.
- `restart` models stopping the script and running it again. The socket's
  queue is lost.

`send_arp` is `ws-send-arp.py` and `send_packet` is `ws-send-packet.py`.
Text is a sequence of UTF-8 character widths.

The board and the link are not under src/ and are spec_modelled:
- The application sends up to `MaxMsgs` texts from `KRIA_PORT`.
- An ARP cache must be filled by an ARP reply before a datagram goes out.
  This mirrors the DUT's behaviour that `check_tx_packet_at_sfp` expects
  (test_fpga_core.py lines 348-354).
- The board makes up to `MaxArpTries` requests per datagram, each after the
  previous one went unanswered, then drops the datagram. Its retry timer
  runs for seconds, and one turn of the sniff loop takes far less. So no
  request is sent while the script is between two captures
  (`RetryOutlastsSniffGap`), though one sent earlier may land there.
  Without this assumption two requests can fall into the same gap, and
  `ArpHandshakeCompletes` fails.
- The board answers ARP requests.
- The link holds a set of frames delivered in any order, and may lose up
  to `MaxLoss` of them.
- `OsArpReply` says whether the host's own stack also answers the board's
  requests.

## 4. Runs

| Run | Cfg | Expect | What it shows |
|---|---|---|---|
| `circbuf` | `MC_CircularBuffer.cfg` | pass | Over all call sequences of up to 7 push/pop calls, the TB list and RTL flags agree and implement a bounded FIFO. |
| `rx` | `MC_RxChannel.cfg` | pass | With up to 2 packets outstanding per channel, every slot read returns the expected packet and each channel is a FIFO, under every interleaving with the DUT. Once config enables it, the interrupt line is asserted only while some ring holds a packet (`NoSpuriousInterrupt`): the ISR write before the pop pulse keeps it from outliving the data. With the acknowledgement left out (mutant `deassert_interrupt_noop`), or a doubled pop (mutant `PulseValue_swapped`), it does. Every `check_buffer_rx` call leaves its empty-poll loop and returns (`PollReturns`). The check runs without symmetry, since it includes a liveness property. |
| `rx_irq` | `MC_RxChannel_irq.cfg` | violation | `check_int_status(1)` fails when a second packet is pushed before the ISR write of the first. |
| `descriptor` | `MC_DescriptorRegister.cfg` | pass | The read-modify-writes preserve every other field, even when the hardware updated the descriptor between the read and the write-back (`RegisterEncodesFields`). The reads decode every flag and the head/tail values 0, 16 and 31 (`ReadsReturnFields`). |
| `tx` | `MC_TxChannel.cfg` | pass | With up to 2 packets outstanding, no TX record is overwritten and frames arrive in order. Every check call returns, across the ARP handshake. |
| `tx_burst` | `MC_TxChannel_burst.cfg` | violation | With more packets placed than the ring holds, one is silently skipped and `check_tx_packet_at_sfp` waits forever. |
| `config` | `MC_ConfigApplier.cfg` | pass | After `config` and either user-reset test, whatever the transfer's timing relative to the SNM and RES writes, the new mask is active at the final assert (lines 642, 681). There is at most one pending request, and only while busy. Under fairness, each test returns (`ResetTestReturns`). |
| `config_early` | `MC_ConfigApplier_early.cfg` | violation | The assert at line 638 fails when the transfer ends before the RES pulse. |
| `slot` | `MC_SlotCheck.cfg` | pass | A record that fits its slot reads back byte for byte as the TB builds it, across wraparound and records of other sizes. The header the TB builds decodes to the packet's size, addresses and ports as the spec's little-endian fields (`RecordHeaderEncoding`). The DUT's record is compared with this same encoding, so a wrong octet order in `ip_str_to_ip_bytes` shows only here. |
| `slot_exact` | `MC_SlotCheck_exact.cfg` | violation | The assertion of `check_buffer_rx_slot` fails for a record exactly the slot's size. |
| `echo` | `MC_HostEcho.cfg` | pass | The host's only ARP responder is `ws-basic-test`. The run has a lost frame, a restart, all three scripts and over-long texts. When the board starts asking for a datagram while the script sniffs, its ARP entry is filled unless a frame is lost from then on or the script is restarted (`ArpHandshakeCompletes`). This holds even when the board's reply to `ws-send-arp` ends one capture and the board's request lands before the next: the board's retry makes up for it. With a single try, TLC finds the handshake failing with nothing lost. If the `break` is taken on any ARP frame (mutant `SniffNext_exit`), the script leaves on the stray reply without answering. Every datagram is acked unless a frame was lost or the script died or was restarted (`DatagramAnswered`). |
| `echo_order` | `MC_HostEcho_order.cfg` | violation | On a host whose stack answers ARP itself, a script started after the board resolved the host sniffs forever while datagrams wait at its socket (`QueuedDatagramRead`). |

### Bounds and why they suffice

- Rings have 2 slots (3 for the circular-buffer TB, its own parameter).
  That is enough for wraparound, full, and the head == tail ambiguity.
- Two distinct packets tell a wrong slot from the right one.
- Two RX channels are enough for a push on the other channel to interleave
  with a check.
- `MaxSent` and `MaxPlaced` are 3 or 4, so the indices wrap at least once.
- `MaxOutstanding` is the test discipline: `run_test_udp_rx` and
  `run_test_udp_tx` send at most 32 (the ring size for a 5-bit index)
  before checking. The pass runs use the ring size; the burst run uses
  size + 1.
- The descriptor run drives head and tail to 0, 16 and 31:
  - 16 is the first value that needs the fifth bit;
  - 31 sets all five bits.

  A narrower decode or a misplaced mask shows on these values. The bound
  keeps the pairs of a stale read and a current word small, about 21,000
  states.
- `ConfigApplier` runs two rounds, each of either test, so the second round
  starts with a committed, non-reset configuration. Parameter values are
  three model values (reset, configured, new mask).
- `SlotCheck` uses a 44-byte slot (the 40-byte header plus 4 bytes) and
  payloads of 1, 4 and 5 bytes: one that fits, one exact fit and one that is
  one byte too long. Four packets through 2 slots wrap the ring twice. The
  real slot size comes from the RTL; only its relation to the record
  length matters.
- `HostEcho` scales the 1024-byte receive buffer to 4 bytes. Three texts
  are used:
  - 2 characters in 3 bytes, which fits;
  - 5 ASCII bytes, cut on a character boundary;
  - 3 ASCII bytes and a 2-byte character, which the cut splits.

  These are the three outcomes of `recvfrom` plus decode; only a text's
  length relative to the buffer and its character boundaries matter.
  Two board datagrams, a socket queue of 2, one lost frame and one restart
  are enough for the script to miss a request, lose its queue, and run
  again against a board that kept its ARP entry.

### Fairness

Fairness is used in `TxChannel`, for `CheckReturns`, in `RxChannel`, for
`PollReturns`, in `ConfigApplier`, for `ResetTestReturns`, and in
`HostEcho`.

- Weak fairness on the TB's steps. Once a call is running, the coroutine
  keeps being scheduled.
- Weak fairness on each DUT action. The DUT is clocked.

Neither starting a call nor sending is fair: the test script decides that.
`RxChannel` has the same fairness: WF on the two enable writes of
`TB.config` and on each step of `check_buffer_rx` after it started, and WF on `HwReceiveFrame`.

`PollReturns` shows what the unbounded poll of line 293 relies on:
- the test checks only channels it sent a packet to;
- it sends no more packets to a channel than the ring holds before it
  checks them;
- every earlier check popped exactly one slot.

Each of these matters. A check of another channel (mutant
`check_buffer_rx_any`) spins forever. A pulse of 1,0,1 (mutant
`PulseValue_swapped`) also spins forever, because it pops twice. So does
`MaxOutstanding = 3` against a 2-slot ring, because the DUT drops the third
frame.

`ConfigApplier` has WF on every step of the test script and on the three
controller actions. The test has no choice to make once it has started,
so every step is fair. `ResetTestReturns` shows that the untimed waits
all return: the tvalid loop, the empty poll, and the `recv` calls of
`check_tx_packet_at_sfp`. The test would hang if `check_tx_packet_at_sfp`
dropped the `reply_arp` call and went straight to its second `recv`
(mutant `recv_first_frame_noreply`).

In `HostEcho`:
- Weak fairness on each step of `ws-basic-test`, `sniff_again` included.
  The script runs.
- Weak fairness on delivery to the host and to the board. The link
  delivers what it does not lose.
- Weak fairness on the board's transmit, ARP request and ARP timeout.
- No fairness on the board application sending, on the restart, on the
  one-shot scripts, or on loss.

## 5. Findings

1. **Coalesced interrupt (`rx_irq`).** `check_buffer_rx` acknowledges the
   shared interrupt (line 303) after reading its slot and before popping.
   It never looks at other pending data. A packet pushed between the poll
   and the acknowledgement stays in the ring with the interrupt cleared.
   An interrupt-driven consumer, as spec §4.4 describes, would not wake
   for it, and `check_int_status(1)` (line 297) fails. The burst in
   `run_test_udp_rx` passes `check_int_status=False` (line 547), which
   hides this.
2. **Silent TX overflow (`tx_burst`).** Spec §4.5 has `enqueue` return
   `BufferFull`. `place_packet_at_mem` (line 337) returns nothing and drops
   the packet. `run_test_udp_tx` places 32 packets back to back
   (lines 595-598). It then waits for 32 frames and hangs if any packet was
   skipped.
3. **Deferral assert depends on timing (`config_early`).** The assert at
   line 638 expects the mask not yet applied. Nothing keeps the RX transfer
   in flight across the SNM write and the two RES writes. If it ends before
   the rising edge of RES, the controller commits immediately (spec §4.6)
   and the assert fails. Only the final asserts (642, 681) hold in every
   interleaving (`config`).
4. **Off-by-one in the slot check (`slot_exact`).** Line 281 expects
   equality only when `payload_size + 40 < BUFFER_ELEM_MAX_SIZE`. A record
   of exactly the slot size is stored whole, reads back equal, and the
   `else` branch asserts it differs.
   The same assertion also fails for an over-long record. Line 276 reads
   past the slot into the next one. If that slot holds an older record
   whose bytes equal the truncated tail, the read equals the packet; an
   example is payload byte 5, value 4, against a stale size byte 4. TLC
   reports the shorter exact-fit trace.
5. **Echo service never starts (`echo_order`).** `ws-basic-test` leaves its
   ARP loop (line 44) only on a fresh ARP request from the board. The board
   sends one only while it has no ARP entry for the host. The host's own
   stack answers requests for `INTERFACE_IP` (the socket binds to it, so it
   is the host's address). So when the board has already resolved the host,
   the script sniffs forever. This happens if the board asked before the
   script started sniffing, or if it kept its entry from an earlier run of
   the script. Meanwhile the socket bound at line 27 accepts the board's
   datagrams and nothing reads them. The `echo` run shows the script works
   only as the host's sole ARP responder and when never run twice.

Hazards without a violation run:
- A text longer than 1024 bytes ends `ws-basic-test` (lines 56-57). On
  Windows, `recvfrom` raises WSAEMSGSIZE; the script's interface name is a
  Windows one. On Linux, the cut at byte 1024 may split a UTF-8 character,
  and `decode` raises. Nothing catches either exception. The `echo` run
  includes both texts, and `DatagramAnswered` has to count the death as a
  fault.
- The script answers a single ARP request (line 47). If that reply is
  lost, the board's retries go unanswered unless the host stack answers
  them. The same happens when a request is missed between two captures
  and the retry is lost. `ArpHandshakeCompletes` therefore excuses any
  loss after the board starts asking.
- The board does not wait for acks, and the host socket's receive buffer
  is finite. `ws-basic-test` prints and acks each datagram before it reads
  the next (line 56), so a burst larger than the buffer is dropped by the
  host stack. The `echo` run gives the socket room for every datagram. With
  room for only one (`SockCap = 1`), TLC finds `DatagramAnswered` violated
  with nothing lost on the link and no restart.
- `set_buffer_rx_popped` writes back the descriptor as it read it two
  transactions earlier (line 202). The head, tail and flags in that word
  may be stale. `RegisterEncodesFields` holds only because the register
  ignores software writes to the hardware's bits: with a register that
  stores the whole word (mutant `HwRegisterWrite_whole`), TLC finds the
  stale index written back.
- `ws-send-arp` running while `ws-basic-test` sniffs makes the board
  answer it, and the filter of line 40 (`arp and src host KRIA_IP`) passes
  that reply as well. The op check at line 45 skips it, but the
  `sniff(count=1)` call has returned. A board request that lands before
  the next call opens its capture is missed, and only the board's retry
  completes the handshake (see the `echo` run).
- The comment of `ws-send-arp.py` (line 18) says it waits for the reply. It
  only sends the request.

## 6. Not modelled, and why

- **Ethernet/IP/UDP framing** and the Scapy/XGMII layers are out of scope
  (spec §1). Packets are model values.
- **Byte conversions**: `ip_str_to_ip_bytes`, `to_bytes` and the payload are
  modelled in `ByteCodec`, where the bytes matter. The string parsing is
  abstracted: an address is its octets. `mac_str_to_bytes` and the MAC
  register words of `config` are not modelled. `ConfigApplier` treats
  register contents as abstract values, and no run's state holds a MAC.
- **`test_ctrl_axi_regs.py`** writes and dumps registers without asserting
  anything.
- **Host scripts**: printing and the Scapy packet fields are left out.
  Frames carry only what the scripts and the board act on: the ARP
  operation, the ports, the text and the datagram it answers. The board
  application is whatever sends to the host; what it does with an ack is
  not in the repository.
- **`send_arp_to_dut` / `recv_arp_from_dut`** (`run_test_arp`) are one
  ARP request to the DUT's responder and the check of its reply's fields.
  They change no register, ring or configuration state, and the fields
  they assert are framing (out of scope above). The RX side of
  `run_test_arp`, packets to ports inside and outside the UDP range, is in
  `RxChannel` (`OutOfRange`).
- **Logging and printing** are left out.
- **Clock and reset sequencing** (`init`) is the `Init` state of each
  module.
