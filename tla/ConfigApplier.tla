---------------------------- MODULE ConfigApplier ----------------------------
(***************************************************************************)
(* Deferred configuration apply, as test_fpga_core.py drives it: TB.config *)
(* writes each parameter register (these land in the *_from_ps shadow      *)
(* registers), the live registers, then pulses ADDR_RES_0_Y_O 0,1,0.  The  *)
(* run_test_user_reset_rx / _tx tests then start one transfer (a frame     *)
(* into SFP RX, or a record placed for TX), wait until the payload stream  *)
(* is valid, write a new subnet mask, pulse RES 1,0 and check that the     *)
(* mask becomes active only once the transfer has finished.  The test     *)
(* body may run for several rounds, each as the rx or the tx variant: the  *)
(* state after a round (mask applied, nothing in flight) is the state      *)
(* after TB.config with that mask.                                         *)
(*                                                                         *)
(* The controller side (a rising edge of RES copies shadow to active, or   *)
(* latches the request while a transaction is in flight and copies when    *)
(* it ends) is RTL outside the Python sources, modelled from spec 4.6.     *)
(***************************************************************************)
EXTENDS Naturals, Sequences

CONSTANTS Params,       \* the parameter registers TB.config writes
          ConfigOrder,  \* the order TB.config writes them in
          SNM,          \* ADDR_SNM_0_N_O, the one the reset tests change
          Vals,         \* abstract register contents
          RST,          \* value after reset
          CFG,          \* value written by TB.config
          MaxRounds     \* bound on rounds of the reset-test body

ASSUME /\ SNM \in Params
       /\ {RST, CFG} \subseteq Vals
       /\ ConfigOrder \in Seq(Params)
       /\ MaxRounds \in Nat \ {0}

VARIABLES shadow,   \* the *_from_ps registers
          active,   \* the parameters in effect (subnet_mask, ...)
          res,      \* ADDR_RES_0_Y_O as last written
          pending,  \* an apply request latched while a transaction is busy
          busy,     \* a transfer is in flight (payload tvalid)
          queued,   \* the test's frame or record is waiting for the DUT
          done,     \* the transfer of this round has completed
          arp,      \* the DUT's ARP entry: "none", "asked", "answered"
          test,     \* which reset test the round runs, "rx" or "tx"
          rounds,   \* rounds started so far
          k         \* position of the test coroutine in its script

vars == <<shadow, active, res, pending, busy, queued, done, arp, test,
          rounds, k>>

\* TB.config: one write per parameter register, the live registers
\* (popped / open_socket of every RX buffer, BUFTX_PUSHED, IER, GIE), then
\* RES 0,1,0.
ConfigScript ==
    [i \in 1 .. Len(ConfigOrder) |-> "param"] \o <<"live", "res_a", "res_b", "res_c">>

\* The AXI-Lite transactions and waits of each reset test after TB.config.
\* rx: send_packet_to_dut, the tvalid loop, the SNM write, RES 1,0, the
\*     first assert, check_buffer_rx (empty poll, check_int_status, tail,
\*     slot, ISR write, popped 0,1,0), the last assert.
\* tx: place_packet_at_mem (head, tail, full, empty reads, slot write,
\*     pushed 0,1,0), the tvalid loop, the SNM write, RES 1, a clock,
\*     RES 0, a clock, check_tx_packet_at_sfp (recv, and on an ARP request
\*     reply_arp and a second recv), a clock, the last assert.
TestScript ==
    [rx |-> <<"send", "waitvalid", "wsnm", "res1", "res0", "assert1",
              "poll", "chkint", "rdtail", "rdslot", "ack",
              "pop0", "pop1", "pop2", "assert2">>,
     tx |-> <<"rdhead", "rdtail", "rdfull", "rdempty", "wslot",
              "push0", "push1", "push2", "waitvalid", "wsnm", "res1", "clk1",
              "res0", "clk2", "recv", "reply", "recv2", "clk3", "assert2">>]

Script(t) == ConfigScript \o TestScript[t]

\* Where each round of the test body starts.
BodyStart == Len(ConfigScript) + 1

\* The step the coroutine is at; "end" once the test has returned.
Cur == IF k <= Len(Script(test)) THEN Script(test)[k] ELSE "end"

ResSteps == {"res_a", "res_b", "res_c", "res1", "res0"}

\* Mutant: the pulse of TB.config left at 1 (last write 1 instead of 0).
ResValue_stuck == [res_a |-> 0, res_b |-> 1, res_c |-> 1, res1 |-> 1, res0 |-> 0]

\* The writes to ADDR_RES_0_Y_O: three at the end of TB.config, two in the
\* reset tests.
ResValue == [res_a |-> 0, res_b |-> 1, res_c |-> 0, res1 |-> 1, res0 |-> 0]

\* The steps that hand the transfer to the DUT: the frame sent into SFP
\* RX, or the rising edge of BUFTX_PUSHED after the record is written.
StartSteps == {"send", "push1"}

\* The steps that return only once the transfer has finished: the empty
\* poll of check_buffer_rx, the recv of the frame after the ARP reply.
DoneSteps == {"poll", "recv2"}

\* Every other step is an AXI-Lite access, a clock wait or an assert that
\* touches no configuration register.
OtherSteps == {"live", "rdhead", "rdtail", "rdfull", "rdempty", "wslot",
               "push0", "push2", "assert1", "chkint", "rdslot", "ack",
               "pop0", "pop1", "pop2", "clk1", "clk2", "clk3"}

\* Mutant: the controller leaves its latched request set when it commits.
HwCommitOnEnd_keep ==
    /\ active' = IF pending THEN shadow ELSE active
    /\ UNCHANGED pending

\* The controller at the end of a transaction: a latched apply is
\* carried out in the same cycle.
HwCommitOnEnd ==
    /\ active' = IF pending THEN shadow ELSE active
    /\ pending' = FALSE

\* TB.init: the controller is reset; shadow and active hold reset values
\* and the ARP cache is empty.
Init ==
    /\ shadow = [p \in Params |-> RST]
    /\ active = [p \in Params |-> RST]
    /\ res = 0
    /\ pending = FALSE
    /\ busy = FALSE
    /\ queued = FALSE
    /\ done = FALSE
    /\ arp = "none"
    /\ test \in {"rx", "tx"}
    /\ rounds = 1
    /\ k = 1

-----------------------------------------------------------------------------
(* Testbench actions.                                                      *)

\* TB.config: s_axil_ctrl.write of the k-th parameter register.
config_write_param ==
    /\ Cur = "param"
    /\ shadow' = [shadow EXCEPT ![ConfigOrder[k]] = CFG]
    /\ k' = k + 1
    /\ UNCHANGED <<active, res, pending, busy, queued, done, arp, test, rounds>>

\* One write to ADDR_RES_0_Y_O.  The controller sees a rising edge and
\* applies the shadow at once when idle, else latches the request.
write_res ==
    /\ Cur \in ResSteps
    /\ LET v == ResValue[Cur]
           edge == res = 0 /\ v = 1
       IN /\ res' = v
          /\ active' = IF edge /\ ~busy THEN shadow ELSE active
          /\ pending' = (pending \/ (edge /\ busy))
    /\ k' = k + 1
    /\ UNCHANGED <<shadow, busy, queued, done, arp, test, rounds>>

\* send_packet_to_dut, or the write of 1 to BUFTX_PUSHED.
start_transfer ==
    /\ Cur \in StartSteps
    /\ queued' = TRUE
    /\ k' = k + 1
    /\ UNCHANGED <<shadow, active, res, pending, busy, done, arp, test, rounds>>

\* while not rx/tx_payload_axis_tvalid: await RisingEdge(clk)
wait_tvalid ==
    /\ Cur = "waitvalid"
    /\ busy
    /\ k' = k + 1
    /\ UNCHANGED <<shadow, active, res, pending, busy, queued, done, arp,
                   test, rounds>>

\* s_axil_ctrl.write(ADDR_SNM_0_N_O, new_submask): a mask other than the
\* one in the register.
write_new_submask(v) ==
    /\ Cur = "wsnm"
    /\ v /= shadow[SNM]
    /\ shadow' = [shadow EXCEPT ![SNM] = v]
    /\ k' = k + 1
    /\ UNCHANGED <<active, res, pending, busy, queued, done, arp, test, rounds>>

\* The empty poll / the recv of the frame: blocks until the transfer is
\* done.
wait_transfer_done ==
    /\ Cur \in DoneSteps
    /\ done
    /\ k' = k + 1
    /\ UNCHANGED <<shadow, active, res, pending, busy, queued, done, arp,
                   test, rounds>>

\* Mutant: the await of reply_arp dropped; the broadcast is seen and the
\* second recv waits for the UDP frame.
recv_first_frame_noreply ==
    /\ Cur = "recv"
    /\ \/ arp = "asked" /\ k' = k + 2
       \/ arp = "answered" /\ done /\ k' = k + 3
    /\ UNCHANGED <<shadow, active, res, pending, busy, queued, done, arp,
                   test, rounds>>

\* The first recv of check_tx_packet_at_sfp: a broadcast (the DUT's ARP
\* request) goes on to reply_arp; the UDP frame itself, when the DUT
\* already knows the destination, goes straight to the asserts.
recv_first_frame ==
    /\ Cur = "recv"
    /\ \/ arp = "asked" /\ k' = k + 1
       \/ arp = "answered" /\ done /\ k' = k + 3
    /\ UNCHANGED <<shadow, active, res, pending, busy, queued, done, arp,
                   test, rounds>>

\* reply_arp: the ARP response is sent into SFP RX.
reply_arp ==
    /\ Cur = "reply"
    /\ arp' = "answered"
    /\ k' = k + 1
    /\ UNCHANGED <<shadow, active, res, pending, busy, queued, done, test,
                   rounds>>

\* Any other transaction, clock wait or assert of the script.
other_step ==
    /\ Cur \in OtherSteps
    /\ k' = k + 1
    /\ UNCHANGED <<shadow, active, res, pending, busy, queued, done, arp,
                   test, rounds>>

\* The last assert on subnet_mask.  The test returns, or the body runs
\* again as the rx or the tx variant.
assert_applied ==
    /\ Cur = "assert2"
    /\ \/ /\ rounds = MaxRounds
          /\ k' = k + 1
          /\ UNCHANGED <<done, test, rounds>>
       \/ /\ rounds < MaxRounds
          /\ k' = BodyStart
          /\ test' \in {"rx", "tx"}
          /\ rounds' = rounds + 1
          /\ done' = FALSE
    /\ UNCHANGED <<shadow, active, res, pending, busy, queued, arp>>

-----------------------------------------------------------------------------
(* Controller actions.                                                     *)

\* The DUT starts moving the payload: tvalid rises.
HwStartTransaction ==
    /\ queued
    /\ ~busy
    /\ busy' = TRUE
    /\ queued' = FALSE
    /\ UNCHANGED <<shadow, active, res, pending, done, arp, test, rounds, k>>

\* tx: the destination is not in the ARP cache, so the UDP transfer
\* stalls, payload still valid, while the DUT asks for it.
HwSendArpRequest ==
    /\ busy
    /\ test = "tx"
    /\ arp = "none"
    /\ arp' = "asked"
    /\ UNCHANGED <<shadow, active, res, pending, busy, queued, done, test,
                   rounds, k>>

\* The payload has been moved.  The wait loop samples tvalid on every
\* clock and a payload of 100 bytes lasts more clocks than one AXI-Lite
\* write, so a transfer neither ends during the write of 0 to
\* BUFTX_PUSHED that follows its start nor before the test has left the
\* loop; the first assert of the rx test reads subnet_mask at the time
\* the RES write returns, with no clock between.
HwEndTransaction ==
    /\ busy
    /\ Cur \notin {"push2", "waitvalid", "assert1"}
    /\ test = "tx" => arp = "answered"
    /\ busy' = FALSE
    /\ done' = TRUE
    /\ HwCommitOnEnd
    /\ UNCHANGED <<shadow, res, queued, arp, test, rounds, k>>

-----------------------------------------------------------------------------

Next ==
    \/ config_write_param
    \/ write_res
    \/ start_transfer
    \/ wait_tvalid
    \/ \E v \in Vals : write_new_submask(v)
    \/ wait_transfer_done
    \/ recv_first_frame
    \/ reply_arp
    \/ other_step
    \/ assert_applied
    \/ HwStartTransaction
    \/ HwSendArpRequest
    \/ HwEndTransaction

\* The test coroutine keeps running (every await returns once what it waits
\* for holds) and the DUT is clocked.  Nothing else is assumed.
Fairness ==
    /\ WF_vars(config_write_param) /\ WF_vars(write_res)
    /\ WF_vars(start_transfer) /\ WF_vars(wait_tvalid)
    /\ WF_vars(\E v \in Vals : write_new_submask(v))
    /\ WF_vars(wait_transfer_done) /\ WF_vars(recv_first_frame)
    /\ WF_vars(reply_arp) /\ WF_vars(other_step) /\ WF_vars(assert_applied)
    /\ WF_vars(HwStartTransaction) /\ WF_vars(HwSendArpRequest)
    /\ WF_vars(HwEndTransaction)

Spec == Init /\ [][Next]_vars /\ Fairness

-----------------------------------------------------------------------------

(* Every variable has its type, and a latched apply request exists only   *)
(* while a transfer is in flight: the controller never holds a request    *)
(* that no transaction end will carry out.                                *)
TypeOK ==
    /\ shadow \in [Params -> Vals]
    /\ active \in [Params -> Vals]
    /\ res \in {0, 1}
    /\ pending \in BOOLEAN /\ busy \in BOOLEAN
    /\ queued \in BOOLEAN /\ done \in BOOLEAN
    /\ arp \in {"none", "asked", "answered"}
    /\ test \in {"rx", "tx"}
    /\ rounds \in 1 .. MaxRounds
    /\ k \in 1 .. Len(Script(test)) + 1
    /\ pending => busy

(* The last assert of both reset tests (and spec 4.6, "after the          *)
(* transaction completes, active == pending"): once check_buffer_rx or    *)
(* check_tx_packet_at_sfp has returned, every parameter in effect,        *)
(* subnet_mask included, is the one last written to its shadow register.  *)
AppliedAfterTransaction == Cur = "assert2" => active = shadow

(* The first assert of run_test_user_reset_rx (and spec 4.6, "immediately *)
(* after apply during an in-flight transaction, active != pending"): just *)
(* after the RES pulse, subnet_mask still differs from subnet_mask_from_ps.*)
NotAppliedDuringTransaction == Cur = "assert1" => active /= shadow

(* The reset tests return: none of their unbounded waits (the tvalid    *)
(* loop, the empty poll of check_buffer_rx, the recv of                    *)
(* check_tx_packet_at_sfp) spins forever.  The transfer started before    *)
(* the loop must reach the DUT's payload stream, and in the tx test the   *)
(* DUT's ARP request must be answered before the UDP frame can follow.    *)
ResetTestReturns == <>(Cur = "end")

=============================================================================
