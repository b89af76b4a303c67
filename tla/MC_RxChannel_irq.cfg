CONSTANTS
  c1 = c1
  c2 = c2
  p1 = p1
  p2 = p2
  Channels <- MC_Channels
  Pkts <- MC_Pkts
  OutOfRange = OutOfRange
  NONE = NONE
  BUFFER_RX_LENGTH = 2
  MaxSent = 4
  MaxOutstanding = 2

SPECIFICATION Spec
INVARIANT IrqAssertedWhenDataFound
SYMMETRY MC_Symmetry


\* The test script is finite: after MaxSent packets have been sent and
\* checked the testbench stops.
CHECK_DEADLOCK FALSE
