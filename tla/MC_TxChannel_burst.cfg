CONSTANTS
  p1 = p1
  p2 = p2
  Pkts <- MC_Pkts
  ARP = ARP
  NONE = NONE
  BUFFER_TX_LENGTH = 2
  MaxPlaced = 3
  MaxOutstanding = 3

SPECIFICATION Spec
PROPERTY CheckReturns


\* The test script is finite: after MaxPlaced packets have been placed and
\* checked the testbench stops.
CHECK_DEADLOCK FALSE
