CONSTANTS
  BUFFER_LENGTH = 3
  d0 = d0
  d1 = d1
  Data <- MC_Data
  NONE = NONE
  MaxCalls = 7

SPECIFICATION Spec

INVARIANT TypeOK
INVARIANT SlotsMatchIndices
PROPERTY ImplementsFifo

\* The test script is finite: once MaxCalls calls are made the TB stops.
CHECK_DEADLOCK FALSE
