CONSTANTS
  C_BUFFRX_INDEX_WIDTH = 5
  IndexValues <- MC_IndexValues

SPECIFICATION Spec

INVARIANT TypeOK
INVARIANT RegisterEncodesFields
INVARIANT ReadsReturnFields
