\* Four packets of any of the sizes through a ring of two 44-byte slots.
CONSTANTS
    BUFFER_ELEM_MAX_SIZE = 44
    BUFFER_RX_LENGTH = 2
    PayloadSizes <- MC_PayloadSizes
    SRC_IP <- MC_SRC_IP
    DST_IP <- MC_DST_IP
    SRC_UDP = 1234
    DST_UDP = 5678
    MaxPackets = 4

SPECIFICATION Spec

INVARIANT TypeOK
INVARIANT FittingRecordReadsBack
INVARIANT RecordHeaderEncoding

\* The test sends a bounded number of packets and then stops.
CHECK_DEADLOCK FALSE
