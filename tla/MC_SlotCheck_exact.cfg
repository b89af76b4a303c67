\* The assertion of check_buffer_rx_slot for every size, at the slot boundary.
CONSTANTS
    BUFFER_ELEM_MAX_SIZE = 44
    BUFFER_RX_LENGTH = 2
    PayloadSizes <- MC_PayloadSizes
    SRC_IP <- MC_SRC_IP
    DST_IP <- MC_DST_IP
    SRC_UDP = 1234
    DST_UDP = 5678
    MaxPackets = 3

SPECIFICATION Spec


INVARIANT SlotAssertionHolds

\* The test sends a bounded number of packets and then stops.
CHECK_DEADLOCK FALSE
