\* ws-basic-test on a host whose own stack answers ARP, started at any time
\* and possibly run a second time.
CONSTANTS
    LOCAL_PORT = 1234
    KRIA_PORT = 7400
    SRC_PORT = 7410
    DST_PORT = 1234
    RECV_BUFSIZE = 4
    PAYLOAD <- MC_PAYLOAD
    PAYLOAD_LEN = 530
    Payloads <- MC_Short
    MaxMsgs = 2
    MaxArpTries = 2
    MaxLoss = 0
    MaxRestarts = 1
    SockCap = 2
    OsArpReply = TRUE

SPECIFICATION Spec

PROPERTY QueuedDatagramRead

\* The board application sends a bounded number of datagrams; after the
\* last one is answered nothing more happens.
CHECK_DEADLOCK FALSE
