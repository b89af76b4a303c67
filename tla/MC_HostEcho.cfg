\* All three scripts, texts that fit and texts one byte too long, one lost
\* frame, one restart; ws-basic-test is the only ARP responder of the host.
CONSTANTS
    LOCAL_PORT = 1234
    KRIA_PORT = 7400
    SRC_PORT = 7410
    DST_PORT = 1234
    RECV_BUFSIZE = 4
    PAYLOAD <- MC_PAYLOAD
    PAYLOAD_LEN = 530
    Payloads <- MC_ShortAndLong
    MaxMsgs = 2
    MaxArpTries = 2
    MaxLoss = 1
    MaxRestarts = 1
    SockCap = 2
    OsArpReply = FALSE

SPECIFICATION Spec

INVARIANT TypeOK
PROPERTY ArpHandshakeCompletes
PROPERTY DatagramAnswered

\* The board application sends a bounded number of datagrams; after the
\* last one is answered nothing more happens.
CHECK_DEADLOCK FALSE
