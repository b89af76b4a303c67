------------------------------ MODULE HostEcho ------------------------------
(***************************************************************************)
(* The host-side scripts of src/utils talking to the board over one        *)
(* Ethernet link.                                                          *)
(*   ws-basic-test.py  binds UDP port LOCAL_PORT, sniffs ARP frames from   *)
(*                     the board until one is a request (op 1), answers   *)
(*                     it once, then echoes every datagram back to its    *)
(*                     sender as "ack: " + the decoded text.               *)
(*   ws-send-arp.py    sends one broadcast ARP request for the board.      *)
(*   ws-send-packet.py sends one UDP datagram to the board.                *)
(* The board (not under src/) is modelled from the behaviour the           *)
(* testbench expects of it: an application that sends datagrams to the    *)
(* host, an ARP cache that needs a reply before the first one can go, a    *)
(* bounded number of ARP attempts per datagram, and an ARP responder.      *)
(* Frames in flight form a set (any order); a bounded number may be lost.  *)
(* Text is a sequence of character widths in bytes (UTF-8).                *)
(***************************************************************************)
EXTENDS Naturals, Sequences, SequencesExt

CONSTANTS LOCAL_PORT,    \* ws-basic-test: the host's UDP port
          KRIA_PORT,     \* the board application's UDP port
          SRC_PORT,      \* ws-send-packet: source port
          DST_PORT,      \* ws-send-packet: board port it targets
          RECV_BUFSIZE,  \* sock.recvfrom(1024)
          PAYLOAD, PAYLOAD_LEN, \* ws-send-packet: PAYLOAD * PAYLOAD_LEN
          Payloads,      \* texts the board application may send
          MaxMsgs,       \* datagrams the board application sends
          MaxArpTries,   \* ARP requests the board sends per datagram
          MaxLoss,       \* frames the link may lose
          MaxRestarts,   \* times ws-basic-test is stopped and run again
          SockCap,       \* datagrams the host socket buffers
          OsArpReply     \* whether the host's own stack answers ARP too

VARIABLES pc,       \* ws-basic-test: where the script is
          sockQ,    \* datagrams queued at the bound socket
          data,     \* decoded_data of the datagram being answered
          addr,     \* addr returned by recvfrom (the sender's port)
          cur,      \* which board datagram is being answered
          restarts, \* times ws-basic-test was run again
          arpSent,  \* ws-send-arp.py has run
          pktSent,  \* ws-send-packet.py has run
          net,      \* frames on the link
          lost,     \* frames lost so far
          msgs,     \* texts the board application has sent, in order
          waiting,  \* the board datagram waiting for ARP (0: none)
          tries,    \* ARP requests sent for it
          cache,    \* the board's ARP entry for the host
          acked     \* ack datagrams the board application received

hostVars  == <<pc, sockQ, data, addr, cur, restarts>>
boardVars == <<msgs, waiting, tries, cache, acked>>
vars == <<hostVars, arpSent, pktSent, net, lost, boardVars>>

-----------------------------------------------------------------------------
\* Frames.  src names the sender of an ARP frame: the board ("kria"),
\* ws-basic-test ("script"), the host's stack ("os") or ws-send-arp.
ArpFrame(op, src, seq) == [kind |-> "arp", op |-> op, src |-> src, seq |-> seq]

UdpFrame(to, sport, dport, d, id) ==
    [kind |-> "udp", to |-> to, sport |-> sport, dport |-> dport, data |-> d, id |-> id]

ToHost(f) == IF f.kind = "arp" THEN f.src = "kria" ELSE f.to = "host"

ByteLen(t) == FoldLeft(+, 0, t)

\* "ack: " encoded: five one-byte characters.
AckPrefix == <<1, 1, 1, 1, 1>>

\* data.decode('utf-8') of the first n bytes of t: the prefix of t that is
\* exactly n bytes long, or none when byte n falls inside a character
\* (UnicodeDecodeError).
Decoded(t, n) == {p \in Prefixes(t) : ByteLen(p) = n}

\* Mutant: the ack goes to the script's own port number.
ReplyAddr_local(d) == LOCAL_PORT

\* addr of sock.recvfrom: the datagram's source port.
ReplyAddr(d) == d.sport

-----------------------------------------------------------------------------
Init ==
    /\ pc = "start" /\ sockQ = <<>> /\ data = <<>> /\ addr = 0 /\ cur = 0
    /\ restarts = 0 /\ arpSent = FALSE /\ pktSent = FALSE
    /\ net = {} /\ lost = 0
    /\ msgs = <<>> /\ waiting = 0 /\ tries = 0 /\ cache = "none"
    /\ acked = {}

\* ws-basic-test 26-28: sock.bind((INTERFACE_IP, LOCAL_PORT)).
open_socket ==
    /\ pc = "start"
    /\ pc' = "bound"
    /\ UNCHANGED <<sockQ, data, addr, cur, restarts, arpSent, pktSent, net, lost, boardVars>>

\* ws-basic-test 34-42: build resp_pkt and the filter, then start sniffing.
start_sniff ==
    /\ pc = "bound"
    /\ pc' = "sniff"
    /\ UNCHANGED <<sockQ, data, addr, cur, restarts, arpSent, pktSent, net, lost, boardVars>>

\* ws-basic-test 45-48: sniff(count=1) has returned one frame; on a request
\* answer it and leave the loop, otherwise go round for another capture.
\* Mutant: the break outside the if, so any ARP frame ends the loop.
SniffNext_exit(op) == IF op = 1 THEN "arp_reply" ELSE "recv"

SniffNext(op) == IF op = 1 THEN "arp_reply" ELSE "resniff"

\* ws-basic-test 43-44: the next iteration opens a new capture.  Between
\* the return of one sniff(count=1) and this step no capture is open.
sniff_again ==
    /\ pc = "resniff"
    /\ pc' = "sniff"
    /\ UNCHANGED <<sockQ, data, addr, cur, restarts, arpSent, pktSent, net, lost, boardVars>>

\* ws-basic-test 47: sendp(resp_pkt), then break.
send_arp_response ==
    /\ pc = "arp_reply"
    /\ net' = net \cup {ArpFrame(2, "script", restarts)}
    /\ pc' = "recv"
    /\ UNCHANGED <<sockQ, data, addr, cur, restarts, arpSent, pktSent, lost, boardVars>>

\* A frame reaches the host.  sniff (44) sees an ARP frame from the board
\* only while a capture is open; one landing between two captures is
\* missed; the host's stack may answer a
\* request on its own; a datagram for LOCAL_PORT is queued if the socket is
\* bound and has room, and dropped otherwise.
HostReceive(f) ==
    /\ f \in net /\ ToHost(f)
    /\ IF f.kind = "arp"
         THEN /\ pc' = IF pc = "sniff" THEN SniffNext(f.op) ELSE pc
              /\ net' = (net \ {f}) \cup
                        (IF OsArpReply /\ f.op = 1 THEN {ArpFrame(2, "os", f.seq)} ELSE {})
              /\ UNCHANGED sockQ
         ELSE /\ sockQ' = IF f.dport = LOCAL_PORT /\ pc \notin {"start", "ended"}
                             /\ Len(sockQ) < SockCap
                            THEN Append(sockQ, f) ELSE sockQ
              /\ net' = net \ {f}
              /\ UNCHANGED pc
    /\ UNCHANGED <<data, addr, cur, restarts, arpSent, pktSent, lost, boardVars>>

\* ws-basic-test 56-57: data, addr = sock.recvfrom(1024), then decode.  A
\* datagram longer than the buffer either raises (WSAEMSGSIZE, Windows) or
\* is cut to RECV_BUFSIZE bytes (Linux); a cut inside a character raises
\* UnicodeDecodeError.  An uncaught exception ends the script and closes
\* the socket.
recvfrom ==
    /\ pc = "recv" /\ sockQ /= <<>>
    /\ LET d == Head(sockQ)
           n == ByteLen(d.data)
           text == Decoded(d.data, IF n > RECV_BUFSIZE THEN RECV_BUFSIZE ELSE n)
       IN \/ /\ n > RECV_BUFSIZE
             /\ pc' = "ended" /\ sockQ' = <<>>
             /\ UNCHANGED <<data, addr, cur>>
          \/ /\ text = {}
             /\ pc' = "ended" /\ sockQ' = <<>>
             /\ UNCHANGED <<data, addr, cur>>
          \/ /\ text /= {}
             /\ data' = CHOOSE p \in text : TRUE
             /\ addr' = ReplyAddr(d)
             /\ cur' = d.id
             /\ pc' = "ack" /\ sockQ' = Tail(sockQ)
    /\ UNCHANGED <<restarts, arpSent, pktSent, net, lost, boardVars>>

\* ws-basic-test 64-67: sock.sendto(("ack: " + decoded_data).encode(), addr).
send_ack ==
    /\ pc = "ack"
    /\ net' = net \cup {UdpFrame("kria", LOCAL_PORT, addr, AckPrefix \o data, cur)}
    /\ pc' = "recv"
    /\ UNCHANGED <<sockQ, data, addr, cur, restarts, arpSent, pktSent, lost, boardVars>>

\* ws-basic-test stopped (Ctrl-C, or after an exception) and run again: the
\* socket is closed with whatever it had queued.
restart ==
    /\ pc /= "start" /\ restarts < MaxRestarts
    /\ pc' = "start" /\ sockQ' = <<>>
    /\ restarts' = restarts + 1
    /\ UNCHANGED <<data, addr, cur, arpSent, pktSent, net, lost, boardVars>>

\* ws-send-arp 21-29: one broadcast ARP request for REQUESTED_IP.
send_arp ==
    /\ ~arpSent
    /\ arpSent' = TRUE
    /\ net' = net \cup {ArpFrame(1, "sendarp", 0)}
    /\ UNCHANGED <<hostVars, pktSent, lost, boardVars>>

\* ws-send-packet 29-39: one datagram SRC_PORT -> DST_PORT, PAYLOAD * PAYLOAD_LEN.
send_packet ==
    /\ ~pktSent
    /\ pktSent' = TRUE
    /\ net' = net \cup {UdpFrame("kria", SRC_PORT, DST_PORT,
                                 [i \in 1 .. PAYLOAD_LEN |-> PAYLOAD], 0)}
    /\ UNCHANGED <<hostVars, arpSent, lost, boardVars>>

-----------------------------------------------------------------------------
(* The board.                                                              *)

\* Its application hands a datagram for the host to the stack.
BoardAppSend(t) ==
    /\ waiting = 0 /\ Len(msgs) < MaxMsgs
    /\ msgs' = Append(msgs, t)
    /\ waiting' = Len(msgs) + 1
    /\ UNCHANGED <<hostVars, arpSent, pktSent, net, lost, tries, cache, acked>>

\* With the host's address resolved the datagram goes out.
BoardTransmit ==
    /\ waiting /= 0 /\ cache = "resolved"
    /\ net' = net \cup {UdpFrame("host", KRIA_PORT, LOCAL_PORT, msgs[waiting], waiting)}
    /\ waiting' = 0 /\ tries' = 0
    /\ UNCHANGED <<hostVars, arpSent, pktSent, lost, msgs, cache, acked>>

\* A request of the board, or a reply to it, is still on the link.
ArpInFlight ==
    \E f \in net : /\ f.kind = "arp"
                  /\ \/ f.src = "kria" /\ f.op = 1
                     \/ f.src \in {"script", "os"}

\* Mutant: one ARP request more than the retry count.
ArpRetryAllowed_le == tries <= MaxArpTries

ArpRetryAllowed == tries < MaxArpTries

\* The board's retry timer runs for seconds, one turn of the sniff loop for
\* far less: no request is (re)sent while the script is between two
\* captures, though one sent earlier may land there.
RetryOutlastsSniffGap == pc /= "resniff"

\* Unresolved: a (re)transmitted broadcast request once the previous one
\* has gone unanswered.
BoardArpRequest ==
    /\ waiting /= 0 /\ cache = "none" /\ ArpRetryAllowed /\ ~ArpInFlight
    /\ RetryOutlastsSniffGap
    /\ tries' = tries + 1
    /\ net' = net \cup {ArpFrame(1, "kria", tries + 1)}
    /\ UNCHANGED <<hostVars, arpSent, pktSent, lost, msgs, waiting, cache, acked>>

\* Every attempt timed out: the datagram is dropped.
BoardArpGiveUp ==
    /\ waiting /= 0 /\ cache = "none" /\ tries = MaxArpTries /\ ~ArpInFlight
    /\ waiting' = 0 /\ tries' = 0
    /\ UNCHANGED <<hostVars, arpSent, pktSent, net, lost, msgs, cache, acked>>

\* A frame reaches the board: an ARP reply fills the cache, a request is
\* answered, a datagram reaches the application listening on its port.
BoardReceive(f) ==
    /\ f \in net /\ ~ToHost(f)
    /\ cache' = IF f.kind = "arp" /\ f.op = 2 THEN "resolved" ELSE cache
    /\ net' = (net \ {f}) \cup
              (IF f.kind = "arp" /\ f.op = 1 THEN {ArpFrame(2, "kria", f.seq)} ELSE {})
    /\ acked' = IF f.kind = "udp" /\ f.dport = KRIA_PORT THEN acked \cup {f} ELSE acked
    /\ UNCHANGED <<hostVars, arpSent, pktSent, lost, msgs, waiting, tries>>

\* The link loses a frame.
Lose(f) ==
    /\ f \in net /\ lost < MaxLoss
    /\ net' = net \ {f} /\ lost' = lost + 1
    /\ UNCHANGED <<hostVars, arpSent, pktSent, boardVars>>

-----------------------------------------------------------------------------
HostStep == open_socket \/ start_sniff \/ sniff_again \/ send_arp_response \/ recvfrom \/ send_ack

Next ==
    \/ HostStep
    \/ restart \/ send_arp \/ send_packet
    \/ \E f \in net : HostReceive(f) \/ BoardReceive(f) \/ Lose(f)
    \/ \E t \in Payloads : BoardAppSend(t)
    \/ BoardTransmit \/ BoardArpRequest \/ BoardArpGiveUp

\* The scripts run, the link delivers and the board's stack keeps working;
\* nothing forces the board application to send, a script to be started
\* again, or the link to lose a frame.
Fairness ==
    /\ WF_vars(open_socket) /\ WF_vars(start_sniff) /\ WF_vars(sniff_again)
    /\ WF_vars(send_arp_response)
    /\ WF_vars(recvfrom) /\ WF_vars(send_ack)
    /\ WF_vars(\E f \in net : HostReceive(f))
    /\ WF_vars(\E f \in net : BoardReceive(f))
    /\ WF_vars(BoardTransmit) /\ WF_vars(BoardArpRequest) /\ WF_vars(BoardArpGiveUp)

Spec == Init /\ [][Next]_vars /\ Fairness

-----------------------------------------------------------------------------
(* Every variable stays in its range: the script is at one of its steps,  *)
(* the socket holds at most SockCap datagrams and the board never sends  *)
(* more ARP requests for a datagram than its retry count allows.          *)
TypeOK ==
    /\ pc \in {"start", "bound", "sniff", "resniff", "arp_reply", "recv", "ack", "ended"}
    /\ Len(sockQ) <= SockCap
    /\ restarts \in 0 .. MaxRestarts /\ lost \in 0 .. MaxLoss
    /\ Len(msgs) <= MaxMsgs /\ waiting \in 0 .. Len(msgs)
    /\ tries \in 0 .. MaxArpTries /\ cache \in {"none", "resolved"}
    /\ arpSent \in BOOLEAN /\ pktSent \in BOOLEAN

(* The board resolves the host.  ws-basic-test answers a single request  *)
(* (47-48) and opens a new capture for each frame (44): the board's reply *)
(* to ws-send-arp, which passes the filter of line 40, ends one capture,  *)
(* and a request of the board landing before the next one is missed.     *)
(* Once the script sniffs and the board starts asking for a datagram,    *)
(* the entry is filled unless the link loses a frame from then on or the *)
(* script is stopped: the board's retry makes good the missed request.   *)
ArpHandshakeCompletes ==
    \A r \in 0 .. MaxRestarts, l \in 0 .. MaxLoss :
        (/\ pc = "sniff" /\ restarts = r /\ lost = l
         /\ waiting /= 0 /\ cache = "none" /\ tries = 0)
            ~> \/ cache = "resolved"
               \/ lost > l
               \/ restarts > r

\* The echo service gave up, lost a frame, or was restarted.
Faulted == lost > 0 \/ restarts > 0 \/ pc = "ended"

(* Every datagram the board puts on the link is eventually answered with *)
(* an ack that reaches the board application, unless a frame is lost or  *)
(* ws-basic-test dies or is restarted.                                    *)
DatagramAnswered ==
    \A i \in 1 .. MaxMsgs :
        (\E f \in net : f.kind = "udp" /\ f.to = "host" /\ f.id = i)
            ~> ((\E a \in acked : a.id = i) \/ Faulted)

(* A datagram queued at the bound socket does not stay there forever: the *)
(* echo loop reads it or the socket is closed.                            *)
QueuedDatagramRead ==
    \A i \in 1 .. MaxMsgs :
        (\E k \in 1 .. Len(sockQ) : sockQ[k].id = i)
            ~> ~(\E k \in 1 .. Len(sockQ) : sockQ[k].id = i)

=============================================================================
