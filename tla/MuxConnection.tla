--------------------------- MODULE MuxConnection ---------------------------
(***************************************************************************)
(* One tunnelled TCP connection: the client socket on one side, the USB    *)
(* packet channels to the device on the other, and the connection object   *)
(* of device.cpp between them, driven by the main loop of usbmuxd.cpp.     *)
(*                                                                         *)
(* Bytes are counted, not stored: the properties are about how many bytes  *)
(* are buffered, acknowledged, advertised and handed over.  Sequence       *)
(* numbers keep a width (SeqSpace stands for 2^32) and wrap.  A window field *)
(* holds what its reader computes, th_win << 8, in bytes.                  *)
(*                                                                         *)
(* The main loop is one thread: a handler runs to its end before another   *)
(* starts, but it acts on the descriptors select() reported at the start   *)
(* of the iteration, which may be stale by then.  The application and the  *)
(* device act between any two handlers.                                    *)
(***************************************************************************)
EXTENDS Integers, Sequences

CONSTANTS
  InBufSize,   \* CONN_INBUF_SIZE
  MaxPacket,   \* MAX_MUX_PACKET_SIZE
  MaxPayload,  \* conn->max_payload; ob_capacity is larger
  WinUnit,     \* 2^8, the granularity of th_win
  SeqSpace,      \* 2^32, the width of the sequence numbers
  DevBufSize,  \* the device's receive buffer
  SockBufSize, \* the kernel's buffers of the client socket
  DevSizes,    \* payload sizes the device sends
  AppSizes,    \* sizes of the application's writes
  ChanBound    \* packets in a USB direction before its sender pauses

ASSUME BufferAssumption ==
  /\ InBufSize \in Nat \ {0} /\ DevBufSize \in Nat \ {0} /\ SeqSpace \in Nat
  /\ InBufSize + 1 < SeqSpace /\ DevBufSize + 1 < SeqSpace

ASSUME WindowAssumption ==
  /\ WinUnit \in Nat \ {0} /\ MaxPacket \in Nat /\ MaxPayload \in 1 .. SeqSpace - 1
  /\ WinUnit <= MaxPacket /\ MaxPacket <= InBufSize /\ WinUnit <= DevBufSize

ASSUME EnvironmentAssumption ==
  /\ SockBufSize \in Nat \ {0} /\ ChanBound \in Nat
  /\ DevSizes \subseteq 1 .. SeqSpace - 1 /\ AppSizes \subseteq Nat \ {0}

VARIABLES
  conn,    \* struct mux_connection
  client,  \* struct mux_client
  sock,    \* the client socket and the application at its other end
  loop,    \* where the main loop is, and what select() reported
  h2d,     \* packets on their way to the device, oldest first
  d2h,     \* packets on their way from the device, oldest first
  dev      \* the device's end of the connection

vars == <<conn, client, sock, loop, h2d, d2h, dev>>

Lesser(a, b) == IF a < b THEN a ELSE b

\* Arithmetic of the uint32_t sequence numbers.
\* (A definition named Bug... is a faulty form of the one that follows it.)
BugNoWrap(a, n) == a + n
SeqAdd(a, n) == IF a + n < SeqSpace THEN a + n ELSE a + n - SeqSpace
SeqSub(a, b) == IF a >= b THEN a - b ELSE a - b + SeqSpace

\* (win >> 8) << 8
BugRoundUp(win) == ((win + WinUnit - 1) \div WinUnit) * WinUnit
Advertised(win) == (win \div WinUnit) * WinUnit

Events == {"POLLIN", "POLLOUT"}
SeqNum == 0 .. SeqSpace - 1
Flags == {"SYN", "SYNACK", "ACK", "FIN", "RST"}
Packet == [flags : Flags, seq : SeqNum, ack : SeqNum, win : Int, len : SeqNum]

NoConn ==
  [state |-> "NONE", tx_seq |-> 0, tx_ack |-> 0, tx_acked |-> 0,
   tx_win |-> InBufSize, rx_ack |-> 0, rx_win |-> 0, sendable |-> 0,
   ack_pending |-> FALSE, events |-> {}, ib_size |-> 0]

NoDev == [state |-> "NONE", seq |-> 0, ack |-> 0, una |-> 0, win |-> 0,
          buf |-> 0, owes |-> FALSE]

-----------------------------------------------------------------------------
\* The pieces the handlers are made of.

\* The header send_tcp fills in from the connection.
Tcp(c, flags, len) ==
  [flags |-> flags, seq |-> c.tx_seq, ack |-> c.tx_ack,
   win |-> Advertised(c.tx_win), len |-> len]

\* What send_tcp leaves in the connection.
AfterSend(c) == [c EXCEPT !.tx_acked = c.tx_ack, !.ack_pending = FALSE]

BugNothingInFlight(c) == Lesser(c.rx_win, MaxPayload)
Sendable(c) ==
  LET sent == SeqSub(c.tx_seq, c.rx_ack)
      room == IF c.rx_win > sent THEN c.rx_win - sent ELSE 0
  IN  Lesser(room, MaxPayload)

UpdateConn(c) ==
  [c EXCEPT !.sendable = Sendable(c),
            !.events = (IF Sendable(c) > 0 THEN {"POLLIN"} ELSE {})
                       \cup (IF c.ib_size > 0 THEN {"POLLOUT"} ELSE {}),
            !.ack_pending = (c.tx_acked # c.tx_ack)]

\* send_tcp_ack when the packet goes out.
AckNow(c) == UpdateConn(AfterSend(c))

BugNoDevents(cl, events) == IF cl.state = "CONNECTED" THEN [cl EXCEPT !.events = events] ELSE cl
SetEvents(cl, events) ==
  IF cl.state \in {"CONNECTING2", "CONNECTED"}
  THEN [cl EXCEPT !.devents = events,
                  !.events = IF cl.state = "CONNECTED" THEN events ELSE @]
  ELSE cl

\* A client that client_close has released n times, the object being gone.
Released(cl, n) == [cl EXCEPT !.state = "FREED", !.events = {}, !.frees = @ + n]

BugStuckInConnecting(cl, result) ==
  IF result = "OK"
  THEN [cl EXCEPT !.state = "CONNECTING2", !.events = {"POLLOUT"}, !.reply = result]
  ELSE [cl EXCEPT !.events = @ \cup {"POLLOUT"}, !.reply = result]
BugNoPollout(cl, result) ==
  [cl EXCEPT !.state = IF result = "OK" THEN "CONNECTING2" ELSE "COMMAND", !.reply = result]
NotifyConnect(cl, result) ==
  IF cl.state # "CONNECTING1" THEN cl
  ELSE IF result = "OK"
       THEN [cl EXCEPT !.state = "CONNECTING2", !.events = {"POLLOUT"}, !.reply = result]
       ELSE [cl EXCEPT !.state = "COMMAND", !.events = @ \cup {"POLLOUT"}, !.reply = result]

\* The RST of connection_teardown, not sent when the device reset first.
TeardownRst(c) == IF c.state \in {"DYING", "REFUSED"} THEN <<>> ELSE <<Tcp(c, "RST", 0)>>

\* Bytes connection_teardown still gets into the client socket.
Flushed(c) ==
  IF /\ c.state \in {"CONNECTED", "DYING"}
     /\ client.state = "CONNECTED" /\ sock.peer = "open" /\ "POLLOUT" \in c.events
  THEN Lesser(c.ib_size, SockBufSize - sock.out)
  ELSE 0

\* connection_teardown(c), begun by the device side or by device_client_process,
\* after the packets `out`.  client_close finds the connection DEAD, so the
\* client is released once.
Teardown(c, out) ==
  /\ h2d' = out \o TeardownRst(c)
  /\ conn' = NoConn
  /\ sock' = [sock EXCEPT !.out = @ + Flushed(c)]
  /\ client' = IF c.state \in {"CONNECTING", "REFUSED"}
               THEN NotifyConnect(client, "REFUSED")
               ELSE Released(client, 1)

\* client_close(client), begun by the client side.  In CONNECTING2 the
\* connection is already CONNECTED: its teardown closes the client as well.
ClientClose ==
  /\ h2d' = IF conn.state = "NONE" THEN h2d ELSE h2d \o TeardownRst(conn)
  /\ conn' = NoConn
  /\ client' = Released(client, IF client.state = "CONNECTING2" THEN 2 ELSE 1)
  /\ UNCHANGED sock

-----------------------------------------------------------------------------
\* The main loop.

Readable == "POLLIN" \in client.events /\ (sock.req \/ sock.in > 0 \/ sock.peer = "gone")
Writable == "POLLOUT" \in client.events /\ (sock.out < SockBufSize \/ sock.peer = "gone")
DeviceData == d2h # <<>>

\* CreateFdSets and select(): the masks are read once, here.
Select ==
  /\ loop.at = "select" /\ Len(h2d) <= ChanBound
  /\ Readable \/ Writable \/ DeviceData
  /\ loop' = [at |-> IF DeviceData THEN "device" ELSE "client", rd |-> Readable, wr |-> Writable]
  /\ UNCHANGED <<conn, client, sock, h2d, d2h, dev>>

\* select() timed out: device_check_timeouts.
SelectTimeout ==
  /\ loop.at = "select" /\ Len(h2d) <= ChanBound
  /\ ~(Readable \/ Writable \/ DeviceData)
  /\ IF conn.state = "CONNECTED" /\ conn.ack_pending
     THEN /\ h2d' = Append(h2d, Tcp(conn, "ACK", 0))
          /\ conn' = AckNow(conn)
          /\ client' = SetEvents(client, conn'.events)
     ELSE UNCHANGED <<h2d, conn, client>>
  /\ UNCHANGED <<sock, loop, d2h, dev>>

\* The iteration goes on with client_process, or ends when the client's
\* descriptor was not reported.
AfterDevice == loop' = [loop EXCEPT !.at = IF loop.rd \/ loop.wr THEN "client" ELSE "select"]
AfterClient == loop' = [at |-> "select", rd |-> FALSE, wr |-> FALSE]

\* The connection with the header fields every packet updates.
BugOldWindow(p) == [conn EXCEPT !.rx_ack = p.ack]
Heard(p) == [conn EXCEPT !.rx_ack = p.ack, !.rx_win = p.win]

\* device_tcp_input, for the packet p of one USB transfer.
InputNoConnection(p) ==
  /\ conn.state = "NONE"
  /\ h2d' = IF p.flags = "RST" THEN h2d
            ELSE Append(h2d, [flags |-> "RST", seq |-> 0, ack |-> p.seq, win |-> 0, len |-> 0])
  /\ UNCHANGED <<conn, client, sock>>

InputSynAck(p) ==
  /\ conn.state = "CONNECTING" /\ p.flags = "SYNACK"
  /\ LET c == [Heard(p) EXCEPT !.tx_seq = SeqAdd(@, 1), !.tx_ack = SeqAdd(@, 1)]
     IN  /\ h2d' = Append(h2d, Tcp(c, "ACK", 0))
         /\ conn' = UpdateConn([AfterSend(c) EXCEPT !.state = "CONNECTED"])
         /\ client' = SetEvents(NotifyConnect(client, "OK"), conn'.events)
  /\ UNCHANGED sock

InputRefused(p) ==
  /\ conn.state = "CONNECTING" /\ p.flags # "SYNACK"
  /\ Teardown([Heard(p) EXCEPT !.state = IF p.flags = "RST" THEN "REFUSED" ELSE @], h2d)

\* connection_device_input: the payload goes to ib_buf and leaves the window.
BugWindowKept(p) ==
  UpdateConn([Heard(p) EXCEPT !.ib_size = @ + p.len, !.tx_ack = SeqAdd(@, p.len)])
Stored(p) ==
  UpdateConn([Heard(p) EXCEPT !.ib_size = @ + p.len,
                              !.tx_win = @ - p.len,
                              !.tx_ack = SeqAdd(@, p.len)])

InputData(p) ==
  /\ conn.state = "CONNECTED" /\ p.flags = "ACK"
  /\ IF conn.ib_size + p.len > InBufSize
     THEN Teardown(Heard(p), h2d)
     ELSE /\ h2d' = IF Stored(p).ack_pending THEN Append(h2d, Tcp(Stored(p), "ACK", 0)) ELSE h2d
          /\ conn' = IF Stored(p).ack_pending THEN AckNow(Stored(p)) ELSE Stored(p)
          /\ client' = SetEvents(client, conn'.events)
          /\ UNCHANGED sock

InputReset(p) ==
  /\ conn.state = "CONNECTED" /\ p.flags # "ACK"
  /\ Teardown([Heard(p) EXCEPT !.state = IF p.flags = "RST" THEN "DYING" ELSE @], h2d)

DeviceInput ==
  /\ loop.at = "device" /\ AfterDevice
  /\ d2h' = Tail(d2h) /\ UNCHANGED dev
  /\ \/ InputNoConnection(Head(d2h))
     \/ InputSynAck(Head(d2h))
     \/ InputRefused(Head(d2h))
     \/ InputData(Head(d2h))
     \/ InputReset(Head(d2h))

-----------------------------------------------------------------------------
\* client_process, for the one client.

InClientPhase == loop.at = "client" /\ AfterClient /\ UNCHANGED <<d2h, dev>>

\* The client was released earlier in this iteration.
ClientGone ==
  /\ InClientPhase /\ client.state = "FREED"
  /\ UNCHANGED <<conn, client, sock, h2d>>

\* process_recv reads a connect request: device_start_connect sends the SYN.
RecvConnect ==
  /\ InClientPhase /\ loop.rd /\ client.state = "COMMAND" /\ sock.req
  /\ conn' = AfterSend([NoConn EXCEPT !.state = "CONNECTING"])
  /\ h2d' = Append(h2d, Tcp(NoConn, "SYN", 0))
  /\ client' = [client EXCEPT !.state = "CONNECTING1"]
  /\ sock' = [sock EXCEPT !.req = FALSE]

\* process_recv finds the connection closed, or, when the state moved on to
\* CONNECTING2 since select(), has no buffer left to read into.
RecvFails ==
  /\ InClientPhase /\ loop.rd /\ ~sock.req
  /\ client.state \in {"COMMAND", "CONNECTING1", "CONNECTING2"}
  /\ ClientClose

\* process_send: the reply leaves; the client of an open connection becomes
\* CONNECTED and takes over the event mask kept for it in devents.
SendReply ==
  /\ InClientPhase /\ loop.wr /\ ~loop.rd
  /\ client.state \in {"COMMAND", "CONNECTING1", "CONNECTING2"}
  /\ sock' = [sock EXCEPT !.res = IF sock.peer = "open" THEN client.reply ELSE @]
  /\ client' = IF client.state = "CONNECTING2"
               THEN [client EXCEPT !.reply = "NONE", !.state = "CONNECTED", !.events = client.devents]
               ELSE [client EXCEPT !.reply = "NONE", !.events = @ \ {"POLLOUT"}]
  /\ UNCHANGED <<conn, h2d>>

SendReplyFails ==
  /\ InClientPhase /\ loop.wr /\ ~loop.rd /\ sock.peer = "gone"
  /\ client.state \in {"COMMAND", "CONNECTING1", "CONNECTING2"}
  /\ ClientClose

\* device_client_process: first ib_buf to the client, n bytes of it ...
WriteDue == loop.wr /\ conn.ib_size > 0
WriteSizes ==
  CASE ~WriteDue           -> {0}
    [] sock.peer = "gone"  -> {conn.ib_size}
    [] OTHER               -> 1 .. Lesser(conn.ib_size, SockBufSize - sock.out)

BugOnlyWhenLarge(n) == n > 0 /\ conn.tx_win > MaxPacket
AdvertiseDue(n) == n > 0 /\ conn.tx_win < MaxPacket
BugNotConsumed(n) == [conn EXCEPT !.tx_win = @ + n]
Drained(n) == [conn EXCEPT !.ib_size = @ - n, !.tx_win = @ + n]
AfterWrite(n) == IF AdvertiseDue(n) THEN AckNow(Drained(n)) ELSE Drained(n)
WriteOut(n) == IF AdvertiseDue(n) THEN Append(h2d, Tcp(Drained(n), "ACK", 0)) ELSE h2d

\* ... then what the client sent, m bytes of it, to the device.
ReadDue(n) == loop.rd /\ AfterWrite(n).sendable > 0
BugSeqBySendable(c, m) == [AfterSend(c) EXCEPT !.tx_seq = SeqAdd(@, c.sendable)]
AfterRead(c, m) == [AfterSend(c) EXCEPT !.tx_seq = SeqAdd(@, m)]

ProcessConnected ==
  /\ InClientPhase /\ client.state = "CONNECTED"
  /\ \E n \in WriteSizes :
       LET c == AfterWrite(n)
           m == IF ReadDue(n) THEN Lesser(sock.in, c.sendable) ELSE 0
       IN  /\ ReadDue(n) => sock.in > 0
           /\ conn' = UpdateConn(IF m > 0 THEN AfterRead(c, m) ELSE c)
           /\ h2d' = IF m > 0 THEN Append(WriteOut(n), Tcp(c, "ACK", m)) ELSE WriteOut(n)
           /\ client' = SetEvents(client, conn'.events)
           /\ sock' = [sock EXCEPT !.in = @ - m, !.out = IF sock.peer = "open" THEN @ + n ELSE @]

\* client_write fails, or client_read does after the write.
WriteFails ==
  /\ InClientPhase /\ client.state = "CONNECTED" /\ WriteDue /\ sock.peer = "gone"
  /\ Teardown(conn, h2d)

ReadFails ==
  /\ InClientPhase /\ client.state = "CONNECTED" /\ sock.peer = "gone"
  /\ \E n \in WriteSizes : ReadDue(n) /\ Teardown(AfterWrite(n), WriteOut(n))

ClientProcess ==
  \/ ClientGone \/ RecvConnect \/ RecvFails \/ SendReply \/ SendReplyFails
  \/ ProcessConnected \/ WriteFails \/ ReadFails

-----------------------------------------------------------------------------
\* The application at the other end of the client socket (external).  It waits
\* for the reply before it sends data or another request.

App == UNCHANGED <<conn, client, loop, h2d, d2h, dev>> /\ sock.peer = "open"

AppConnect ==
  /\ App /\ client.state = "COMMAND" /\ ~sock.req /\ client.reply = "NONE"
  /\ sock' = [sock EXCEPT !.req = TRUE, !.res = "NONE"]

AppWrite ==
  /\ App /\ sock.res = "OK" /\ client.state # "FREED"
  /\ \E n \in AppSizes : sock.in + n <= SockBufSize /\ sock' = [sock EXCEPT !.in = @ + n]

AppRead ==
  /\ App
  /\ \E n \in 1 .. sock.out : sock' = [sock EXCEPT !.out = @ - n]

AppClose == App /\ sock' = [sock EXCEPT !.peer = "gone", !.out = 0]

-----------------------------------------------------------------------------
\* The device (external): a TCP peer that starts at sequence number 0, keeps to
\* the window it was last given, and tells of the data it took.

Reply(flags, seq, len) ==
  [flags |-> flags, seq |-> seq, ack |-> dev.ack, win |-> Advertised(DevBufSize - dev.buf), len |-> len]

DevicePop == h2d # <<>> /\ h2d' = Tail(h2d) /\ UNCHANGED <<conn, client, sock, loop>>

DeviceAccept ==
  /\ DevicePop /\ Head(h2d).flags = "SYN" /\ dev.state = "NONE"
  /\ dev' = [NoDev EXCEPT !.state = "SYN_RCVD", !.seq = 1, !.ack = SeqAdd(Head(h2d).seq, 1),
                          !.win = Head(h2d).win]
  /\ d2h' = Append(d2h, [flags |-> "SYNACK", seq |-> 0, ack |-> dev'.ack,
                         win |-> Advertised(DevBufSize), len |-> 0])

DeviceRefuse ==
  /\ DevicePop /\ Head(h2d).flags = "SYN" /\ dev.state = "NONE"
  /\ \E f \in {"RST", "FIN"} : d2h' = Append(d2h, Reply(f, 0, 0))
  /\ UNCHANGED dev

DeviceTake ==
  /\ DevicePop /\ Head(h2d).flags = "ACK"
  /\ dev' = IF dev.state \in {"NONE", "CLOSED"} THEN dev
            ELSE [dev EXCEPT !.state = "OPEN", !.una = Head(h2d).ack, !.win = Head(h2d).win,
                             !.ack = SeqAdd(@, Head(h2d).len), !.buf = @ + Head(h2d).len,
                             !.owes = @ \/ Head(h2d).len > 0]
  /\ UNCHANGED d2h

DeviceReset ==
  /\ DevicePop /\ Head(h2d).flags = "RST"
  /\ dev' = NoDev /\ UNCHANGED d2h

DeviceReceive == DeviceAccept \/ DeviceRefuse \/ DeviceTake \/ DeviceReset

DevicePush ==
  dev.state = "OPEN" /\ Len(d2h) < ChanBound /\ UNCHANGED <<conn, client, sock, loop, h2d>>

DeviceRoom == dev.win > SeqSub(dev.seq, dev.una)

DeviceSend ==
  /\ DevicePush
  /\ \E n \in DevSizes :
       /\ SeqSub(dev.seq, dev.una) + n <= dev.win
       /\ d2h' = Append(d2h, Reply("ACK", dev.seq, n))
       /\ dev' = [dev EXCEPT !.seq = SeqAdd(@, n), !.owes = FALSE]

DeviceAck ==
  /\ DevicePush /\ dev.owes
  /\ d2h' = Append(d2h, Reply("ACK", dev.seq, 0))
  /\ dev' = [dev EXCEPT !.owes = FALSE]

DeviceConsume ==
  /\ dev.state = "OPEN" /\ UNCHANGED <<conn, client, sock, loop, h2d, d2h>>
  /\ \E n \in 1 .. dev.buf : dev' = [dev EXCEPT !.buf = @ - n, !.owes = TRUE]

DeviceClose ==
  /\ DevicePush
  /\ \E f \in {"RST", "FIN"} : d2h' = Append(d2h, Reply(f, dev.seq, 0))
  /\ dev' = [dev EXCEPT !.state = "CLOSED", !.ack = 0, !.win = 0, !.buf = 0, !.owes = FALSE]

-----------------------------------------------------------------------------

Init ==
  /\ conn = NoConn /\ dev = NoDev /\ h2d = <<>> /\ d2h = <<>>
  /\ client = [state |-> "COMMAND", events |-> {"POLLIN"}, devents |-> {}, reply |-> "NONE", frees |-> 0]
  /\ sock = [peer |-> "open", req |-> FALSE, res |-> "NONE", in |-> 0, out |-> 0]
  /\ loop = [at |-> "select", rd |-> FALSE, wr |-> FALSE]

Next ==
  \/ Select \/ SelectTimeout \/ DeviceInput \/ ClientProcess
  \/ AppConnect \/ AppWrite \/ AppRead \/ AppClose
  \/ DeviceReceive \/ DeviceSend \/ DeviceAck \/ DeviceConsume \/ DeviceClose

Spec == Init /\ [][Next]_vars

MainLoop == Select \/ DeviceInput \/ ClientProcess

\* The main thread and the device keep running, and the application reads what
\* it is sent.  Nobody has to write, to send or to close.
Fairness ==
  /\ WF_vars(MainLoop)
  /\ WF_vars(DeviceReceive) /\ WF_vars(DeviceAck) /\ WF_vars(DeviceConsume)
  /\ WF_vars(AppRead)

FairSpec == Spec /\ Fairness

-----------------------------------------------------------------------------
(***************************************************************************)
(* Properties.                                                             *)
(***************************************************************************)

\* The connection and the device's end of it are both up.
Open == conn.state = "CONNECTED" /\ dev.state \in {"SYN_RCVD", "OPEN"}

Connection ==
  [state : {"NONE", "CONNECTING", "CONNECTED"},
   tx_seq : SeqNum, tx_ack : SeqNum, tx_acked : SeqNum, tx_win : 0 .. InBufSize,
   rx_ack : SeqNum, rx_win : Int, sendable : 0 .. MaxPayload,
   ack_pending : BOOLEAN, events : SUBSET Events, ib_size : 0 .. InBufSize]
Client ==
  [state : {"COMMAND", "CONNECTING1", "CONNECTING2", "CONNECTED", "FREED"},
   events : SUBSET Events, devents : SUBSET Events,
   reply : {"NONE", "OK", "REFUSED"}, frees : Nat]
Socket ==
  [peer : {"open", "gone"}, req : BOOLEAN, res : {"NONE", "OK", "REFUSED"},
   in : 0 .. SockBufSize, out : 0 .. SockBufSize]
DeviceEnd ==
  [state : {"NONE", "SYN_RCVD", "OPEN", "CLOSED"}, seq : SeqNum, ack : SeqNum, una : SeqNum,
   win : Int, buf : Nat, owes : BOOLEAN]

\* Every variable of the model keeps its type: in particular the uint32_t
\* window and buffer counts of device.cpp:89-107 stay within the buffer.
TypeOK ==
  /\ conn \in Connection /\ client \in Client /\ sock \in Socket /\ dev \in DeviceEnd
  /\ loop \in [at : {"select", "device", "client"}, rd : BOOLEAN, wr : BOOLEAN]
  /\ h2d \in Seq(Packet) /\ d2h \in Seq(Packet)

\* The window the host keeps is exactly the free space of ib_buf: no handler
\* changes one without the other (connection_device_input against the write
\* half of device_client_process).
WindowIsFreeSpace == conn.state = "CONNECTED" => conn.tx_win + conn.ib_size = InBufSize

\* A device that keeps to the window it was given never makes
\* connection_device_input take its overflow branch, whatever packets and
\* acknowledgements are still under way and however the window was rounded.
NoInputOverflow ==
  conn.state = "CONNECTED" /\ d2h # <<>> => conn.ib_size + Head(d2h).len <= InBufSize

\* update_connection and send_tcp never overrun the device: what is on its way
\* fits the buffer the device advertised, also while acknowledgements are late.
DeviceNotOverrun ==
  Open /\ h2d # <<>> => dev.buf + Head(h2d).len <= DevBufSize

\* No byte is lost, repeated or reordered: device_tcp_input compares no sequence
\* number, and yet each side's next packet starts where the other stopped.
StreamsInOrder ==
  /\ conn.state = "CONNECTED" /\ d2h # <<>> => Head(d2h).seq = conn.tx_ack
  /\ Open /\ h2d # <<>> => Head(h2d).seq = dev.ack

\* Between handlers no acknowledgement is owed and the derived fields are fresh:
\* update_connection has run after the last change of what it reads, and its
\* mask has reached the client (client_set_events).
FlagsFresh ==
  conn.state = "CONNECTED" =>
    /\ conn = UpdateConn(conn) /\ ~conn.ack_pending
    /\ client.state = "CONNECTED" => client.events = conn.events
    /\ client.state = "CONNECTING2" => client.devents = conn.events

\* Connection and client move together, so client_notify_connect always finds
\* its client in CONNECTING1 and device_client_process finds its connection.
StatesAgree ==
  /\ conn.state = "CONNECTING" <=> client.state = "CONNECTING1"
  /\ conn.state = "CONNECTED" <=> client.state \in {"CONNECTING2", "CONNECTED"}

\* device.cpp:79 "being freed; used to prevent infinite recursion between
\* client<->device freeing": whoever starts, the client is freed once.
ClientFreedOnce == client.frees <= 1

\* A device whose window closed gets room again, or the connection ends.
WindowReopens ==
  (dev.state = "OPEN" /\ ~DeviceRoom) ~> (dev.state # "OPEN" \/ DeviceRoom)

\* What is in ib_buf reaches the application, or the connection ends.
InputDelivered ==
  (conn.ib_size > 0) ~> (sock.out > 0 \/ conn.state # "CONNECTED" \/ sock.peer = "gone")

\* An application whose socket buffer is full gets to write again, or the
\* connection ends.
AppUnblocked ==
  (client.state = "CONNECTED" /\ sock.in = SockBufSize)
    ~> (client.state # "CONNECTED" \/ sock.in < SockBufSize)

\* A connect request is answered, refused or accepted, unless the client goes.
ConnectAnswered ==
  (client.state = "CONNECTING1") ~> (sock.res # "NONE" \/ client.state = "FREED")

-----------------------------------------------------------------------------
(***************************************************************************)
(* The inductive invariant.  A direction of the connection is an arc of    *)
(* the sequence space: it starts at the oldest number its sender knows to  *)
(* be acknowledged (base) and ends at the sender's next number.  All the   *)
(* numbers in use lie on it, so their offsets from the base compare like   *)
(* integers although the numbers wrap.                                     *)
(***************************************************************************)

\* The packets of chan carry, without a gap, the bytes from number `from` to `to`.
Chain(chan, from, to, base) ==
  /\ chan = <<>> => from = to
  /\ \A i \in 1 .. Len(chan) :
       /\ i = 1 => chan[i].seq = from
       /\ i < Len(chan) => chan[i + 1].seq = SeqAdd(chan[i].seq, chan[i].len)
       /\ i = Len(chan) => to = SeqAdd(chan[i].seq, chan[i].len)
       /\ SeqSub(from, base) <= SeqSub(chan[i].seq, base)
       /\ SeqSub(chan[i].seq, base) + chan[i].len <= SeqSub(to, base)
  /\ \A i, j \in 1 .. Len(chan) :
       i < j => SeqSub(chan[i].seq, base) + chan[i].len <= SeqSub(chan[j].seq, base)

\* The acknowledgements in chan grow, the last is at most `at`, and none grants
\* a window that ends past the end of the room the receiver has from `at` on.
Acks(chan, at, room, base) ==
  /\ \A i \in 1 .. Len(chan) :
       /\ SeqSub(chan[i].ack, base) <= SeqSub(at, base)
       /\ SeqSub(chan[i].ack, base) + chan[i].win <= SeqSub(at, base) + room
  /\ \A i, j \in 1 .. Len(chan) :
       i < j => SeqSub(chan[i].ack, base) <= SeqSub(chan[j].ack, base)

\* A sender at `next`, granted the window win at base, towards a receiver that
\* expects `at` and has room bytes free.
Sender(next, win, at, room, base) ==
  /\ SeqSub(at, base) <= SeqSub(next, base)
  /\ SeqSub(next, base) <= SeqSub(at, base) + room
  /\ win <= SeqSub(at, base) + room

\* One direction: data on its way to a receiver that expects `at` and has room, and
\* acks on their way back to a sender at `next` that was granted win at base.
Flow(data, acks, at, room, next, win, base, bound) ==
  /\ SeqSub(next, base) <= bound /\ win <= bound /\ room <= bound
  /\ Sender(next, win, at, room, base)
  /\ Chain(data, at, next, base)
  /\ Acks(acks, at, room, base)
  /\ \A i \in 1 .. Len(acks) : acks[i].flags = "ACK" /\ acks[i].win <= bound

\* From the device: its numbers against the connection's tx_ack and tx_win.
UpInv ==
  conn.state = "CONNECTED" =>
    /\ dev.state \in {"SYN_RCVD", "OPEN", "CLOSED"}
    /\ Flow(d2h, h2d, conn.tx_ack, conn.tx_win, dev.seq, dev.win, dev.una, InBufSize)

\* To the device: the connection's numbers against the device's ack and room.
DownInv ==
  Open =>
    Flow(h2d, d2h, dev.ack, DevBufSize - dev.buf, conn.tx_seq, conn.rx_win, conn.rx_ack, DevBufSize)

\* Before the connection is up: what is under way in either direction.
HandshakeInv ==
  /\ conn.state = "CONNECTING" =>
       /\ conn = AfterSend([NoConn EXCEPT !.state = "CONNECTING"])
       /\ \/ /\ dev = NoDev /\ d2h = <<>> /\ h2d # <<>>
             /\ h2d[Len(h2d)] = Tcp(NoConn, "SYN", 0)
             /\ \A i \in 1 .. Len(h2d) - 1 : h2d[i].flags = "RST"
          \/ /\ h2d = <<>> /\ Len(d2h) = 1 /\ d2h[1].flags = "SYNACK"
             /\ d2h[1] = [flags |-> "SYNACK", seq |-> 0, ack |-> 1,
                          win |-> Advertised(DevBufSize), len |-> 0]
             /\ dev = [NoDev EXCEPT !.state = "SYN_RCVD", !.seq = 1, !.ack = 1,
                                    !.win = Advertised(InBufSize)]
          \/ /\ h2d = <<>> /\ dev = NoDev
             /\ Len(d2h) = 1 /\ d2h[1].flags \in {"RST", "FIN"}
  /\ client.state = "COMMAND" =>
       /\ dev = NoDev /\ d2h = <<>>
       /\ \A i \in 1 .. Len(h2d) : h2d[i].flags = "RST"

\* What the handlers keep among the connection, the client and the loop alone:
\* before it is up, too, the connection's window is the free part of its buffer,
\* and the loop goes to the device only for a packet that is there.
LocalInv ==
  /\ TypeOK /\ StatesAgree /\ FlagsFresh
  /\ conn.tx_win + conn.ib_size = InBufSize
  /\ loop.at = "device" => d2h # <<>>

IInv == LocalInv /\ HandshakeInv /\ UpInv /\ DownInv

=============================================================================
