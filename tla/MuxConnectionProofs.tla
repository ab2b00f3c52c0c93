------------------------ MODULE MuxConnectionProofs ------------------------
(***************************************************************************)
(* Proofs about MuxConnection, for every size of the buffers, windows and  *)
(* sequence space the assumptions allow: what the handlers keep among the  *)
(* connection, the client and the loop (LocalInv), and what they keep of   *)
(* the bytes in the buffers and on their way (IInv).                       *)
(***************************************************************************)
EXTENDS MuxConnection, SequenceTheorems, TLAPS

-----------------------------------------------------------------------------
\* The helpers on connections, clients and packets.

LEMMA SeqType ==
  ASSUME NEW a \in SeqNum, NEW b \in SeqNum
  PROVE  SeqAdd(a, b) \in SeqNum /\ SeqSub(a, b) \in SeqNum
BY BufferAssumption DEF SeqNum, SeqAdd, SeqSub

LEMMA SeqConstants == 0 \in SeqNum /\ 1 \in SeqNum
BY BufferAssumption DEF SeqNum

LEMMA AdvertisedBound ==
  ASSUME NEW w \in Nat
  PROVE  Advertised(w) \in Nat /\ Advertised(w) <= w
BY WindowAssumption DEF Advertised

LEMMA SendableType ==
  ASSUME NEW c \in Connection
  PROVE  Sendable(c) \in 0 .. MaxPayload
<1>1. SeqSub(c.tx_seq, c.rx_ack) \in Int /\ c.rx_win \in Int
  BY SeqType, BufferAssumption DEF Connection, SeqNum
<1> QED BY <1>1, WindowAssumption, BufferAssumption DEF Sendable, Lesser

\* update_connection keeps the numbers and leaves its results consistent.
LEMMA UpdateConnFresh ==
  ASSUME NEW c \in Connection
  PROVE  /\ UpdateConn(c) \in Connection
         /\ UpdateConn(UpdateConn(c)) = UpdateConn(c)
         /\ UpdateConn(c).state = c.state
         /\ UpdateConn(c).tx_win = c.tx_win /\ UpdateConn(c).ib_size = c.ib_size
         /\ UpdateConn(c).ack_pending = (c.tx_acked # c.tx_ack)
<1>1. Sendable(c) \in 0 .. MaxPayload
  BY SendableType
<1>2. Sendable(UpdateConn(c)) = Sendable(c)
  BY DEF Sendable, UpdateConn, Connection
<1> QED BY <1>1, <1>2 DEF UpdateConn, Connection, Events

LEMMA AfterSendType ==
  ASSUME NEW c \in Connection
  PROVE  /\ AfterSend(c) \in Connection
         /\ AfterSend(c).state = c.state
         /\ AfterSend(c).tx_win = c.tx_win /\ AfterSend(c).ib_size = c.ib_size
         /\ AfterSend(c).tx_acked = AfterSend(c).tx_ack
         /\ AfterSend(c).tx_ack = c.tx_ack /\ AfterSend(c).sendable = c.sendable
BY DEF AfterSend, Connection

\* send_tcp_ack leaves no acknowledgement pending.
LEMMA AckNowFresh ==
  ASSUME NEW c \in Connection
  PROVE  /\ AckNow(c) \in Connection /\ AckNow(c) = UpdateConn(AckNow(c))
         /\ ~AckNow(c).ack_pending
         /\ AckNow(c).state = c.state
         /\ AckNow(c).tx_win = c.tx_win /\ AckNow(c).ib_size = c.ib_size
         /\ AckNow(c).tx_acked = AckNow(c).tx_ack
<1>1. AfterSend(c) \in Connection
  BY AfterSendType
<1>2. AckNow(c) = UpdateConn(AfterSend(c))
  BY DEF AckNow
<1>3. UpdateConn(AfterSend(c)).tx_acked = UpdateConn(AfterSend(c)).tx_ack
  BY <1>1 DEF UpdateConn, AfterSend, Connection
<1>4. /\ UpdateConn(AfterSend(c)) \in Connection
      /\ UpdateConn(UpdateConn(AfterSend(c))) = UpdateConn(AfterSend(c))
      /\ UpdateConn(AfterSend(c)).state = AfterSend(c).state
      /\ UpdateConn(AfterSend(c)).tx_win = AfterSend(c).tx_win
      /\ UpdateConn(AfterSend(c)).ib_size = AfterSend(c).ib_size
      /\ ~UpdateConn(AfterSend(c)).ack_pending
  BY <1>1, AfterSendType, UpdateConnFresh
<1> QED BY <1>2, <1>3, <1>4, AfterSendType

LEMMA TcpType ==
  ASSUME NEW c \in Connection, NEW f \in Flags, NEW n \in SeqNum
  PROVE  Tcp(c, f, n) \in Packet
BY AdvertisedBound, BufferAssumption DEF Tcp, Packet, Connection

LEMMA NoConnType == NoConn \in Connection
BY SeqConstants, BufferAssumption, WindowAssumption DEF NoConn, Connection, Events

LEMMA NoDevType == NoDev \in DeviceEnd
BY SeqConstants, BufferAssumption DEF NoDev, DeviceEnd

LEMMA TeardownRstType ==
  ASSUME NEW c, NEW b \in Connection, NEW s, c = [b EXCEPT !.state = s]
  PROVE  TeardownRst(c) \in Seq(Packet)
<1>1. 0 \in SeqNum /\ "RST" \in Flags
  BY SeqConstants DEF Flags
<1>2. Tcp(c, "RST", 0) = Tcp(b, "RST", 0)
  BY DEF Tcp, Connection
<1>3. Tcp(c, "RST", 0) \in Packet
  BY <1>1, <1>2, TcpType
<1>4. <<Tcp(c, "RST", 0)>> \in Seq(Packet) /\ <<>> \in Seq(Packet)
  BY <1>3
<1> QED BY <1>4 DEF TeardownRst

LEMMA SetEventsType ==
  ASSUME NEW cl \in Client, NEW e \in SUBSET Events
  PROVE  /\ SetEvents(cl, e) \in Client
         /\ SetEvents(cl, e).state = cl.state
         /\ cl.state = "CONNECTED" => SetEvents(cl, e).events = e
         /\ cl.state \in {"CONNECTING2", "CONNECTED"} => SetEvents(cl, e).devents = e
<1>1. CASE cl.state = "CONNECTED"
  BY <1>1 DEF SetEvents, Client
<1>2. CASE cl.state = "CONNECTING2"
  BY <1>2 DEF SetEvents, Client
<1>3. CASE cl.state \notin {"CONNECTING2", "CONNECTED"}
  BY <1>3 DEF SetEvents, Client
<1> QED BY <1>1, <1>2, <1>3

LEMMA ReleasedType ==
  ASSUME NEW cl \in Client, NEW n \in Nat
  PROVE  Released(cl, n) \in Client /\ Released(cl, n).state = "FREED"
<1>1. cl.frees + n \in Nat /\ {} \in SUBSET Events
  BY DEF Client
<1> QED BY <1>1 DEF Released, Client

LEMMA NotifyConnectType ==
  ASSUME NEW cl \in Client, NEW r \in {"OK", "REFUSED"}
  PROVE  /\ NotifyConnect(cl, r) \in Client
         /\ NotifyConnect(cl, r).state =
              IF cl.state # "CONNECTING1" THEN cl.state
              ELSE IF r = "OK" THEN "CONNECTING2" ELSE "COMMAND"
BY DEF NotifyConnect, Client, Events

-----------------------------------------------------------------------------
\* Every action keeps LocalInv.

LoopType == [at : {"select", "device", "client"}, rd : BOOLEAN, wr : BOOLEAN]

LEMMA HeardType ==
  ASSUME TypeOK, NEW p \in Packet
  PROVE  /\ Heard(p) \in Connection /\ Heard(p).state = conn.state
         /\ Heard(p).tx_win = conn.tx_win /\ Heard(p).ib_size = conn.ib_size
         /\ Heard(p).tx_ack = conn.tx_ack /\ Heard(p).tx_acked = conn.tx_acked
         /\ Heard(p).tx_seq = conn.tx_seq
BY DEF TypeOK, Heard, Connection, Packet

\* The loop after a handler; the packet at the head of the device's channel.
LEMMA LoopTypes ==
  ASSUME TypeOK
  PROVE  /\ AfterDevice => loop' \in LoopType /\ loop'.at # "device"
         /\ AfterClient => loop' \in LoopType /\ loop'.at # "device"
         /\ d2h # <<>> => Head(d2h) \in Packet /\ Tail(d2h) \in Seq(Packet)
         /\ h2d # <<>> => Head(h2d) \in Packet /\ Tail(h2d) \in Seq(Packet)
<1>1. loop \in LoopType /\ d2h \in Seq(Packet) /\ h2d \in Seq(Packet)
  BY DEF TypeOK, LoopType
<1>2. AfterDevice => loop' \in LoopType /\ loop'.at # "device"
  BY <1>1 DEF AfterDevice, LoopType
<1>3. AfterClient => loop' \in LoopType /\ loop'.at # "device"
  BY <1>1 DEF AfterClient, LoopType
<1> QED BY <1>1, <1>2, <1>3, HeadTailProperties

\* A teardown begun by the device side, or by device_client_process, for a
\* connection b that may have been put in the state s first.
LEMMA TeardownLocal ==
  ASSUME LocalInv, NEW b \in Connection, NEW s, NEW c, c = [b EXCEPT !.state = s],
         b.ib_size \in Nat, NEW out \in Seq(Packet), Teardown(c, out),
         c.state \in {"CONNECTING", "REFUSED"} => conn.state = "CONNECTING"
  PROVE  /\ conn' \in Connection /\ client' \in Client /\ sock' \in Socket
         /\ h2d' \in Seq(Packet)
         /\ conn' = NoConn /\ client'.state \in {"COMMAND", "FREED"}
<1>1. h2d' \in Seq(Packet)
  <2>1. TeardownRst(c) \in Seq(Packet)
    BY TeardownRstType
  <2> QED BY <2>1, ConcatProperties DEF Teardown
<1>2. conn' = NoConn /\ conn' \in Connection
  BY NoConnType DEF Teardown
<1>3. Flushed(c) \in Nat /\ Flushed(c) + sock.out <= SockBufSize
  <2>1. c.ib_size \in Nat /\ sock.out \in 0 .. SockBufSize
    BY DEF Connection, LocalInv, TypeOK, Socket
  <2> QED BY <2>1, EnvironmentAssumption DEF Flushed, Lesser
<1>4. sock' \in Socket
  <2>1. sock.out + Flushed(c) \in 0 .. SockBufSize /\ sock \in Socket
    BY <1>3, EnvironmentAssumption DEF LocalInv, TypeOK, Socket
  <2>2. sock' = [sock EXCEPT !.out = @ + Flushed(c)]
    BY DEF Teardown
  <2> QED BY <2>1, <2>2 DEF Socket
<1>5. client \in Client /\ StatesAgree
  BY DEF LocalInv, TypeOK
<1>6. client' \in Client /\ client'.state \in {"COMMAND", "FREED"}
  <2>1. CASE c.state \in {"CONNECTING", "REFUSED"}
    <3>1. client.state = "CONNECTING1" /\ client' = NotifyConnect(client, "REFUSED")
      BY <2>1, <1>5 DEF StatesAgree, Teardown
    <3> QED BY <3>1, <1>5, NotifyConnectType
  <2>2. CASE c.state \notin {"CONNECTING", "REFUSED"}
    <3>1. client' = Released(client, 1)
      BY <2>2 DEF Teardown
    <3> QED BY <3>1, <1>5, ReleasedType
  <2> QED BY <2>1, <2>2
<1> QED BY <1>1, <1>2, <1>4, <1>6

\* What is left to show once a handler has closed the connection.
LEMMA ClosedLocal ==
  ASSUME conn' = NoConn, client'.state \in {"COMMAND", "FREED"}, TypeOK',
         loop'.at # "device"
  PROVE  LocalInv'
BY BufferAssumption DEF LocalInv, StatesAgree, FlagsFresh, NoConn

\* What is left to show once a handler has ended with an updated connection.
LEMMA ConnectedLocal ==
  ASSUME TypeOK', conn'.state = "CONNECTED", conn' = UpdateConn(conn'), ~conn'.ack_pending,
         conn'.tx_win + conn'.ib_size = InBufSize,
         client'.state \in {"CONNECTING2", "CONNECTED"},
         client'.state = "CONNECTED" => client'.events = conn'.events,
         client'.state = "CONNECTING2" => client'.devents = conn'.events,
         loop'.at # "device"
  PROVE  LocalInv'
BY DEF LocalInv, StatesAgree, FlagsFresh

\* The actions of the application and of the device leave all of it alone.
LEMMA EnvironmentLocal ==
  ASSUME LocalInv, TypeOK', UNCHANGED <<conn, client, loop>>,
         d2h' # <<>> \/ loop.at # "device"
  PROVE  LocalInv'
BY DEF LocalInv, StatesAgree, FlagsFresh, UpdateConn, Sendable

LEMMA SelectLocal == LocalInv /\ Select => LocalInv'
<1> SUFFICES ASSUME LocalInv, Select PROVE LocalInv'
  OBVIOUS
<1>1. UNCHANGED <<conn, client, sock, h2d, d2h, dev>>
  BY DEF Select
<1>2. /\ loop' \in LoopType
      /\ loop'.at = "device" => d2h # <<>>
  BY DEF Select, LoopType, DeviceData, Readable, Writable, TypeOK, LocalInv
<1>3. TypeOK'
  BY <1>1, <1>2 DEF TypeOK, LocalInv, LoopType
<1>4. StatesAgree' /\ FlagsFresh'
  BY <1>1 DEF LocalInv, StatesAgree, FlagsFresh, UpdateConn, Sendable
<1> QED BY <1>1, <1>2, <1>3, <1>4 DEF LocalInv

LEMMA SelectTimeoutLocal == LocalInv /\ SelectTimeout => LocalInv'
<1> SUFFICES ASSUME LocalInv, SelectTimeout PROVE LocalInv'
  OBVIOUS
<1>1. UNCHANGED <<sock, loop, d2h, dev>> /\ loop.at # "device"
  BY DEF SelectTimeout
<1>2. conn \in Connection /\ client \in Client /\ h2d \in Seq(Packet) /\ TypeOK
  BY DEF LocalInv, TypeOK
<1>3. CASE conn.state = "CONNECTED" /\ conn.ack_pending
  BY <1>3 DEF LocalInv, FlagsFresh
<1>4. CASE ~(conn.state = "CONNECTED" /\ conn.ack_pending)
  <2>1. UNCHANGED <<h2d, conn, client>>
    BY <1>4 DEF SelectTimeout
  <2>2. TypeOK'
    BY <1>1, <1>2, <2>1 DEF TypeOK
  <2> QED BY <1>1, <2>1, <2>2, EnvironmentLocal
<1> QED BY <1>3, <1>4

LEMMA DeviceInputLocal == LocalInv /\ DeviceInput => LocalInv'
<1> SUFFICES ASSUME LocalInv, DeviceInput PROVE LocalInv'
  OBVIOUS
<1> DEFINE p == Head(d2h)
<1>1. /\ TypeOK /\ StatesAgree
      /\ conn \in Connection /\ client \in Client /\ sock \in Socket /\ h2d \in Seq(Packet)
      /\ d2h # <<>> /\ d2h' = Tail(d2h) /\ UNCHANGED dev
      /\ conn.tx_win + conn.ib_size = InBufSize
  BY DEF LocalInv, TypeOK, DeviceInput
<1>2. /\ p \in Packet /\ d2h' \in Seq(Packet)
      /\ loop' \in LoopType /\ loop'.at # "device"
  BY <1>1, LoopTypes DEF DeviceInput
<1>3. /\ Heard(p) \in Connection /\ Heard(p).state = conn.state
      /\ Heard(p).tx_win = conn.tx_win /\ Heard(p).ib_size = conn.ib_size
      /\ Heard(p).tx_ack = conn.tx_ack /\ Heard(p).tx_seq = conn.tx_seq
  BY <1>1, <1>2, HeardType
<1>4. ASSUME conn' \in Connection, client' \in Client, sock' \in Socket, h2d' \in Seq(Packet)
      PROVE  TypeOK'
  BY <1>1, <1>2, <1>4 DEF TypeOK, LoopType
<1>5. CASE InputNoConnection(p)
  <2>1. h2d' \in Seq(Packet)
    <3>1. [flags |-> "RST", seq |-> 0, ack |-> p.seq, win |-> 0, len |-> 0] \in Packet
      BY <1>2, SeqConstants DEF Packet, Flags
    <3> QED BY <1>1, <1>5, <3>1, AppendProperties DEF InputNoConnection
  <2>2. UNCHANGED <<conn, client, sock>>
    BY <1>5 DEF InputNoConnection
  <2>3. TypeOK'
    BY <1>1, <1>4, <2>1, <2>2
  <2> QED BY <1>2, <2>2, <2>3 DEF LocalInv, StatesAgree, FlagsFresh, UpdateConn, Sendable
<1>6. CASE InputSynAck(p)
  <2> DEFINE c == [Heard(p) EXCEPT !.tx_seq = SeqAdd(@, 1), !.tx_ack = SeqAdd(@, 1)]
             d == [AfterSend(c) EXCEPT !.state = "CONNECTED"]
  <2>1. c \in Connection /\ c.tx_win = conn.tx_win /\ c.ib_size = conn.ib_size
    <3>1. /\ SeqAdd(Heard(p).tx_seq, 1) \in SeqNum
          /\ SeqAdd(Heard(p).tx_ack, 1) \in SeqNum
      BY <1>3, SeqType, SeqConstants DEF Connection
    <3> QED BY <1>3, <3>1 DEF Connection
  <2>2. /\ AfterSend(c) \in Connection
        /\ AfterSend(c).tx_win = conn.tx_win /\ AfterSend(c).ib_size = conn.ib_size
        /\ AfterSend(c).tx_acked = AfterSend(c).tx_ack
    BY <2>1, AfterSendType
  <2>3. /\ d \in Connection /\ d.state = "CONNECTED"
        /\ d.tx_win = conn.tx_win /\ d.ib_size = conn.ib_size /\ d.tx_acked = d.tx_ack
    BY <2>2 DEF Connection
  <2>4. /\ conn' = UpdateConn(d) /\ UNCHANGED sock
        /\ h2d' = Append(h2d, Tcp(c, "ACK", 0))
        /\ client' = SetEvents(NotifyConnect(client, "OK"), conn'.events)
        /\ conn.state = "CONNECTING"
    BY <1>6 DEF InputSynAck
  <2>5. /\ UpdateConn(d) \in Connection /\ UpdateConn(UpdateConn(d)) = UpdateConn(d)
        /\ UpdateConn(d).state = "CONNECTED" /\ ~UpdateConn(d).ack_pending
        /\ UpdateConn(d).tx_win + UpdateConn(d).ib_size = InBufSize
    BY <1>1, <2>3, UpdateConnFresh
  <2>6. Tcp(c, "ACK", 0) \in Packet
    BY <2>1, TcpType, SeqConstants DEF Flags
  <2>7. h2d' \in Seq(Packet)
    BY <1>1, <2>4, <2>6, AppendProperties
  <2>8. NotifyConnect(client, "OK") \in Client /\ NotifyConnect(client, "OK").state = "CONNECTING2"
    BY <1>1, <2>4, NotifyConnectType DEF StatesAgree
  <2>9. /\ client' \in Client /\ client'.state = "CONNECTING2"
        /\ client'.devents = conn'.events
    <3>1. conn'.events \in SUBSET Events
      BY <2>4, <2>5 DEF Connection
    <3> QED BY <2>4, <2>8, <3>1, SetEventsType
  <2> QED BY <1>1, <1>2, <1>4, <2>4, <2>5, <2>7, <2>9, ConnectedLocal
<1>7. CASE InputRefused(p)
  <2> DEFINE s == IF p.flags = "RST" THEN "REFUSED" ELSE Heard(p).state
             c == [Heard(p) EXCEPT !.state = s]
  <2>1. Teardown(c, h2d) /\ conn.state = "CONNECTING" /\ Heard(p).ib_size \in Nat
    BY <1>3, <1>7 DEF InputRefused, Connection
  <2>2. /\ conn' \in Connection /\ client' \in Client /\ sock' \in Socket
        /\ h2d' \in Seq(Packet)
        /\ conn' = NoConn /\ client'.state \in {"COMMAND", "FREED"}
    BY <1>1, <1>3, <2>1, TeardownLocal
  <2> QED BY <1>2, <1>4, <2>2, ClosedLocal
<1>8. CASE InputData(p)
  <2>1. CASE conn.ib_size + p.len > InBufSize
    <3> DEFINE c == [Heard(p) EXCEPT !.state = Heard(p).state]
    <3>1. Heard(p) = c
      BY <1>3 DEF Connection
    <3>2. Teardown(c, h2d) /\ c.state = "CONNECTED" /\ Heard(p).ib_size \in Nat
      BY <1>3, <1>8, <2>1, <3>1 DEF InputData, Connection
    <3>3. /\ conn' \in Connection /\ client' \in Client /\ sock' \in Socket
          /\ h2d' \in Seq(Packet)
          /\ conn' = NoConn /\ client'.state \in {"COMMAND", "FREED"}
      BY <1>1, <1>3, <3>2, TeardownLocal
    <3> QED BY <1>2, <1>4, <3>3, ClosedLocal
  <2>2. CASE ~(conn.ib_size + p.len > InBufSize)
    <3> DEFINE q == [Heard(p) EXCEPT !.ib_size = @ + p.len, !.tx_win = @ - p.len,
                                     !.tx_ack = SeqAdd(@, p.len)]
    <3>1. /\ conn.state = "CONNECTED" /\ UNCHANGED sock
          /\ h2d' = IF Stored(p).ack_pending THEN Append(h2d, Tcp(Stored(p), "ACK", 0)) ELSE h2d
          /\ conn' = IF Stored(p).ack_pending THEN AckNow(Stored(p)) ELSE Stored(p)
          /\ client' = SetEvents(client, conn'.events)
      BY <1>8, <2>2 DEF InputData
    <3>2. p.len \in Nat /\ p.len \in SeqNum /\ conn.ib_size \in 0 .. InBufSize
          /\ conn.tx_win \in 0 .. InBufSize
      <4>1. p.len \in SeqNum
        BY <1>2 DEF Packet
      <4>2. p.len \in Nat
        BY <4>1, BufferAssumption DEF SeqNum
      <4> QED BY <1>1, <4>1, <4>2 DEF Connection
    <3>3. SeqAdd(Heard(p).tx_ack, p.len) \in SeqNum
      BY <1>3, <3>2, SeqType DEF Connection
    <3>4. /\ Heard(p).ib_size + p.len \in 0 .. InBufSize
          /\ Heard(p).tx_win - p.len \in 0 .. InBufSize
      BY <1>1, <1>3, <2>2, <3>2, BufferAssumption
    <3>5. /\ q \in Connection /\ q.state = "CONNECTED"
          /\ q.tx_win = Heard(p).tx_win - p.len /\ q.ib_size = Heard(p).ib_size + p.len
      BY <1>3, <3>1, <3>3, <3>4 DEF Connection
    <3>6. q.tx_win + q.ib_size = InBufSize
      BY <1>1, <1>3, <3>2, <3>5
    <3>7. Stored(p) = UpdateConn(q)
      BY DEF Stored
    <3>8. /\ Stored(p) \in Connection /\ Stored(p) = UpdateConn(Stored(p))
          /\ Stored(p).state = "CONNECTED"
          /\ Stored(p).tx_win + Stored(p).ib_size = InBufSize
      BY <3>5, <3>6, <3>7, UpdateConnFresh
    <3>9. /\ conn' \in Connection /\ conn' = UpdateConn(conn') /\ ~conn'.ack_pending
          /\ conn'.state = "CONNECTED" /\ conn'.tx_win + conn'.ib_size = InBufSize
      BY <3>1, <3>8, AckNowFresh DEF Connection
    <3>10. h2d' \in Seq(Packet)
      <4>1. Tcp(Stored(p), "ACK", 0) \in Packet
        BY <3>8, TcpType, SeqConstants DEF Flags
      <4> QED BY <1>1, <3>1, <4>1, AppendProperties
    <3>11. conn'.events \in SUBSET Events /\ client.state \in {"CONNECTING2", "CONNECTED"}
      BY <1>1, <3>1, <3>9 DEF Connection, StatesAgree
    <3>12. /\ client' \in Client /\ client'.state \in {"CONNECTING2", "CONNECTED"}
           /\ client'.state = "CONNECTED" => client'.events = conn'.events
           /\ client'.state = "CONNECTING2" => client'.devents = conn'.events
      BY <1>1, <3>1, <3>11, SetEventsType
    <3> QED BY <1>1, <1>2, <1>4, <3>1, <3>9, <3>10, <3>12, ConnectedLocal
  <2> QED BY <2>1, <2>2
<1>9. CASE InputReset(p)
  <2> DEFINE s == IF p.flags = "RST" THEN "DYING" ELSE Heard(p).state
             c == [Heard(p) EXCEPT !.state = s]
  <2>1. /\ Teardown(c, h2d) /\ c.state \notin {"CONNECTING", "REFUSED"}
        /\ Heard(p).ib_size \in Nat
    BY <1>3, <1>9 DEF InputReset, Connection
  <2>2. /\ conn' \in Connection /\ client' \in Client /\ sock' \in Socket
        /\ h2d' \in Seq(Packet)
        /\ conn' = NoConn /\ client'.state \in {"COMMAND", "FREED"}
    BY <1>1, <1>3, <2>1, TeardownLocal
  <2> QED BY <1>2, <1>4, <2>2, ClosedLocal
<1> QED BY <1>5, <1>6, <1>7, <1>8, <1>9 DEF DeviceInput

\* The first half of device_client_process.
LEMMA AfterWriteType ==
  ASSUME LocalInv, conn.state = "CONNECTED", NEW n \in WriteSizes
  PROVE  /\ n \in 0 .. conn.ib_size
         /\ sock.peer = "open" => sock.out + n \in 0 .. SockBufSize
         /\ AfterWrite(n) \in Connection /\ AfterWrite(n).state = "CONNECTED"
         /\ AfterWrite(n).tx_win + AfterWrite(n).ib_size = InBufSize
         /\ AfterWrite(n).tx_acked = AfterWrite(n).tx_ack
         /\ WriteOut(n) \in Seq(Packet)
<1>1. /\ conn \in Connection /\ sock \in Socket /\ h2d \in Seq(Packet)
      /\ conn.tx_win + conn.ib_size = InBufSize /\ conn.tx_acked = conn.tx_ack
  <2>1. conn = UpdateConn(conn) /\ ~conn.ack_pending
    BY DEF LocalInv, FlagsFresh
  <2>2. conn \in Connection
    BY DEF LocalInv, TypeOK
  <2>3. conn.tx_acked = conn.tx_ack
    BY <2>1, <2>2, UpdateConnFresh
  <2> QED BY <2>3 DEF LocalInv, TypeOK
<1>2. /\ conn.ib_size \in 0 .. InBufSize /\ conn.tx_win \in 0 .. InBufSize
      /\ sock.out \in 0 .. SockBufSize /\ sock.peer \in {"open", "gone"}
  BY <1>1 DEF Connection, Socket
<1>3. /\ n \in 0 .. conn.ib_size
      /\ sock.peer = "open" => sock.out + n \in 0 .. SockBufSize
  BY <1>2, EnvironmentAssumption, BufferAssumption DEF WriteSizes, WriteDue, Lesser
<1>4. conn.ib_size - n \in 0 .. InBufSize /\ conn.tx_win + n \in 0 .. InBufSize
  <2>1. /\ conn.ib_size \in 0 .. InBufSize /\ conn.tx_win \in 0 .. InBufSize
        /\ conn.tx_win + conn.ib_size = InBufSize /\ n \in 0 .. conn.ib_size /\ InBufSize \in Nat
    BY <1>1, <1>2, <1>3, BufferAssumption
  <2> QED BY ONLY <2>1
<1>5. /\ Drained(n) \in Connection /\ Drained(n).state = "CONNECTED"
      /\ Drained(n).tx_win = conn.tx_win + n /\ Drained(n).ib_size = conn.ib_size - n
      /\ Drained(n).tx_acked = Drained(n).tx_ack
  BY <1>1, <1>4 DEF Drained, Connection
<1>6. Drained(n).tx_win + Drained(n).ib_size = InBufSize
  BY <1>1, <1>2, <1>3, <1>5
<1>7. /\ AfterWrite(n) \in Connection /\ AfterWrite(n).state = "CONNECTED"
      /\ AfterWrite(n).tx_win + AfterWrite(n).ib_size = InBufSize
      /\ AfterWrite(n).tx_acked = AfterWrite(n).tx_ack
  BY <1>5, <1>6, AckNowFresh DEF AfterWrite
<1>8. WriteOut(n) \in Seq(Packet)
  <2>1. Tcp(Drained(n), "ACK", 0) \in Packet
    BY <1>5, TcpType, SeqConstants DEF Flags
  <2> QED BY <1>1, <2>1, AppendProperties DEF WriteOut
<1> QED BY <1>3, <1>7, <1>8

LEMMA ProcessConnectedLocal == LocalInv /\ ProcessConnected => LocalInv'
<1> SUFFICES ASSUME LocalInv, ProcessConnected PROVE LocalInv'
  OBVIOUS
<1>1. /\ TypeOK /\ StatesAgree /\ client.state = "CONNECTED" /\ conn.state = "CONNECTED"
      /\ client \in Client /\ sock \in Socket /\ dev \in DeviceEnd /\ d2h \in Seq(Packet)
      /\ UNCHANGED <<d2h, dev>>
  BY DEF LocalInv, TypeOK, StatesAgree, ProcessConnected, InClientPhase
<1>2. loop' \in LoopType /\ loop'.at # "device"
  BY <1>1, LoopTypes DEF ProcessConnected, InClientPhase
<1>3. PICK n \in WriteSizes :
       LET c == AfterWrite(n)
           m == IF ReadDue(n) THEN Lesser(sock.in, c.sendable) ELSE 0
       IN  /\ ReadDue(n) => sock.in > 0
           /\ conn' = UpdateConn(IF m > 0 THEN AfterRead(c, m) ELSE c)
           /\ h2d' = IF m > 0 THEN Append(WriteOut(n), Tcp(c, "ACK", m)) ELSE WriteOut(n)
           /\ client' = SetEvents(client, conn'.events)
           /\ sock' = [sock EXCEPT !.in = @ - m, !.out = IF sock.peer = "open" THEN @ + n ELSE @]
  BY DEF ProcessConnected
<1> DEFINE c == AfterWrite(n)
           m == IF ReadDue(n) THEN Lesser(sock.in, c.sendable) ELSE 0
           d == IF m > 0 THEN AfterRead(c, m) ELSE c
<1>4. /\ sock.peer = "open" => sock.out + n \in 0 .. SockBufSize
      /\ c \in Connection /\ c.state = "CONNECTED" /\ c.tx_win + c.ib_size = InBufSize
      /\ c.tx_acked = c.tx_ack /\ WriteOut(n) \in Seq(Packet)
  BY <1>1, AfterWriteType
<1>5. m \in 0 .. sock.in /\ m \in 0 .. MaxPayload /\ m \in SeqNum
  <2>1. sock.in \in 0 .. SockBufSize /\ c.sendable \in 0 .. MaxPayload
    BY <1>1, <1>4 DEF Socket, Connection
  <2> QED BY <2>1, WindowAssumption, EnvironmentAssumption, BufferAssumption DEF Lesser, SeqNum
<1>6. sock' \in Socket
  <2>1. sock.in - m \in 0 .. SockBufSize /\ sock.out \in 0 .. SockBufSize
    BY <1>1, <1>5, EnvironmentAssumption DEF Socket
  <2>2. sock' = [sock EXCEPT !.in = @ - m, !.out = IF sock.peer = "open" THEN @ + n ELSE @]
    BY <1>3
  <2>3. (IF sock.peer = "open" THEN sock.out + n ELSE sock.out) \in 0 .. SockBufSize
    BY <1>4, <2>1
  <2> HIDE DEF m
  <2> QED BY <1>1, <2>1, <2>2, <2>3 DEF Socket
<1>7. h2d' \in Seq(Packet)
  <2>1. Tcp(c, "ACK", m) \in Packet
    BY <1>4, <1>5, TcpType DEF Flags
  <2>2. h2d' = IF m > 0 THEN Append(WriteOut(n), Tcp(c, "ACK", m)) ELSE WriteOut(n)
    BY <1>3
  <2> QED BY <1>4, <2>1, <2>2, AppendProperties
<1>8. /\ d \in Connection /\ d.state = "CONNECTED" /\ d.tx_win + d.ib_size = InBufSize
      /\ d.tx_acked = d.tx_ack
  <2>1. /\ AfterSend(c) \in Connection /\ AfterSend(c).state = "CONNECTED"
        /\ AfterSend(c).tx_win = c.tx_win /\ AfterSend(c).ib_size = c.ib_size
        /\ AfterSend(c).tx_acked = AfterSend(c).tx_ack
    BY <1>4, AfterSendType
  <2>2. SeqAdd(AfterSend(c).tx_seq, m) \in SeqNum
    BY <1>5, <2>1, SeqType DEF Connection
  <2>3. /\ AfterRead(c, m) \in Connection /\ AfterRead(c, m).state = "CONNECTED"
        /\ AfterRead(c, m).tx_win = c.tx_win /\ AfterRead(c, m).ib_size = c.ib_size
        /\ AfterRead(c, m).tx_acked = AfterRead(c, m).tx_ack
    BY <2>1, <2>2 DEF AfterRead, Connection
  <2> QED BY <1>4, <2>3
<1>9. /\ conn' = UpdateConn(d) /\ UpdateConn(d) \in Connection
      /\ UpdateConn(UpdateConn(d)) = UpdateConn(d) /\ UpdateConn(d).state = "CONNECTED"
      /\ UpdateConn(d).tx_win + UpdateConn(d).ib_size = InBufSize
      /\ ~UpdateConn(d).ack_pending
  <2>1. conn' = UpdateConn(d)
    BY <1>3
  <2> HIDE DEF d
  <2> QED BY <1>8, <2>1, UpdateConnFresh
<1>10. /\ client' \in Client /\ client'.state = "CONNECTED" /\ client'.events = conn'.events
  <2>1. conn'.events \in SUBSET Events /\ client' = SetEvents(client, conn'.events)
    BY <1>3, <1>9 DEF Connection
  <2> QED BY <1>1, <2>1, SetEventsType
<1>11. TypeOK'
  BY <1>1, <1>2, <1>6, <1>7, <1>9, <1>10 DEF TypeOK, LoopType
<1> QED BY <1>2, <1>9, <1>10, <1>11, ConnectedLocal

LEMMA ClientProcessLocal == LocalInv /\ ClientProcess => LocalInv'
<1> SUFFICES ASSUME LocalInv, ClientProcess PROVE LocalInv'
  OBVIOUS
<1>1. /\ TypeOK /\ StatesAgree /\ conn \in Connection /\ client \in Client
      /\ sock \in Socket /\ dev \in DeviceEnd /\ d2h \in Seq(Packet) /\ h2d \in Seq(Packet)
      /\ conn.tx_win + conn.ib_size = InBufSize
  BY DEF LocalInv, TypeOK
<1>2. InClientPhase
  BY DEF ClientProcess, ClientGone, RecvConnect, RecvFails, SendReply, SendReplyFails,
         ProcessConnected, WriteFails, ReadFails
<1>3. loop' \in LoopType /\ loop'.at # "device" /\ UNCHANGED <<d2h, dev>>
  BY <1>1, <1>2, LoopTypes DEF InClientPhase
<1>4. ASSUME conn' \in Connection, client' \in Client, sock' \in Socket, h2d' \in Seq(Packet)
      PROVE  TypeOK'
  BY <1>1, <1>3, <1>4 DEF TypeOK, LoopType
<1>5. CASE ClientGone
  <2>1. UNCHANGED <<conn, client, sock, h2d>>
    BY <1>5 DEF ClientGone
  <2>2. TypeOK'
    BY <1>1, <1>4, <2>1
  <2> QED BY <1>3, <2>1, <2>2 DEF LocalInv, StatesAgree, FlagsFresh, UpdateConn, Sendable
<1>6. CASE RecvConnect
  <2>1. /\ conn' = AfterSend([NoConn EXCEPT !.state = "CONNECTING"])
        /\ h2d' = Append(h2d, Tcp(NoConn, "SYN", 0))
        /\ client' = [client EXCEPT !.state = "CONNECTING1"]
        /\ sock' = [sock EXCEPT !.req = FALSE]
    BY <1>6 DEF RecvConnect
  <2>2. /\ conn' \in Connection /\ conn'.state = "CONNECTING"
        /\ conn'.tx_win + conn'.ib_size = InBufSize
    <3>1. /\ [NoConn EXCEPT !.state = "CONNECTING"] \in Connection
          /\ [NoConn EXCEPT !.state = "CONNECTING"].state = "CONNECTING"
          /\ [NoConn EXCEPT !.state = "CONNECTING"].tx_win = InBufSize
          /\ [NoConn EXCEPT !.state = "CONNECTING"].ib_size = 0
      BY NoConnType DEF Connection, NoConn
    <3>2. PICK c \in Connection : /\ conn' = AfterSend(c) /\ c.state = "CONNECTING"
                                  /\ c.tx_win = InBufSize /\ c.ib_size = 0
      BY <2>1, <3>1
    <3> QED BY <3>2, AfterSendType, BufferAssumption
  <2>3. h2d' \in Seq(Packet)
    <3>1. Tcp(NoConn, "SYN", 0) \in Packet
      BY NoConnType, TcpType, SeqConstants DEF Flags
    <3> QED BY <1>1, <2>1, <3>1, AppendProperties
  <2>4. client' \in Client /\ client'.state = "CONNECTING1" /\ sock' \in Socket
    BY <1>1, <2>1 DEF Client, Socket
  <2>5. TypeOK'
    BY <1>4, <2>2, <2>3, <2>4
  <2> QED BY <1>3, <2>2, <2>4, <2>5 DEF LocalInv, StatesAgree, FlagsFresh
<1>7. CASE RecvFails \/ SendReplyFails
  <2>1. ClientClose
    BY <1>7 DEF RecvFails, SendReplyFails
  <2>2. /\ h2d' = IF conn.state = "NONE" THEN h2d ELSE h2d \o TeardownRst(conn)
        /\ conn' = NoConn /\ UNCHANGED sock
        /\ client' = Released(client, IF client.state = "CONNECTING2" THEN 2 ELSE 1)
    BY <2>1 DEF ClientClose
  <2>3. h2d' \in Seq(Packet)
    <3>1. conn = [conn EXCEPT !.state = conn.state]
      BY <1>1 DEF Connection
    <3>2. TeardownRst(conn) \in Seq(Packet)
      BY <1>1, <3>1, TeardownRstType
    <3> QED BY <1>1, <2>2, <3>2, ConcatProperties
  <2>4. client' \in Client /\ client'.state = "FREED"
    BY <1>1, <2>2, ReleasedType
  <2>5. TypeOK'
    BY <1>1, <1>4, <2>2, <2>3, <2>4, NoConnType
  <2> QED BY <1>3, <2>2, <2>4, <2>5, ClosedLocal
<1>8. CASE SendReply
  <2>1. /\ UNCHANGED <<conn, h2d>>
        /\ sock' = [sock EXCEPT !.res = IF sock.peer = "open" THEN client.reply ELSE @]
        /\ client' = IF client.state = "CONNECTING2"
               THEN [client EXCEPT !.reply = "NONE", !.state = "CONNECTED", !.events = client.devents]
               ELSE [client EXCEPT !.reply = "NONE", !.events = @ \ {"POLLOUT"}]
        /\ client.state \in {"COMMAND", "CONNECTING1", "CONNECTING2"}
    BY <1>8 DEF SendReply
  <2>2. client' \in Client /\ sock' \in Socket
    BY <1>1, <2>1 DEF Client, Socket
  <2>3. /\ client.state = "CONNECTING2" =>
             client'.state = "CONNECTED" /\ client'.events = client.devents
        /\ client.state # "CONNECTING2" => client'.state = client.state
    BY <1>1, <2>1 DEF Client
  <2>4. TypeOK'
    BY <1>1, <1>4, <2>1, <2>2
  <2>5. CASE conn.state = "CONNECTED"
    <3>1. client.state = "CONNECTING2" /\ client.devents = conn.events
      BY <1>1, <2>1, <2>5 DEF StatesAgree, LocalInv, FlagsFresh
    <3>2. conn = UpdateConn(conn) /\ ~conn.ack_pending
      BY <2>5 DEF LocalInv, FlagsFresh
    <3> QED BY <1>1, <1>3, <2>1, <2>3, <2>4, <2>5, <3>1, <3>2, ConnectedLocal
  <2>6. CASE conn.state # "CONNECTED"
    BY <1>1, <1>3, <2>1, <2>3, <2>4, <2>6 DEF LocalInv, StatesAgree, FlagsFresh
  <2> QED BY <2>5, <2>6
<1>9. CASE WriteFails \/ ReadFails
  <2>1. client.state = "CONNECTED" /\ conn.state = "CONNECTED"
    BY <1>1, <1>9 DEF WriteFails, ReadFails, StatesAgree
  <2>2. PICK b, out : /\ b \in Connection /\ b.state = "CONNECTED" /\ out \in Seq(Packet)
                      /\ Teardown(b, out)
    <3>1. CASE WriteFails
      BY <1>1, <2>1, <3>1 DEF WriteFails
    <3>2. CASE ReadFails
      <4>1. PICK n \in WriteSizes : Teardown(AfterWrite(n), WriteOut(n))
        BY <3>2 DEF ReadFails
      <4> QED BY <2>1, <4>1, AfterWriteType
    <3> QED BY <1>9, <3>1, <3>2
  <2>3. b = [b EXCEPT !.state = b.state] /\ b.ib_size \in Nat
    BY <2>2 DEF Connection
  <2>4. /\ conn' \in Connection /\ client' \in Client /\ sock' \in Socket
        /\ h2d' \in Seq(Packet)
        /\ conn' = NoConn /\ client'.state \in {"COMMAND", "FREED"}
    BY <2>2, <2>3, TeardownLocal
  <2> QED BY <1>3, <1>4, <2>4, ClosedLocal
<1> QED BY <1>5, <1>6, <1>7, <1>8, <1>9, ProcessConnectedLocal DEF ClientProcess

\* The application writes to the client socket only, the device to its own end
\* and to the channels.
LEMMA AppLocal ==
  LocalInv /\ (AppConnect \/ AppWrite \/ AppRead \/ AppClose) => LocalInv'
<1> SUFFICES ASSUME LocalInv, AppConnect \/ AppWrite \/ AppRead \/ AppClose PROVE LocalInv'
  OBVIOUS
<1>1. UNCHANGED <<conn, client, loop, h2d, d2h, dev>> /\ sock \in Socket
  BY DEF App, AppConnect, AppWrite, AppRead, AppClose, LocalInv, TypeOK
<1>2. sock' \in Socket
  <2>1. CASE AppConnect
    BY <1>1, <2>1 DEF AppConnect, Socket
  <2>2. CASE AppWrite
    BY <1>1, <2>2, EnvironmentAssumption DEF AppWrite, Socket
  <2>3. CASE AppRead
    BY <1>1, <2>3, EnvironmentAssumption DEF AppRead, Socket
  <2>4. CASE AppClose
    <3>1. 0 \in 0 .. SockBufSize /\ sock' = [sock EXCEPT !.peer = "gone", !.out = 0]
      BY <2>4, EnvironmentAssumption DEF AppClose
    <3> QED BY <1>1, <3>1 DEF Socket
  <2> QED BY <2>1, <2>2, <2>3, <2>4
<1>3. TypeOK'
  BY <1>1, <1>2 DEF LocalInv, TypeOK
<1> QED BY <1>1, <1>3, EnvironmentLocal DEF LocalInv

LEMMA ReplyType ==
  ASSUME dev \in DeviceEnd, NEW f \in Flags, NEW q \in SeqNum, NEW n \in SeqNum
  PROVE  Reply(f, q, n) \in Packet
<1>1. Advertised(DevBufSize - dev.buf) \in Int
  BY WindowAssumption, BufferAssumption DEF Advertised, DeviceEnd
<1> QED BY <1>1 DEF Reply, Packet, DeviceEnd

LEMMA DeviceReceiveLocal == LocalInv /\ DeviceReceive => LocalInv'
<1> SUFFICES ASSUME LocalInv, DeviceReceive PROVE LocalInv'
  OBVIOUS
<1>1. /\ TypeOK /\ conn \in Connection /\ client \in Client /\ sock \in Socket
      /\ dev \in DeviceEnd /\ d2h \in Seq(Packet) /\ h2d \in Seq(Packet)
      /\ loop.at = "device" => d2h # <<>>
  BY DEF LocalInv, TypeOK
<1>2. /\ h2d # <<>> /\ h2d' = Tail(h2d) /\ UNCHANGED <<conn, client, sock, loop>>
  BY DEF DeviceReceive, DeviceAccept, DeviceRefuse, DeviceTake, DeviceReset, DevicePop
<1>3. Head(h2d) \in Packet /\ h2d' \in Seq(Packet)
  BY <1>1, <1>2, LoopTypes
<1> DEFINE p == Head(h2d)
<1>4. /\ p.seq \in SeqNum /\ p.ack \in SeqNum /\ p.len \in SeqNum /\ p.win \in Int
      /\ p.len \in Nat
  <2>1. /\ p.seq \in SeqNum /\ p.ack \in SeqNum /\ p.len \in SeqNum /\ p.win \in Int
    BY <1>3 DEF Packet
  <2> QED BY <2>1, BufferAssumption DEF SeqNum
<1>5. /\ dev' \in DeviceEnd /\ d2h' \in Seq(Packet)
      /\ d2h # <<>> => d2h' # <<>>
  <2>1. CASE DeviceAccept
    <3>1. SeqAdd(p.seq, 1) \in SeqNum
      BY <1>4, SeqType, SeqConstants
    <3>2. /\ dev' \in DeviceEnd /\ dev'.ack = SeqAdd(p.seq, 1)
      BY <2>1, <3>1, <1>4, NoDevType, SeqConstants DEF DeviceAccept, DeviceEnd
    <3>3. [flags |-> "SYNACK", seq |-> 0, ack |-> dev'.ack,
           win |-> Advertised(DevBufSize), len |-> 0] \in Packet
      BY <3>1, <3>2, SeqConstants, AdvertisedBound, BufferAssumption DEF Packet, Flags
    <3> QED BY <1>1, <2>1, <3>2, <3>3, AppendProperties DEF DeviceAccept
  <2>2. CASE DeviceRefuse
    <3>1. PICK f \in {"RST", "FIN"} : d2h' = Append(d2h, Reply(f, 0, 0))
      BY <2>2 DEF DeviceRefuse
    <3>2. Reply(f, 0, 0) \in Packet
      BY <1>1, ReplyType, SeqConstants DEF Flags
    <3> QED BY <1>1, <2>2, <3>1, <3>2, AppendProperties DEF DeviceRefuse
  <2>3. CASE DeviceTake
    <3>1. SeqAdd(dev.ack, p.len) \in SeqNum /\ dev.buf + p.len \in Nat
      BY <1>1, <1>4, SeqType DEF DeviceEnd
    <3>2. (dev.owes \/ p.len > 0) \in BOOLEAN
      OBVIOUS
    <3>3. UNCHANGED d2h
      BY <2>3 DEF DeviceTake
    <3>4. dev' \in DeviceEnd
      BY <1>1, <1>4, <2>3, <3>1, <3>2 DEF DeviceTake, DeviceEnd
    <3> QED BY <1>1, <3>3, <3>4
  <2>4. CASE DeviceReset
    BY <1>1, <2>4, NoDevType DEF DeviceReset
  <2> QED BY <2>1, <2>2, <2>3, <2>4 DEF DeviceReceive
<1>6. TypeOK'
  BY <1>1, <1>2, <1>3, <1>5 DEF TypeOK
<1> QED BY <1>1, <1>2, <1>5, <1>6, EnvironmentLocal

LEMMA DeviceActsLocal ==
  LocalInv /\ (DeviceSend \/ DeviceAck \/ DeviceConsume \/ DeviceClose) => LocalInv'
<1> SUFFICES ASSUME LocalInv, DeviceSend \/ DeviceAck \/ DeviceConsume \/ DeviceClose
             PROVE  LocalInv'
  OBVIOUS
<1>1. /\ TypeOK /\ conn \in Connection /\ client \in Client /\ sock \in Socket
      /\ dev \in DeviceEnd /\ d2h \in Seq(Packet) /\ h2d \in Seq(Packet)
      /\ loop.at = "device" => d2h # <<>>
  BY DEF LocalInv, TypeOK
<1>2. UNCHANGED <<conn, client, sock, loop, h2d>>
  BY DEF DeviceSend, DeviceAck, DeviceConsume, DeviceClose, DevicePush
<1>3. dev.seq \in SeqNum /\ dev.buf \in Nat
  BY <1>1 DEF DeviceEnd
<1>4. dev' \in DeviceEnd /\ d2h' \in Seq(Packet) /\ (d2h # <<>> => d2h' # <<>>)
  <2>1. CASE DeviceSend
    <3>1. PICK n \in DevSizes : /\ d2h' = Append(d2h, Reply("ACK", dev.seq, n))
                                /\ dev' = [dev EXCEPT !.seq = SeqAdd(@, n), !.owes = FALSE]
      BY <2>1 DEF DeviceSend
    <3>2. n \in SeqNum
      BY EnvironmentAssumption, BufferAssumption DEF SeqNum
    <3>3. SeqAdd(dev.seq, n) \in SeqNum /\ Reply("ACK", dev.seq, n) \in Packet
      BY <1>1, <1>3, <3>2, SeqType, ReplyType DEF Flags
    <3>4. dev' \in DeviceEnd
      BY <1>1, <3>1, <3>3 DEF DeviceEnd
    <3> QED BY <1>1, <3>1, <3>3, <3>4, AppendProperties
  <2>2. CASE DeviceAck
    <3>1. Reply("ACK", dev.seq, 0) \in Packet
      BY <1>1, <1>3, ReplyType, SeqConstants DEF Flags
    <3>2. dev' \in DeviceEnd
      BY <1>1, <2>2 DEF DeviceAck, DeviceEnd
    <3> QED BY <1>1, <2>2, <3>1, <3>2, AppendProperties DEF DeviceAck
  <2>3. CASE DeviceConsume
    <3>1. PICK n \in 1 .. dev.buf : dev' = [dev EXCEPT !.buf = @ - n, !.owes = TRUE]
      BY <2>3 DEF DeviceConsume
    <3>2. dev.buf - n \in Nat
      BY <1>3
    <3> QED BY <1>1, <2>3, <3>1, <3>2 DEF DeviceConsume, DeviceEnd
  <2>4. CASE DeviceClose
    <3>1. PICK f \in {"RST", "FIN"} : d2h' = Append(d2h, Reply(f, dev.seq, 0))
      BY <2>4 DEF DeviceClose
    <3>2. Reply(f, dev.seq, 0) \in Packet
      BY <1>1, <1>3, ReplyType, SeqConstants DEF Flags
    <3>3. dev' \in DeviceEnd
      <4>1. dev' = [dev EXCEPT !.state = "CLOSED", !.ack = 0, !.win = 0, !.buf = 0, !.owes = FALSE]
        BY <2>4 DEF DeviceClose
      <4>2. 0 \in SeqNum /\ 0 \in Int /\ 0 \in Nat /\ FALSE \in BOOLEAN
        BY SeqConstants
      <4>3. dev' = [state |-> "CLOSED", seq |-> dev.seq, ack |-> 0, una |-> dev.una,
                    win |-> 0, buf |-> 0, owes |-> FALSE]
        BY <1>1, <4>1 DEF DeviceEnd
      <4>4. dev.una \in SeqNum
        BY <1>1 DEF DeviceEnd
      <4> QED BY <1>3, <4>2, <4>3, <4>4 DEF DeviceEnd
    <3> QED BY <1>1, <3>1, <3>2, <3>3, AppendProperties
  <2> QED BY <2>1, <2>2, <2>3, <2>4
<1>5. TypeOK'
  BY <1>1, <1>2, <1>4 DEF TypeOK
<1> QED BY <1>1, <1>2, <1>4, <1>5, EnvironmentLocal

-----------------------------------------------------------------------------
\* The theorems.

LEMMA InitLocal == Init => LocalInv
<1> SUFFICES ASSUME Init PROVE LocalInv
  OBVIOUS
<1>1. /\ conn = NoConn /\ dev = NoDev /\ h2d = <<>> /\ d2h = <<>>
      /\ client.state = "COMMAND" /\ loop.at = "select"
  BY DEF Init
<1>2. client \in Client /\ sock \in Socket
  BY EnvironmentAssumption DEF Init, Client, Socket, Events
<1>3. TypeOK
  BY <1>1, <1>2, NoConnType, NoDevType DEF Init, TypeOK
<1> QED BY <1>1, <1>3, BufferAssumption DEF LocalInv, StatesAgree, FlagsFresh, NoConn

LEMMA NextLocal == LocalInv /\ [Next]_vars => LocalInv'
<1> SUFFICES ASSUME LocalInv, [Next]_vars PROVE LocalInv'
  OBVIOUS
<1>1. CASE Select
  BY <1>1, SelectLocal
<1>2. CASE SelectTimeout
  BY <1>2, SelectTimeoutLocal
<1>3. CASE DeviceInput
  BY <1>3, DeviceInputLocal
<1>4. CASE ClientProcess
  BY <1>4, ClientProcessLocal
<1>5. CASE AppConnect \/ AppWrite \/ AppRead \/ AppClose
  BY <1>5, AppLocal
<1>6. CASE DeviceReceive
  BY <1>6, DeviceReceiveLocal
<1>7. CASE DeviceSend \/ DeviceAck \/ DeviceConsume \/ DeviceClose
  BY <1>7, DeviceActsLocal
<1>8. CASE UNCHANGED vars
  BY <1>8 DEF vars, LocalInv, TypeOK, StatesAgree, FlagsFresh, UpdateConn, Sendable
<1> QED BY <1>1, <1>2, <1>3, <1>4, <1>5, <1>6, <1>7, <1>8 DEF Next

\* LocalInv is an invariant of the specification, whatever the sizes are and
\* however the application, the device and the loop interleave.
THEOREM LocalCorrect == Spec => []LocalInv
BY InitLocal, NextLocal, PTL DEF Spec

\* The counts of struct mux_connection never leave their range: no subtraction
\* of device.cpp's unsigned fields wraps (tx_win -= length, ib_size -= size).
THEOREM TypeCorrect == Spec => []TypeOK
<1>1. LocalInv => TypeOK
  BY DEF LocalInv
<1> QED BY <1>1, LocalCorrect, PTL

\* The window the host keeps for the device is the free space of ib_buf.
THEOREM WindowCorrect == Spec => []WindowIsFreeSpace
<1>1. LocalInv => WindowIsFreeSpace
  BY DEF LocalInv, WindowIsFreeSpace
<1> QED BY <1>1, LocalCorrect, PTL

\* Connection and client never disagree about the phase they are in.
THEOREM StatesCorrect == Spec => []StatesAgree
<1>1. LocalInv => StatesAgree
  BY DEF LocalInv
<1> QED BY <1>1, LocalCorrect, PTL

\* Between handlers the poll mask, the sendable count and the pending
\* acknowledgement are those of the current numbers.
THEOREM FlagsCorrect == Spec => []FlagsFresh
<1>1. LocalInv => FlagsFresh
  BY DEF LocalInv
<1> QED BY <1>1, LocalCorrect, PTL

-----------------------------------------------------------------------------
(***************************************************************************)
(* Windows, packets and streams, for every buffer size, packet size and    *)
(* width of the sequence numbers: neither side is ever sent more than it   *)
(* has room for, and no byte is lost, repeated or reordered.  The two      *)
(* directions of a connection obey the same laws (Flow), so each law is    *)
(* proved once, for any numbers and packets, and used for both.            *)
(***************************************************************************)
-----------------------------------------------------------------------------
(***************************************************************************)
(* Offsets on an arc of the sequence space.                                *)
(***************************************************************************)

\* Within the sequence space, the number n further on is n further from the base.
LEMMA OffsetAdd ==
  ASSUME NEW a \in SeqNum, NEW b \in SeqNum, NEW n \in Nat, SeqSub(a, b) + n < SeqSpace
  PROVE  SeqAdd(a, n) \in SeqNum /\ SeqSub(SeqAdd(a, n), b) = SeqSub(a, b) + n
BY BufferAssumption DEF SeqNum, SeqAdd, SeqSub

\* A base c further on: what lies behind it keeps its distances.
LEMMA OffsetRebase ==
  ASSUME NEW a \in SeqNum, NEW b \in SeqNum, NEW c \in SeqNum, SeqSub(c, b) <= SeqSub(a, b)
  PROVE  SeqSub(a, c) = SeqSub(a, b) - SeqSub(c, b)
BY BufferAssumption DEF SeqNum, SeqSub

\* Numbers at the same distance are the same.
LEMMA OffsetEqual ==
  ASSUME NEW a \in SeqNum, NEW b \in SeqNum, NEW c \in SeqNum, SeqSub(a, b) = SeqSub(c, b)
  PROVE  a = c
BY BufferAssumption DEF SeqNum, SeqSub

\* A distance lies in the sequence space, and from a number to itself it is zero.
LEMMA OffsetRange ==
  ASSUME NEW a \in SeqNum, NEW b \in SeqNum
  PROVE  SeqSub(a, b) \in SeqNum /\ SeqSub(a, b) \in Nat /\ SeqSub(a, a) = 0 /\ SeqAdd(a, 0) = a
BY BufferAssumption DEF SeqNum, SeqSub, SeqAdd

-----------------------------------------------------------------------------
(***************************************************************************)
(* The laws of Flow.                                                       *)
(***************************************************************************)

\* An empty queue has no packets.
LEMMA EmptyQueue == ASSUME NEW s, s = <<>> PROVE Len(s) = 0
OBVIOUS

\* The elements of a queue after its head was taken, or a packet was added.
LEMMA Took ==
  ASSUME NEW chan \in Seq(Packet), chan # <<>>
  PROVE  /\ Head(chan) \in Packet /\ Head(chan) = chan[1] /\ Tail(chan) \in Seq(Packet)
         /\ Len(chan) \in Nat \ {0} /\ Len(Tail(chan)) = Len(chan) - 1
         /\ \A i \in 1 .. Len(Tail(chan)) : Tail(chan)[i] = chan[i + 1] /\ i + 1 \in 1 .. Len(chan)
OBVIOUS

\* Append, by its elements.
LEMMA Added ==
  ASSUME NEW chan \in Seq(Packet), NEW q \in Packet
  PROVE  /\ Append(chan, q) \in Seq(Packet) /\ Append(chan, q) # <<>>
         /\ Len(chan) \in Nat /\ Len(Append(chan, q)) = Len(chan) + 1
         /\ Append(chan, q)[Len(chan) + 1] = q
         /\ \A i \in 1 .. Len(chan) : Append(chan, q)[i] = chan[i]
OBVIOUS

\* The elements of a queue are of its type.
LEMMA Elements ==
  ASSUME NEW chan \in Seq(Packet), NEW i \in 1 .. Len(chan)
  PROVE  /\ chan[i] \in Packet /\ chan[i].seq \in SeqNum /\ chan[i].ack \in SeqNum
         /\ chan[i].win \in Int /\ chan[i].len \in Nat /\ chan[i].len < SeqSpace
<1>1. chan[i] \in Packet OBVIOUS
<1>2. ASSUME NEW p \in Packet
      PROVE  /\ p.seq \in SeqNum /\ p.ack \in SeqNum /\ p.win \in Int /\ p.len \in SeqNum
  BY DEF Packet
<1>3. ASSUME NEW n \in SeqNum PROVE n \in Nat /\ n < SeqSpace
  BY BufferAssumption DEF SeqNum
<1> QED BY <1>1, <1>2, <1>3

\* What Chain says of one packet.
LEMMA Link ==
  ASSUME NEW chan \in Seq(Packet), NEW from, NEW to, NEW base, Chain(chan, from, to, base),
         NEW i \in 1 .. Len(chan)
  PROVE  /\ i = 1 => chan[i].seq = from
         /\ i < Len(chan) => chan[i + 1].seq = SeqAdd(chan[i].seq, chan[i].len)
         /\ i = Len(chan) => to = SeqAdd(chan[i].seq, chan[i].len)
         /\ SeqSub(from, base) <= SeqSub(chan[i].seq, base)
         /\ SeqSub(chan[i].seq, base) + chan[i].len <= SeqSub(to, base)
         /\ \A j \in 1 .. Len(chan) :
              i < j => SeqSub(chan[i].seq, base) + chan[i].len <= SeqSub(chan[j].seq, base)
BY DEF Chain

\* The receiver takes the oldest packet.
LEMMA ChainTake ==
  ASSUME NEW chan \in Seq(Packet), chan # <<>>, NEW from \in SeqNum, NEW to \in SeqNum,
         NEW base \in SeqNum, Chain(chan, from, to, base)
  PROVE  /\ Head(chan).seq = from
         /\ SeqSub(from, base) + Head(chan).len <= SeqSub(to, base)
         /\ SeqAdd(from, Head(chan).len) \in SeqNum
         /\ SeqSub(SeqAdd(from, Head(chan).len), base) = SeqSub(from, base) + Head(chan).len
         /\ Chain(Tail(chan), SeqAdd(from, Head(chan).len), to, base)
<1> DEFINE p == Head(chan)
           t == Tail(chan)
           mid == SeqAdd(from, p.len)
<1>1. /\ p = chan[1] /\ t \in Seq(Packet) /\ Len(chan) \in Nat \ {0} /\ Len(t) = Len(chan) - 1
      /\ \A i \in 1 .. Len(t) : t[i] = chan[i + 1] /\ i + 1 \in 1 .. Len(chan)
  BY Took
<1>2. 1 \in 1 .. Len(chan) BY <1>1
<1>3. p.seq = from /\ SeqSub(from, base) + p.len <= SeqSub(to, base)
  BY <1>1, <1>2, Link
<1>4. p.len \in Nat BY <1>1, <1>2, Elements
<1>5. mid \in SeqNum /\ SeqSub(mid, base) = SeqSub(from, base) + p.len
  <2>1. SeqSub(to, base) < SeqSpace /\ SeqSub(from, base) \in Nat /\ SeqSub(to, base) \in Nat
    BY OffsetRange, BufferAssumption DEF SeqNum
  <2>2. SeqSub(from, base) + p.len < SeqSpace BY <1>3, <1>4, <2>1, BufferAssumption
  <2> QED BY <1>4, <2>2, OffsetAdd
<1>6. Chain(t, mid, to, base)
  <2>1. t = <<>> => mid = to
    <3>1. t = <<>> => 1 = Len(chan)
      <4>1. t = <<>> => Len(t) = 0 BY EmptyQueue
      <4> QED BY <1>1, <4>1
    <3>2. 1 = Len(chan) => to = SeqAdd(chan[1].seq, chan[1].len) BY <1>2, Link
    <3> QED BY <1>1, <1>3, <3>1, <3>2
  <2>2. ASSUME NEW i \in 1 .. Len(t)
        PROVE  /\ i = 1 => t[i].seq = mid
               /\ i < Len(t) => t[i + 1].seq = SeqAdd(t[i].seq, t[i].len)
               /\ i = Len(t) => to = SeqAdd(t[i].seq, t[i].len)
               /\ SeqSub(mid, base) <= SeqSub(t[i].seq, base)
               /\ SeqSub(t[i].seq, base) + t[i].len <= SeqSub(to, base)
    <3>1. t[i] = chan[i + 1] /\ i + 1 \in 1 .. Len(chan) BY <1>1
    <3>2. i = 1 => t[i].seq = mid
      <4>1. i = 1 => 1 < Len(chan) BY <3>1
      <4>2. 1 < Len(chan) => chan[1 + 1].seq = SeqAdd(chan[1].seq, chan[1].len) BY <1>2, Link
      <4> QED BY <1>1, <1>3, <3>1, <4>1, <4>2
    <3>3. i < Len(t) => t[i + 1].seq = SeqAdd(t[i].seq, t[i].len)
      <4>1. i < Len(t) => t[i + 1] = chan[(i + 1) + 1] /\ i + 1 < Len(chan) BY <1>1
      <4>2. i + 1 < Len(chan) => chan[(i + 1) + 1].seq = SeqAdd(chan[i + 1].seq, chan[i + 1].len)
        BY <3>1, Link
      <4> QED BY <3>1, <4>1, <4>2
    <3>4. i = Len(t) => to = SeqAdd(t[i].seq, t[i].len)
      <4>1. i = Len(t) => i + 1 = Len(chan) BY <1>1
      <4>2. i + 1 = Len(chan) => to = SeqAdd(chan[i + 1].seq, chan[i + 1].len) BY <3>1, Link
      <4> QED BY <3>1, <4>1, <4>2
    <3>5. SeqSub(chan[1].seq, base) + chan[1].len <= SeqSub(chan[i + 1].seq, base)
      <4>1. 1 < i + 1 OBVIOUS
      <4> QED BY <1>2, <3>1, <4>1, Link
    <3>6. SeqSub(t[i].seq, base) + t[i].len <= SeqSub(to, base) BY <3>1, Link
    <3>7. SeqSub(mid, base) <= SeqSub(t[i].seq, base) BY <1>1, <1>3, <1>5, <3>1, <3>5
    <3> QED BY <3>2, <3>3, <3>4, <3>6, <3>7
  <2>3. ASSUME NEW i \in 1 .. Len(t), NEW j \in 1 .. Len(t), i < j
        PROVE  SeqSub(t[i].seq, base) + t[i].len <= SeqSub(t[j].seq, base)
    <3>1. /\ t[i] = chan[i + 1] /\ i + 1 \in 1 .. Len(chan)
          /\ t[j] = chan[j + 1] /\ j + 1 \in 1 .. Len(chan) /\ i + 1 < j + 1
      BY <1>1, <2>3
    <3> QED BY <3>1, Link
  <2> HIDE DEF t, mid
  <2> QED BY <2>1, <2>2, <2>3 DEF Chain
<1> QED BY <1>3, <1>5, <1>6

\* Its sender adds a packet that starts at the sender's next number.
LEMMA ChainAdd ==
  ASSUME NEW chan \in Seq(Packet), NEW from \in SeqNum, NEW to \in SeqNum, NEW base \in SeqNum,
         Chain(chan, from, to, base), NEW q \in Packet, q.seq = to,
         SeqSub(from, base) <= SeqSub(to, base), SeqSub(to, base) + q.len < SeqSpace
  PROVE  /\ SeqAdd(to, q.len) \in SeqNum
         /\ SeqSub(SeqAdd(to, q.len), base) = SeqSub(to, base) + q.len
         /\ Chain(Append(chan, q), from, SeqAdd(to, q.len), base)
<1> DEFINE n == Len(chan)
           a == Append(chan, q)
           end == SeqAdd(to, q.len)
<1>1. /\ a # <<>> /\ n \in Nat /\ Len(a) = n + 1 /\ a[n + 1] = q
      /\ \A i \in 1 .. n : a[i] = chan[i]
  BY Added
<1>2. q.len \in Nat BY BufferAssumption DEF Packet, SeqNum
<1>3. end \in SeqNum /\ SeqSub(end, base) = SeqSub(to, base) + q.len
  BY <1>2, OffsetAdd
<1>4. SeqSub(from, base) \in Nat /\ SeqSub(to, base) \in Nat
  BY OffsetRange
<1>5. ASSUME NEW i \in 1 .. n
      PROVE  /\ i = 1 => a[i].seq = from
             /\ a[i + 1].seq = SeqAdd(a[i].seq, a[i].len)
             /\ SeqSub(from, base) <= SeqSub(a[i].seq, base)
             /\ SeqSub(a[i].seq, base) + a[i].len <= SeqSub(to, base)
             /\ SeqSub(a[i].seq, base) \in Nat /\ a[i].len \in Nat
  <2>1. a[i] = chan[i] BY <1>1
  <2>2. i < n \/ i = n BY <1>1
  <2>3. i < n => a[i + 1] = chan[i + 1] BY <1>1
  <2>4. i = n => a[i + 1] = q BY <1>1
  <2>5. chan[i].seq \in SeqNum /\ chan[i].len \in Nat BY Elements
  <2>6. SeqSub(chan[i].seq, base) \in Nat BY <2>5, OffsetRange
  <2> HIDE DEF a, n
  <2>7. a[i + 1].seq = SeqAdd(a[i].seq, a[i].len)
    BY <2>1, <2>2, <2>3, <2>4, Link DEF n
  <2> QED BY <2>1, <2>5, <2>6, <2>7, Link DEF n
<1>6. n = 0 => from = to
  <2>1. n = 0 => chan = <<>> OBVIOUS
  <2> QED BY <2>1 DEF Chain
<1>7. ASSUME NEW i \in 1 .. n, NEW j \in 1 .. n + 1, i < j
      PROVE  SeqSub(a[i].seq, base) + a[i].len <= SeqSub(a[j].seq, base)
  <2>1. CASE j \in 1 .. n
    BY <1>1, <1>7, <2>1, Link
  <2>2. CASE j = n + 1
    BY <1>1, <1>5, <2>2
  <2> QED BY <1>1, <2>1, <2>2
<1>8. Chain(a, from, end, base)
  <2> HIDE DEF a, n, end
  <2>1. ASSUME NEW i \in 1 .. n + 1
        PROVE  /\ i = 1 => a[i].seq = from
               /\ i < n + 1 => a[i + 1].seq = SeqAdd(a[i].seq, a[i].len)
               /\ i = n + 1 => end = SeqAdd(a[i].seq, a[i].len)
               /\ SeqSub(from, base) <= SeqSub(a[i].seq, base)
               /\ SeqSub(a[i].seq, base) + a[i].len <= SeqSub(end, base)
    <3>1. CASE i \in 1 .. n
      <4>1. /\ i = 1 => a[i].seq = from
            /\ a[i + 1].seq = SeqAdd(a[i].seq, a[i].len)
            /\ SeqSub(from, base) <= SeqSub(a[i].seq, base)
            /\ SeqSub(a[i].seq, base) + a[i].len <= SeqSub(to, base)
            /\ SeqSub(a[i].seq, base) \in Nat /\ a[i].len \in Nat
        BY <1>5, <3>1
      <4>2. i # n + 1 BY ONLY <1>1, <3>1
      <4>3. SeqSub(a[i].seq, base) + a[i].len <= SeqSub(end, base)
        BY ONLY <1>2, <1>3, <1>4, <4>1
      <4> QED BY ONLY <4>1, <4>2, <4>3
    <3>2. CASE i = n + 1
      BY <1>1, <1>2, <1>3, <1>4, <1>6, <3>2 DEF end
    <3> QED BY <1>1, <3>1, <3>2
  <2>2. \A i, j \in 1 .. n + 1 : i < j => SeqSub(a[i].seq, base) + a[i].len <= SeqSub(a[j].seq, base)
    BY <1>1, <1>7
  <2> QED BY <1>1, <2>1, <2>2 DEF Chain
<1> QED BY <1>3, <1>8

\* The base moves on, but not past the receiver.
LEMMA ChainRebase ==
  ASSUME NEW chan \in Seq(Packet), NEW from \in SeqNum, NEW to \in SeqNum, NEW base \in SeqNum,
         Chain(chan, from, to, base), NEW b \in SeqNum,
         SeqSub(b, base) <= SeqSub(from, base), SeqSub(from, base) <= SeqSub(to, base)
  PROVE  Chain(chan, from, to, b)
<1>1. /\ SeqSub(b, base) \in Nat /\ SeqSub(from, base) \in Nat /\ SeqSub(to, base) \in Nat
  BY OffsetRange
<1>2. /\ SeqSub(from, b) = SeqSub(from, base) - SeqSub(b, base)
      /\ SeqSub(to, b) = SeqSub(to, base) - SeqSub(b, base)
  BY <1>1, OffsetRebase
<1>3. ASSUME NEW i \in 1 .. Len(chan)
      PROVE  /\ SeqSub(chan[i].seq, b) = SeqSub(chan[i].seq, base) - SeqSub(b, base)
             /\ SeqSub(chan[i].seq, base) \in Nat /\ chan[i].len \in Nat
  <2>1. chan[i].seq \in SeqNum /\ chan[i].len \in Nat BY Elements
  <2>2. SeqSub(from, base) <= SeqSub(chan[i].seq, base) BY Link
  <2>3. SeqSub(chan[i].seq, base) \in Nat BY <2>1, OffsetRange
  <2>4. SeqSub(b, base) <= SeqSub(chan[i].seq, base) BY <1>1, <2>2, <2>3
  <2> QED BY <2>1, <2>3, <2>4, OffsetRebase
<1>4. ASSUME NEW i \in 1 .. Len(chan)
      PROVE  /\ i = 1 => chan[i].seq = from
             /\ i < Len(chan) => chan[i + 1].seq = SeqAdd(chan[i].seq, chan[i].len)
             /\ i = Len(chan) => to = SeqAdd(chan[i].seq, chan[i].len)
             /\ SeqSub(from, b) <= SeqSub(chan[i].seq, b)
             /\ SeqSub(chan[i].seq, b) + chan[i].len <= SeqSub(to, b)
  <2>1. /\ SeqSub(from, base) <= SeqSub(chan[i].seq, base)
        /\ SeqSub(chan[i].seq, base) + chan[i].len <= SeqSub(to, base)
    BY Link
  <2>2. SeqSub(from, b) <= SeqSub(chan[i].seq, b) BY <1>1, <1>2, <1>3, <2>1
  <2>3. SeqSub(chan[i].seq, b) + chan[i].len <= SeqSub(to, b) BY <1>1, <1>2, <1>3, <2>1
  <2> QED BY <2>2, <2>3, Link
<1>5. ASSUME NEW i \in 1 .. Len(chan), NEW j \in 1 .. Len(chan), i < j
      PROVE  SeqSub(chan[i].seq, b) + chan[i].len <= SeqSub(chan[j].seq, b)
  <2>1. SeqSub(chan[i].seq, base) + chan[i].len <= SeqSub(chan[j].seq, base) BY <1>5, Link
  <2>2. /\ SeqSub(chan[i].seq, b) = SeqSub(chan[i].seq, base) - SeqSub(b, base)
        /\ SeqSub(chan[i].seq, base) \in Nat /\ chan[i].len \in Nat
    BY <1>3
  <2>3. /\ SeqSub(chan[j].seq, b) = SeqSub(chan[j].seq, base) - SeqSub(b, base)
        /\ SeqSub(chan[j].seq, base) \in Nat
    BY <1>3
  <2> QED BY <1>1, <2>1, <2>2, <2>3
<1>6. chan = <<>> => from = to BY DEF Chain
<1> QED BY <1>4, <1>5, <1>6 DEF Chain

-----------------------------------------------------------------------------

\* The sender hears the oldest acknowledgement, which becomes its base.
LEMMA AcksTake ==
  ASSUME NEW acks \in Seq(Packet), acks # <<>>, NEW at \in SeqNum, NEW room \in Int,
         NEW base \in SeqNum, Acks(acks, at, room, base)
  PROVE  LET p == Head(acks)
         IN /\ p.ack \in SeqNum /\ p.win \in Int
            /\ SeqSub(p.ack, base) <= SeqSub(at, base)
            /\ SeqSub(p.ack, base) + p.win <= SeqSub(at, base) + room
            /\ Acks(Tail(acks), at, room, p.ack)
<1> DEFINE p == Head(acks)
           t == Tail(acks)
<1>1. /\ p = acks[1] /\ t \in Seq(Packet) /\ Len(acks) \in Nat \ {0} /\ Len(t) = Len(acks) - 1
      /\ \A i \in 1 .. Len(t) : t[i] = acks[i + 1] /\ i + 1 \in 1 .. Len(acks)
  BY Took
<1>2. 1 \in 1 .. Len(acks) BY <1>1
<1>3. p.ack \in SeqNum /\ p.win \in Int BY <1>1, <1>2, Elements
<1>4. /\ SeqSub(p.ack, base) <= SeqSub(at, base)
      /\ SeqSub(p.ack, base) + p.win <= SeqSub(at, base) + room
  BY <1>1, <1>2 DEF Acks
<1>5. SeqSub(p.ack, base) \in Nat /\ SeqSub(at, base) \in Nat
  BY <1>3, OffsetRange
<1>6. SeqSub(at, p.ack) = SeqSub(at, base) - SeqSub(p.ack, base)
  BY <1>3, <1>4, OffsetRebase
<1>7. ASSUME NEW i \in 1 .. Len(t)
      PROVE  /\ SeqSub(t[i].ack, p.ack) = SeqSub(t[i].ack, base) - SeqSub(p.ack, base)
             /\ SeqSub(t[i].ack, base) \in Nat /\ t[i].win \in Int
             /\ SeqSub(t[i].ack, base) <= SeqSub(at, base)
             /\ SeqSub(t[i].ack, base) + t[i].win <= SeqSub(at, base) + room
  <2>1. t[i] = acks[i + 1] /\ i + 1 \in 1 .. Len(acks) /\ 1 < i + 1 BY <1>1
  <2>2. t[i].ack \in SeqNum /\ t[i].win \in Int BY <2>1, Elements
  <2>3. SeqSub(p.ack, base) <= SeqSub(t[i].ack, base) BY <1>1, <1>2, <2>1 DEF Acks
  <2>4. SeqSub(t[i].ack, p.ack) = SeqSub(t[i].ack, base) - SeqSub(p.ack, base)
    BY <1>3, <2>2, <2>3, OffsetRebase
  <2>5. /\ SeqSub(acks[i + 1].ack, base) <= SeqSub(at, base)
        /\ SeqSub(acks[i + 1].ack, base) + acks[i + 1].win <= SeqSub(at, base) + room
    BY <2>1 DEF Acks
  <2> QED BY <2>1, <2>2, <2>4, <2>5, OffsetRange
<1>8. ASSUME NEW i \in 1 .. Len(t), NEW j \in 1 .. Len(t), i < j
      PROVE  SeqSub(t[i].ack, p.ack) <= SeqSub(t[j].ack, p.ack)
  <2>1. /\ t[i] = acks[i + 1] /\ i + 1 \in 1 .. Len(acks)
        /\ t[j] = acks[j + 1] /\ j + 1 \in 1 .. Len(acks) /\ i + 1 < j + 1
    BY <1>1, <1>8
  <2>2. SeqSub(t[i].ack, base) <= SeqSub(t[j].ack, base) BY <2>1 DEF Acks
  <2> QED BY <1>5, <1>7, <2>2
<1>9. ASSUME NEW i \in 1 .. Len(t)
      PROVE  /\ SeqSub(t[i].ack, p.ack) <= SeqSub(at, p.ack)
             /\ SeqSub(t[i].ack, p.ack) + t[i].win <= SeqSub(at, p.ack) + room
  BY <1>5, <1>6, <1>7
<1>10. Acks(t, at, room, p.ack)
  <2> HIDE DEF t, p
  <2> QED BY <1>8, <1>9 DEF Acks
<1> QED BY <1>3, <1>4, <1>10

\* The receiver moves on or gets more room, but never takes back what it granted.
LEMMA AcksMove ==
  ASSUME NEW acks \in Seq(Packet), NEW at \in SeqNum, NEW room \in Int, NEW base \in SeqNum,
         Acks(acks, at, room, base), NEW at2 \in SeqNum, NEW room2 \in Int,
         SeqSub(at, base) <= SeqSub(at2, base),
         SeqSub(at, base) + room <= SeqSub(at2, base) + room2
  PROVE  Acks(acks, at2, room2, base)
<1>1. SeqSub(at, base) \in Nat /\ SeqSub(at2, base) \in Nat BY OffsetRange
<1>2. ASSUME NEW i \in 1 .. Len(acks)
      PROVE  /\ SeqSub(acks[i].ack, base) <= SeqSub(at2, base)
             /\ SeqSub(acks[i].ack, base) + acks[i].win <= SeqSub(at2, base) + room2
  <2>1. SeqSub(acks[i].ack, base) \in Nat /\ acks[i].win \in Int BY Elements, OffsetRange
  <2>2. /\ SeqSub(acks[i].ack, base) <= SeqSub(at, base)
        /\ SeqSub(acks[i].ack, base) + acks[i].win <= SeqSub(at, base) + room
    BY DEF Acks
  <2> QED BY <1>1, <2>1, <2>2
<1> QED BY <1>2 DEF Acks

\* It acknowledges what it has got.
LEMMA AcksAdd ==
  ASSUME NEW acks \in Seq(Packet), NEW at \in SeqNum, NEW room \in Int, NEW base \in SeqNum,
         Acks(acks, at, room, base), NEW q \in Packet, q.ack = at, q.win <= room
  PROVE  Acks(Append(acks, q), at, room, base)
<1> DEFINE n == Len(acks)
           a == Append(acks, q)
<1>1. /\ n \in Nat /\ Len(a) = n + 1 /\ a[n + 1] = q
      /\ \A i \in 1 .. n : a[i] = acks[i]
  BY Added
<1>2. SeqSub(at, base) \in Nat /\ q.win \in Int BY OffsetRange DEF Packet
<1>3. ASSUME NEW i \in 1 .. n + 1
      PROVE  /\ SeqSub(a[i].ack, base) <= SeqSub(at, base)
             /\ SeqSub(a[i].ack, base) + a[i].win <= SeqSub(at, base) + room
  <2>1. CASE i \in 1 .. n BY <1>1, <2>1 DEF Acks
  <2>2. CASE i = n + 1 BY <1>1, <1>2, <2>2
  <2> QED BY <1>1, <2>1, <2>2
<1>4. ASSUME NEW i \in 1 .. n + 1, NEW j \in 1 .. n + 1, i < j
      PROVE  SeqSub(a[i].ack, base) <= SeqSub(a[j].ack, base)
  <2>1. i \in 1 .. n BY <1>1, <1>4
  <2>2. CASE j \in 1 .. n BY <1>1, <1>4, <2>1, <2>2 DEF Acks
  <2>3. CASE j = n + 1 BY <1>1, <1>3, <2>3
  <2> QED BY <1>1, <2>2, <2>3
<1> HIDE DEF a, n
<1> QED BY <1>1, <1>3, <1>4 DEF Acks, a, n

-----------------------------------------------------------------------------

FlowType(data, acks, at, room, next, win, base, bound) ==
  /\ data \in Seq(Packet) /\ acks \in Seq(Packet)
  /\ at \in SeqNum /\ next \in SeqNum /\ base \in SeqNum
  /\ room \in Int /\ win \in Int /\ bound \in Nat /\ bound + 1 < SeqSpace

\* Nothing is under way and everything is acknowledged but the SYN, perhaps.
LEMMA FlowStart ==
  ASSUME NEW base \in {0, 1}, NEW bound \in Nat \ {0}, bound + 1 < SeqSpace,
         NEW win \in Nat, win <= bound
  PROVE  Flow(<<>>, <<>>, 1, bound, 1, win, base, bound)
<1>1. SeqSub(1, base) \in {0, 1} BY DEF SeqSub
<1>2. Chain(<<>>, 1, 1, base) BY DEF Chain
<1>3. Acks(<<>>, 1, bound, base) BY DEF Acks
<1> QED BY <1>1, <1>2, <1>3 DEF Flow, Sender

\* The receiver takes the oldest packet: it starts where the receiver stopped, and
\* there is room for it.
LEMMA FlowReceive ==
  ASSUME NEW data, NEW acks, NEW at, NEW room, NEW next, NEW win, NEW base, NEW bound,
         FlowType(data, acks, at, room, next, win, base, bound),
         Flow(data, acks, at, room, next, win, base, bound), data # <<>>
  PROVE  LET p == Head(data)
         IN /\ p.seq = at /\ p.len <= room /\ SeqAdd(at, p.len) \in SeqNum
            /\ Flow(Tail(data), acks, SeqAdd(at, p.len), room - p.len, next, win, base, bound)
<1> DEFINE p == Head(data)
           mid == SeqAdd(at, p.len)
<1>1. /\ data \in Seq(Packet) /\ acks \in Seq(Packet) /\ at \in SeqNum /\ next \in SeqNum
      /\ base \in SeqNum /\ room \in Int /\ win \in Int /\ bound \in Nat
  BY DEF FlowType
<1>2. p.len \in Nat
  <2>1. p \in Packet BY <1>1, Took
  <2> QED BY <2>1, BufferAssumption DEF Packet, SeqNum
<1>3. /\ p.seq = at /\ SeqSub(at, base) + p.len <= SeqSub(next, base) /\ mid \in SeqNum
      /\ SeqSub(mid, base) = SeqSub(at, base) + p.len
      /\ Chain(Tail(data), mid, next, base)
  BY <1>1, ChainTake DEF Flow
<1>4. SeqSub(at, base) \in Nat /\ SeqSub(next, base) \in Nat BY <1>1, OffsetRange
<1>5. p.len <= room BY <1>1, <1>2, <1>3, <1>4 DEF Flow, Sender
<1>6. Sender(next, win, mid, room - p.len, base)
  BY <1>1, <1>2, <1>3, <1>4 DEF Flow, Sender
<1>7. Acks(acks, mid, room - p.len, base)
  <2>1. /\ SeqSub(at, base) <= SeqSub(mid, base) /\ room - p.len \in Int
        /\ SeqSub(at, base) + room <= SeqSub(mid, base) + (room - p.len)
    BY <1>1, <1>2, <1>3, <1>4
  <2> QED BY <1>1, <1>3, <2>1, AcksMove DEF Flow
<1> HIDE DEF p, mid
<1>8. room - p.len <= bound BY <1>1, <1>2 DEF Flow
<1>9. Flow(Tail(data), acks, mid, room - p.len, next, win, base, bound)
  BY <1>3, <1>6, <1>7, <1>8 DEF Flow
<1> QED BY <1>3, <1>5, <1>9 DEF p, mid

\* The sender hears the oldest acknowledgement and the window that came with it.
LEMMA FlowAck ==
  ASSUME NEW data, NEW acks, NEW at, NEW room, NEW next, NEW win, NEW base, NEW bound,
         FlowType(data, acks, at, room, next, win, base, bound),
         Flow(data, acks, at, room, next, win, base, bound), acks # <<>>
  PROVE  LET p == Head(acks)
         IN /\ p.flags = "ACK"
            /\ Flow(data, Tail(acks), at, room, next, p.win, p.ack, bound)
<1> DEFINE p == Head(acks)
<1>1. /\ data \in Seq(Packet) /\ acks \in Seq(Packet) /\ at \in SeqNum /\ next \in SeqNum
      /\ base \in SeqNum /\ room \in Int /\ win \in Int /\ bound \in Nat
  BY DEF FlowType
<1>2. /\ p.ack \in SeqNum /\ p.win \in Int
      /\ SeqSub(p.ack, base) <= SeqSub(at, base)
      /\ SeqSub(p.ack, base) + p.win <= SeqSub(at, base) + room
      /\ Acks(Tail(acks), at, room, p.ack)
  BY <1>1, AcksTake DEF Flow
<1>3. /\ SeqSub(at, base) \in Nat /\ SeqSub(next, base) \in Nat /\ SeqSub(p.ack, base) \in Nat
  BY <1>1, <1>2, OffsetRange
<1>4. /\ SeqSub(at, base) <= SeqSub(next, base)
      /\ SeqSub(next, base) <= SeqSub(at, base) + room /\ SeqSub(next, base) <= bound
  BY DEF Flow, Sender
<1>5. /\ SeqSub(at, p.ack) = SeqSub(at, base) - SeqSub(p.ack, base)
      /\ SeqSub(next, p.ack) = SeqSub(next, base) - SeqSub(p.ack, base)
  <2>1. SeqSub(p.ack, base) <= SeqSub(next, base) BY <1>2, <1>3, <1>4
  <2> QED BY <1>1, <1>2, <2>1, OffsetRebase
<1>6. Chain(data, at, next, p.ack)
  BY <1>1, <1>2, <1>4, ChainRebase DEF Flow
<1>7. /\ p.flags = "ACK" /\ p.win <= bound
      /\ \A i \in 1 .. Len(Tail(acks)) : Tail(acks)[i].flags = "ACK" /\ Tail(acks)[i].win <= bound
  BY <1>1, Took DEF Flow
<1> HIDE DEF p
<1>8. Sender(next, p.win, at, room, p.ack) /\ SeqSub(next, p.ack) <= bound /\ room <= bound
  BY <1>1, <1>2, <1>3, <1>4, <1>5 DEF Flow, Sender
<1>9. Flow(data, Tail(acks), at, room, next, p.win, p.ack, bound)
  BY <1>2, <1>6, <1>7, <1>8 DEF Flow
<1> QED BY <1>7, <1>9 DEF p

\* The sender adds a packet within its window, or an empty one.
LEMMA FlowSend ==
  ASSUME NEW data, NEW acks, NEW at, NEW room, NEW next, NEW win, NEW base, NEW bound,
         FlowType(data, acks, at, room, next, win, base, bound),
         Flow(data, acks, at, room, next, win, base, bound),
         NEW q \in Packet, q.seq = next, q.len = 0 \/ SeqSub(next, base) + q.len <= win
  PROVE  Flow(Append(data, q), acks, at, room, SeqAdd(next, q.len), win, base, bound)
<1> DEFINE end == SeqAdd(next, q.len)
<1>1. /\ data \in Seq(Packet) /\ acks \in Seq(Packet) /\ at \in SeqNum /\ next \in SeqNum
      /\ base \in SeqNum /\ room \in Int /\ win \in Int /\ bound \in Nat /\ bound + 1 < SeqSpace
  BY DEF FlowType
<1>2. q.len \in Nat BY BufferAssumption DEF Packet, SeqNum
<1>3. SeqSub(at, base) \in Nat /\ SeqSub(next, base) \in Nat BY <1>1, OffsetRange
<1>4. /\ SeqSub(at, base) <= SeqSub(next, base)
      /\ SeqSub(next, base) <= SeqSub(at, base) + room /\ SeqSub(next, base) <= bound
      /\ win <= bound /\ win <= SeqSub(at, base) + room
  BY DEF Flow, Sender
<1>5. /\ SeqSub(next, base) + q.len <= bound
      /\ SeqSub(next, base) + q.len <= SeqSub(at, base) + room
  BY <1>1, <1>2, <1>3, <1>4
<1>6. SeqSub(next, base) + q.len < SeqSpace BY <1>1, <1>2, <1>3, <1>5, BufferAssumption
<1>7. /\ SeqSub(end, base) = SeqSub(next, base) + q.len
      /\ Chain(Append(data, q), at, end, base)
  BY <1>1, <1>4, <1>6, ChainAdd DEF Flow
<1> HIDE DEF end
<1>8. Sender(end, win, at, room, base) /\ SeqSub(end, base) <= bound
  BY <1>2, <1>3, <1>4, <1>5, <1>7 DEF Sender
<1>9. Flow(Append(data, q), acks, at, room, end, win, base, bound)
  BY <1>7, <1>8 DEF Flow
<1> QED BY <1>9 DEF end

\* The receiver acknowledges what it has got and grants no more than its room.
LEMMA FlowGrant ==
  ASSUME NEW data, NEW acks, NEW at, NEW room, NEW next, NEW win, NEW base, NEW bound,
         FlowType(data, acks, at, room, next, win, base, bound),
         Flow(data, acks, at, room, next, win, base, bound),
         NEW q \in Packet, q.flags = "ACK", q.ack = at, q.win <= room
  PROVE  Flow(data, Append(acks, q), at, room, next, win, base, bound)
<1>1. acks \in Seq(Packet) /\ at \in SeqNum /\ base \in SeqNum /\ room \in Int /\ bound \in Nat
  BY DEF FlowType
<1>2. Acks(Append(acks, q), at, room, base)
  BY <1>1, AcksAdd DEF Flow
<1>3. q.win <= bound
  <2>1. q.win \in Int /\ room <= bound BY DEF Packet, Flow
  <2> QED BY <1>1, <2>1
<1> DEFINE a == Append(acks, q)
<1>4. /\ Len(acks) \in Nat /\ Len(a) = Len(acks) + 1 /\ a[Len(acks) + 1] = q
      /\ \A i \in 1 .. Len(acks) : a[i] = acks[i]
  BY <1>1, Added
<1>5. ASSUME NEW i \in 1 .. Len(a) PROVE a[i].flags = "ACK" /\ a[i].win <= bound
  <2>1. CASE i \in 1 .. Len(acks) BY <1>4, <2>1 DEF Flow
  <2>2. CASE i = Len(acks) + 1 BY <1>3, <1>4, <2>2
  <2> HIDE DEF a
  <2> QED BY <1>4, <2>1, <2>2
<1> HIDE DEF a
<1> QED BY <1>2, <1>5 DEF Flow, a

\* The receiver gets more room.
LEMMA FlowRoom ==
  ASSUME NEW data, NEW acks, NEW at, NEW room, NEW next, NEW win, NEW base, NEW bound,
         FlowType(data, acks, at, room, next, win, base, bound),
         Flow(data, acks, at, room, next, win, base, bound),
         NEW more \in Int, room <= more, more <= bound
  PROVE  Flow(data, acks, at, more, next, win, base, bound)
<1>1. /\ acks \in Seq(Packet) /\ at \in SeqNum /\ next \in SeqNum /\ base \in SeqNum
      /\ room \in Int /\ win \in Int
  BY DEF FlowType
<1>2. SeqSub(at, base) \in Nat /\ SeqSub(next, base) \in Nat BY <1>1, OffsetRange
<1>3. Acks(acks, at, more, base) BY <1>1, <1>2, AcksMove DEF Flow
<1> QED BY <1>1, <1>2, <1>3 DEF Flow, Sender

\* The sender stops.
LEMMA FlowStop ==
  ASSUME NEW data, NEW acks, NEW at, NEW room \in Nat, NEW next, NEW win, NEW base, NEW bound,
         FlowType(data, acks, at, room, next, win, base, bound),
         Flow(data, acks, at, room, next, win, base, bound)
  PROVE  Flow(data, acks, at, room, next, 0, base, bound)
<1>1. at \in SeqNum /\ base \in SeqNum /\ bound \in Nat BY DEF FlowType
<1>2. SeqSub(at, base) \in Nat BY <1>1, OffsetRange
<1> QED BY <1>1, <1>2 DEF Flow, Sender

\* A sender that ignores the acknowledgement.
LEMMA FlowDeaf ==
  ASSUME NEW data, NEW acks, NEW at, NEW room, NEW next, NEW win, NEW base, NEW bound,
         FlowType(data, acks, at, room, next, win, base, bound),
         Flow(data, acks, at, room, next, win, base, bound), acks # <<>>
  PROVE  Flow(data, Tail(acks), at, room, next, win, base, bound)
<1> DEFINE t == Tail(acks)
<1>1. acks \in Seq(Packet) BY DEF FlowType
<1>2. /\ Len(acks) \in Nat /\ Len(t) = Len(acks) - 1
      /\ \A i \in 1 .. Len(t) : t[i] = acks[i + 1] /\ i + 1 \in 1 .. Len(acks)
  BY <1>1, Took
<1> HIDE DEF t
<1>3. Acks(t, at, room, base)
  <2>1. Acks(acks, at, room, base) BY DEF Flow
  <2>2. ASSUME NEW i \in 1 .. Len(t), NEW j \in 1 .. Len(t), i < j
        PROVE  SeqSub(t[i].ack, base) <= SeqSub(t[j].ack, base)
    <3>1. i + 1 < j + 1 BY <1>2, <2>2
    <3> QED BY <1>2, <2>1, <3>1 DEF Acks
  <2> QED BY <1>2, <2>1, <2>2 DEF Acks
<1>4. \A i \in 1 .. Len(t) : t[i].flags = "ACK" /\ t[i].win <= bound
  BY <1>2 DEF Flow
<1> QED BY <1>3, <1>4 DEF Flow, t

-----------------------------------------------------------------------------
(***************************************************************************)
(* The actions.                                                            *)
(***************************************************************************)

StreamInv == HandshakeInv /\ UpInv /\ DownInv

\* The numbers of both directions have the types the laws ask for.
LEMMA FlowTypes ==
  ASSUME LocalInv
  PROVE  /\ FlowType(d2h, h2d, conn.tx_ack, conn.tx_win, dev.seq, dev.win, dev.una, InBufSize)
         /\ FlowType(h2d, d2h, dev.ack, DevBufSize - dev.buf, conn.tx_seq, conn.rx_win,
                     conn.rx_ack, DevBufSize)
<1>1. conn \in Connection /\ dev \in DeviceEnd /\ h2d \in Seq(Packet) /\ d2h \in Seq(Packet)
  BY DEF LocalInv, TypeOK
<1> QED BY <1>1, BufferAssumption DEF FlowType, Connection, DeviceEnd

\* What the helpers keep of the numbers both directions are about.
LEMMA SameNumbers ==
  ASSUME NEW c \in Connection
  PROVE  /\ UpdateConn(c).tx_seq = c.tx_seq /\ UpdateConn(c).tx_ack = c.tx_ack
         /\ UpdateConn(c).rx_ack = c.rx_ack /\ UpdateConn(c).rx_win = c.rx_win
         /\ UpdateConn(c).tx_win = c.tx_win /\ UpdateConn(c).state = c.state
         /\ UpdateConn(c).sendable = Sendable(c)
         /\ AckNow(c).tx_seq = c.tx_seq /\ AckNow(c).tx_ack = c.tx_ack
         /\ AckNow(c).rx_ack = c.rx_ack /\ AckNow(c).rx_win = c.rx_win
         /\ AckNow(c).tx_win = c.tx_win /\ AckNow(c).state = c.state
         /\ AckNow(c).sendable = Sendable(c)
<1>1. /\ UpdateConn(c).tx_seq = c.tx_seq /\ UpdateConn(c).tx_ack = c.tx_ack
      /\ UpdateConn(c).rx_ack = c.rx_ack /\ UpdateConn(c).rx_win = c.rx_win
      /\ UpdateConn(c).tx_win = c.tx_win /\ UpdateConn(c).state = c.state
      /\ UpdateConn(c).sendable = Sendable(c)
  BY DEF UpdateConn, Connection
<1>2. /\ AckNow(c).tx_seq = c.tx_seq /\ AckNow(c).tx_ack = c.tx_ack
      /\ AckNow(c).rx_ack = c.rx_ack /\ AckNow(c).rx_win = c.rx_win
      /\ AckNow(c).tx_win = c.tx_win /\ AckNow(c).state = c.state
  BY DEF AckNow, AfterSend, UpdateConn, Connection
<1>3. AckNow(c).sendable = Sendable(c)
  BY DEF AckNow, AfterSend, UpdateConn, Connection, Sendable
<1> QED BY <1>1, <1>2, <1>3

\* The window of a packet is at most what its sender has free.
LEMMA RoundedDown ==
  ASSUME NEW w \in Int
  PROVE  Advertised(w) <= w
BY WindowAssumption DEF Advertised

\* The steps that leave the connection, the device and the channels alone.
LEMMA StreamFrame ==
  ASSUME StreamInv, UNCHANGED <<conn, dev, h2d, d2h>>,
         client'.state = "COMMAND" => client.state = "COMMAND"
  PROVE  StreamInv'
<1>1. HandshakeInv' BY DEF StreamInv, HandshakeInv
<1>2. UpInv' BY DEF StreamInv, UpInv
<1>3. DownInv' BY DEF StreamInv, DownInv, Open
<1> QED BY <1>1, <1>2, <1>3 DEF StreamInv

\* The steps after which there is no connection.
LEMMA StreamClosed ==
  ASSUME conn'.state = "NONE",
         client'.state = "COMMAND" =>
           dev' = NoDev /\ d2h' = <<>> /\ \A i \in 1 .. Len(h2d') : h2d'[i].flags = "RST"
  PROVE  StreamInv'
BY DEF StreamInv, HandshakeInv, UpInv, DownInv, Open

\* The steps of an open connection.
LEMMA StreamConnected ==
  ASSUME conn'.state = "CONNECTED", client'.state # "COMMAND", UpInv', DownInv'
  PROVE  StreamInv'
BY DEF StreamInv, HandshakeInv

\* select moves no byte.
LEMMA LoopStream == IInv /\ (Select \/ SelectTimeout) => StreamInv'
<1> SUFFICES ASSUME IInv, Select \/ SelectTimeout PROVE StreamInv'
  OBVIOUS
<1>1. UNCHANGED <<conn, client, dev, h2d, d2h>>
  BY DEF Select, SelectTimeout, IInv, LocalInv, FlagsFresh
<1> QED BY <1>1, StreamFrame DEF IInv, StreamInv

\* Nor does the application change what is under way.
LEMMA AppStream == IInv /\ (AppConnect \/ AppWrite \/ AppRead \/ AppClose) => StreamInv'
<1> SUFFICES ASSUME IInv, AppConnect \/ AppWrite \/ AppRead \/ AppClose PROVE StreamInv'
  OBVIOUS
<1>1. UNCHANGED <<conn, client, dev, h2d, d2h>>
  BY DEF App, AppConnect, AppWrite, AppRead, AppClose
<1> QED BY <1>1, StreamFrame DEF IInv, StreamInv

\* A teardown of an open connection frees the client.
LEMMA TeardownStream ==
  ASSUME IInv, NEW c, NEW out, Teardown(c, out), c.state \notin {"CONNECTING", "REFUSED"}
  PROVE  StreamInv'
<1>1. conn'.state = "NONE" BY DEF Teardown, NoConn
<1>2. client'.state = "FREED"
  <2>1. client \in Client BY DEF IInv, LocalInv, TypeOK
  <2>2. client' = Released(client, 1) BY DEF Teardown
  <2> QED BY <2>1, <2>2, ReleasedType
<1> QED BY <1>1, <1>2, StreamClosed

\* What DeviceReceive does before there is a connection, and while one is being made.
LEMMA DeviceReceiveHandshake ==
  ASSUME IInv, DeviceReceive, conn.state # "CONNECTED"
  PROVE  StreamInv'
<1>1. /\ h2d # <<>> /\ h2d' = Tail(h2d) /\ UNCHANGED <<conn, client>>
  BY DEF DeviceReceive, DeviceAccept, DeviceRefuse, DeviceTake, DeviceReset, DevicePop
<1>2. /\ h2d \in Seq(Packet) /\ d2h \in Seq(Packet) /\ dev \in DeviceEnd /\ HandshakeInv
      /\ conn.state \in {"NONE", "CONNECTING"} /\ StatesAgree
  BY DEF IInv, LocalInv, TypeOK, Connection
<1>3. /\ Head(h2d) = h2d[1] /\ Len(h2d) \in Nat \ {0} /\ Len(Tail(h2d)) = Len(h2d) - 1
      /\ Tail(h2d) \in Seq(Packet)
      /\ \A i \in 1 .. Len(Tail(h2d)) : Tail(h2d)[i] = h2d[i + 1] /\ i + 1 \in 1 .. Len(h2d)
  BY <1>1, <1>2, Took
<1>4. CASE conn.state = "NONE"
  <2>1. conn'.state = "NONE" BY <1>1, <1>4
  <2>2. ASSUME client'.state = "COMMAND"
        PROVE  dev' = NoDev /\ d2h' = <<>> /\ \A i \in 1 .. Len(h2d') : h2d'[i].flags = "RST"
    <3>1. dev = NoDev /\ d2h = <<>> /\ \A i \in 1 .. Len(h2d) : h2d[i].flags = "RST"
      BY <1>1, <1>2, <2>2 DEF HandshakeInv
    <3>2. Head(h2d).flags = "RST" BY <1>3, <3>1
    <3>3. DeviceReset BY <3>2 DEF DeviceReceive, DeviceAccept, DeviceRefuse, DeviceTake
    <3>4. dev' = NoDev /\ d2h' = <<>> BY <3>1, <3>3 DEF DeviceReset
    <3> QED BY <1>1, <1>3, <3>1, <3>4
  <2> QED BY <2>1, <2>2, StreamClosed
<1>5. CASE conn.state = "CONNECTING"
  <2>1. /\ conn = AfterSend([NoConn EXCEPT !.state = "CONNECTING"])
        /\ dev = NoDev /\ d2h = <<>> /\ h2d[Len(h2d)] = Tcp(NoConn, "SYN", 0)
        /\ \A i \in 1 .. Len(h2d) - 1 : h2d[i].flags = "RST"
    BY <1>1, <1>2, <1>5 DEF HandshakeInv
  <2>2. client'.state # "COMMAND" /\ conn'.state = "CONNECTING"
    BY <1>1, <1>2, <1>5 DEF StatesAgree
  <2>3. UpInv' /\ DownInv' BY <2>2 DEF UpInv, DownInv, Open
  <2>4. CASE Len(h2d) = 1
    <3>1. h2d' = <<>>
      <4>1. Len(Tail(h2d)) = 0 BY <1>3, <2>4
      <4> QED BY <1>1, <1>3, <4>1, EmptySeq
    <3>2. Head(h2d) = Tcp(NoConn, "SYN", 0) BY <1>3, <2>1, <2>4
    <3>3. /\ Head(h2d).flags = "SYN" /\ Head(h2d).seq = 0
          /\ Head(h2d).win = Advertised(InBufSize)
      BY <3>2 DEF Tcp, NoConn
    <3>4. CASE DeviceAccept
      <4>1. SeqAdd(0, 1) = 1 BY BufferAssumption DEF SeqAdd
      <4>2. /\ dev' = [NoDev EXCEPT !.state = "SYN_RCVD", !.seq = 1, !.ack = 1,
                                    !.win = Advertised(InBufSize)]
        BY <3>3, <3>4, <4>1 DEF DeviceAccept
      <4>3. d2h' = <<[flags |-> "SYNACK", seq |-> 0, ack |-> 1,
                      win |-> Advertised(DevBufSize), len |-> 0]>>
        <5>1. dev'.ack = 1 BY <4>2 DEF NoDev
        <5> QED BY <2>1, <3>4, <5>1 DEF DeviceAccept
      <4>4. /\ Len(d2h') = 1
            /\ d2h'[1] = [flags |-> "SYNACK", seq |-> 0, ack |-> 1,
                          win |-> Advertised(DevBufSize), len |-> 0]
            /\ d2h'[1].flags = "SYNACK"
        BY <4>3
      <4>5. HandshakeInv'
        BY <1>1, <2>1, <2>2, <3>1, <4>2, <4>4 DEF HandshakeInv
      <4> QED BY <2>3, <4>5 DEF StreamInv
    <3>5. CASE DeviceRefuse
      <4>1. PICK f \in {"RST", "FIN"} : d2h' = Append(d2h, Reply(f, 0, 0))
        BY <3>5 DEF DeviceRefuse
      <4>2. d2h' = <<Reply(f, 0, 0)>> BY <2>1, <4>1
      <4>3. Len(d2h') = 1 /\ d2h'[1].flags \in {"RST", "FIN"} BY <4>2 DEF Reply
      <4>4. dev' = NoDev BY <2>1, <3>5 DEF DeviceRefuse
      <4>5. HandshakeInv'
        BY <1>1, <2>1, <2>2, <3>1, <4>3, <4>4 DEF HandshakeInv
      <4> QED BY <2>3, <4>5 DEF StreamInv
    <3> QED BY <3>3, <3>4, <3>5 DEF DeviceReceive, DeviceTake, DeviceReset
  <2>5. CASE Len(h2d) # 1
    <3>1. Head(h2d).flags = "RST" BY <1>3, <2>1, <2>5
    <3>2. DeviceReset BY <3>1 DEF DeviceReceive, DeviceAccept, DeviceRefuse, DeviceTake
    <3>3. dev' = NoDev /\ d2h' = <<>> BY <2>1, <3>2 DEF DeviceReset
    <3>4. Len(h2d') \in Nat \ {0} /\ Len(h2d') = Len(h2d) - 1 BY <1>1, <1>3, <2>5
    <3>5. h2d' # <<>> BY <3>4, EmptyQueue
    <3>6. h2d'[Len(h2d')] = Tcp(NoConn, "SYN", 0)
      <4>1. h2d'[Len(h2d')] = h2d[Len(h2d') + 1] BY <1>1, <1>3, <3>4
      <4> QED BY <1>3, <2>1, <3>4, <4>1
    <3>7. \A i \in 1 .. Len(h2d') - 1 : h2d'[i].flags = "RST"
      <4>1. SUFFICES ASSUME NEW i \in 1 .. Len(h2d') - 1 PROVE h2d'[i].flags = "RST"
        OBVIOUS
      <4>2. h2d'[i] = h2d[i + 1] /\ i + 1 \in 1 .. Len(h2d) - 1 BY <1>1, <1>3, <3>4
      <4> QED BY <2>1, <4>2
    <3>8. HandshakeInv'
      BY <1>1, <2>1, <2>2, <3>3, <3>5, <3>6, <3>7 DEF HandshakeInv
    <3> QED BY <2>3, <3>8 DEF StreamInv
  <2> QED BY <2>4, <2>5
<1> QED BY <1>2, <1>4, <1>5

\* The device takes a packet of an open connection.
LEMMA DeviceReceiveStream == IInv /\ DeviceReceive => StreamInv'
<1> SUFFICES ASSUME IInv, DeviceReceive, conn.state = "CONNECTED" PROVE StreamInv'
  BY DeviceReceiveHandshake
<1> DEFINE p == Head(h2d)
<1>1. /\ h2d # <<>> /\ h2d' = Tail(h2d) /\ UNCHANGED <<conn, client>>
  BY DEF DeviceReceive, DeviceAccept, DeviceRefuse, DeviceTake, DeviceReset, DevicePop
<1>2. /\ h2d \in Seq(Packet) /\ d2h \in Seq(Packet) /\ dev \in DeviceEnd /\ StatesAgree
      /\ dev.state \in {"SYN_RCVD", "OPEN", "CLOSED"} /\ LocalInv
      /\ Flow(d2h, h2d, conn.tx_ack, conn.tx_win, dev.seq, dev.win, dev.una, InBufSize)
      /\ Open =>
           Flow(h2d, d2h, dev.ack, DevBufSize - dev.buf, conn.tx_seq, conn.rx_win, conn.rx_ack, DevBufSize)
  BY DEF IInv, LocalInv, TypeOK, UpInv, DownInv
<1>3. /\ p.flags = "ACK"
      /\ Flow(d2h, Tail(h2d), conn.tx_ack, conn.tx_win, dev.seq, p.win, p.ack, InBufSize)
      /\ Flow(d2h, Tail(h2d), conn.tx_ack, conn.tx_win, dev.seq, dev.win, dev.una, InBufSize)
  BY <1>1, <1>2, FlowTypes, FlowAck, FlowDeaf
<1>4. DeviceTake /\ UNCHANGED d2h
  BY <1>3 DEF DeviceReceive, DeviceAccept, DeviceRefuse, DeviceReset, DeviceTake
<1>5. conn'.state = "CONNECTED" /\ client'.state # "COMMAND"
  BY <1>1, <1>2 DEF StatesAgree
<1>6. CASE dev.state = "CLOSED"
  <2>1. dev' = dev BY <1>4, <1>6 DEF DeviceTake
  <2>2. UpInv' BY <1>1, <1>2, <1>3, <1>4, <2>1 DEF UpInv
  <2>3. DownInv' BY <1>6, <2>1 DEF DownInv, Open
  <2> QED BY <1>5, <2>2, <2>3, StreamConnected
<1>7. CASE dev.state \in {"SYN_RCVD", "OPEN"}
  <2>1. p \in Packet BY <1>1, <1>2, Took
  <2>2. p.len \in Nat BY <2>1, BufferAssumption DEF Packet, SeqNum
  <2>3. dev' = [dev EXCEPT !.state = "OPEN", !.una = p.ack, !.win = p.win,
                           !.ack = SeqAdd(@, p.len), !.buf = @ + p.len,
                           !.owes = @ \/ p.len > 0]
    BY <1>4, <1>7 DEF DeviceTake
  <2>4. /\ dev'.state = "OPEN" /\ dev'.una = p.ack /\ dev'.win = p.win
        /\ dev'.ack = SeqAdd(dev.ack, p.len) /\ dev'.buf = dev.buf + p.len
        /\ dev'.seq = dev.seq
    BY <1>2, <2>3 DEF DeviceEnd
  <2>5. UpInv' BY <1>1, <1>3, <1>4, <2>4 DEF UpInv
  <2>6. DownInv'
    <3>1. Flow(Tail(h2d), d2h, SeqAdd(dev.ack, p.len), (DevBufSize - dev.buf) - p.len,
               conn.tx_seq, conn.rx_win, conn.rx_ack, DevBufSize)
      BY <1>1, <1>2, <1>7, FlowTypes, FlowReceive DEF Open
    <3>2. (DevBufSize - dev.buf) - p.len = DevBufSize - dev'.buf
      BY <1>2, <2>2, <2>4, BufferAssumption DEF DeviceEnd
    <3> QED BY <1>1, <1>4, <2>4, <3>1, <3>2 DEF DownInv
  <2> QED BY <1>5, <2>5, <2>6, StreamConnected
<1> QED BY <1>2, <1>6, <1>7

\* The device sends, acknowledges, consumes or closes.
LEMMA DeviceActsStream ==
  IInv /\ (DeviceSend \/ DeviceAck \/ DeviceConsume \/ DeviceClose) => StreamInv'
<1> SUFFICES ASSUME IInv, DeviceSend \/ DeviceAck \/ DeviceConsume \/ DeviceClose
             PROVE  StreamInv'
  OBVIOUS
<1>1. /\ dev.state = "OPEN" /\ UNCHANGED <<conn, client, h2d>>
  BY DEF DeviceSend, DeviceAck, DeviceConsume, DeviceClose, DevicePush
<1>2. /\ h2d \in Seq(Packet) /\ d2h \in Seq(Packet) /\ dev \in DeviceEnd /\ LocalInv
      /\ conn \in Connection
  BY DEF IInv, LocalInv, TypeOK
<1>3. client.state # "COMMAND" /\ conn.state # "CONNECTING"
  <2>1. dev # NoDev BY <1>1 DEF NoDev
  <2>2. dev # [NoDev EXCEPT !.state = "SYN_RCVD", !.seq = 1, !.ack = 1, !.win = Advertised(InBufSize)]
    BY <1>1 DEF NoDev
  <2> QED BY <2>1, <2>2 DEF IInv, HandshakeInv
<1>4. CASE conn.state # "CONNECTED"
  BY <1>1, <1>2, <1>3, <1>4, StreamClosed DEF Connection
<1>5. CASE conn.state = "CONNECTED"
  <2> DEFINE room == DevBufSize - dev.buf
             qa(f, n) == Reply(f, dev.seq, n)
  <2>1. /\ Flow(d2h, h2d, conn.tx_ack, conn.tx_win, dev.seq, dev.win, dev.una, InBufSize)
        /\ Flow(h2d, d2h, dev.ack, room, conn.tx_seq, conn.rx_win, conn.rx_ack, DevBufSize)
    BY <1>1, <1>5 DEF IInv, UpInv, DownInv, Open
  <2>2. room \in Int /\ dev.seq \in SeqNum /\ dev.win \in Int /\ conn.tx_win \in Nat
    BY <1>2, BufferAssumption DEF DeviceEnd, Connection
  <2>3. ASSUME NEW f \in Flags, NEW n \in SeqNum
        PROVE  /\ qa(f, n) \in Packet /\ qa(f, n).seq = dev.seq /\ qa(f, n).len = n
               /\ qa(f, n).flags = f /\ qa(f, n).ack = dev.ack /\ qa(f, n).win <= room
    BY <1>2, <2>2, ReplyType, RoundedDown DEF Reply
  <2>4. ASSUME NEW f \in Flags, NEW n \in SeqNum, n = 0 \/ SeqSub(dev.seq, dev.una) + n <= dev.win
        PROVE  Flow(Append(d2h, qa(f, n)), h2d, conn.tx_ack, conn.tx_win, SeqAdd(dev.seq, n),
                    dev.win, dev.una, InBufSize)
    <3> DEFINE q == qa(f, n)
    <3>1. q \in Packet /\ q.seq = dev.seq /\ q.len = n BY <2>3
    <3> HIDE DEF q, qa
    <3>2. Flow(Append(d2h, q), h2d, conn.tx_ack, conn.tx_win, SeqAdd(dev.seq, q.len),
               dev.win, dev.una, InBufSize)
      BY <1>2, <2>1, <2>4, <3>1, FlowTypes, FlowSend
    <3> QED BY <3>1, <3>2 DEF q
  <2>5. ASSUME NEW n \in SeqNum
        PROVE  Flow(h2d, Append(d2h, qa("ACK", n)), dev.ack, room, conn.tx_seq, conn.rx_win,
                    conn.rx_ack, DevBufSize)
    <3> DEFINE q == qa("ACK", n)
    <3>1. q \in Packet /\ q.flags = "ACK" /\ q.ack = dev.ack /\ q.win <= room
      BY <2>3 DEF Flags
    <3> HIDE DEF q, qa
    <3> QED BY <1>2, <2>1, <3>1, FlowTypes, FlowGrant DEF q
  <2> HIDE DEF qa
  <2>6. CASE DeviceSend
    <3>1. PICK n \in DevSizes : /\ SeqSub(dev.seq, dev.una) + n <= dev.win
                                /\ d2h' = Append(d2h, Reply("ACK", dev.seq, n))
                                /\ dev' = [dev EXCEPT !.seq = SeqAdd(@, n), !.owes = FALSE]
      BY <2>6 DEF DeviceSend
    <3>2. n \in SeqNum /\ "ACK" \in Flags
      BY EnvironmentAssumption, BufferAssumption DEF SeqNum, Flags
    <3>3. /\ dev'.seq = SeqAdd(dev.seq, n) /\ dev'.state = "OPEN" /\ dev'.ack = dev.ack
          /\ dev'.win = dev.win /\ dev'.una = dev.una /\ dev'.buf = dev.buf
      BY <1>1, <1>2, <3>1 DEF DeviceEnd
    <3>4. UpInv' BY <1>1, <2>4, <3>1, <3>2, <3>3 DEF UpInv, qa
    <3>5. DownInv' BY <1>1, <2>5, <3>1, <3>2, <3>3 DEF DownInv, qa
    <3> QED BY <1>1, <1>3, <1>5, <3>4, <3>5, StreamConnected
  <2>7. CASE DeviceAck
    <3>1. /\ d2h' = Append(d2h, Reply("ACK", dev.seq, 0))
          /\ dev' = [dev EXCEPT !.owes = FALSE]
      BY <2>7 DEF DeviceAck
    <3>2. 0 \in SeqNum /\ "ACK" \in Flags /\ SeqAdd(dev.seq, 0) = dev.seq
      BY <2>2, SeqConstants, OffsetRange DEF Flags
    <3>3. /\ dev'.seq = dev.seq /\ dev'.state = "OPEN" /\ dev'.ack = dev.ack
          /\ dev'.win = dev.win /\ dev'.una = dev.una /\ dev'.buf = dev.buf
      BY <1>1, <1>2, <3>1 DEF DeviceEnd
    <3>4. UpInv'
      <4>1. Flow(Append(d2h, qa("ACK", 0)), h2d, conn.tx_ack, conn.tx_win, dev.seq,
                 dev.win, dev.una, InBufSize)
        BY <2>4, <3>2
      <4> QED BY <1>1, <3>1, <3>3, <4>1 DEF UpInv, qa
    <3>5. DownInv' BY <1>1, <2>5, <3>1, <3>2, <3>3 DEF DownInv, qa
    <3> QED BY <1>1, <1>3, <1>5, <3>4, <3>5, StreamConnected
  <2>8. CASE DeviceConsume
    <3>1. PICK n \in 1 .. dev.buf : dev' = [dev EXCEPT !.buf = @ - n, !.owes = TRUE]
      BY <2>8 DEF DeviceConsume
    <3>2. UNCHANGED d2h BY <2>8 DEF DeviceConsume
    <3>3. /\ dev'.seq = dev.seq /\ dev'.state = "OPEN" /\ dev'.ack = dev.ack
          /\ dev'.win = dev.win /\ dev'.una = dev.una /\ dev'.buf = dev.buf - n
      BY <1>1, <1>2, <3>1 DEF DeviceEnd
    <3>4. UpInv' BY <1>1, <2>1, <3>2, <3>3 DEF UpInv
    <3>5. DownInv'
      <4>1. /\ DevBufSize - dev'.buf \in Int /\ room <= DevBufSize - dev'.buf
            /\ DevBufSize - dev'.buf <= DevBufSize
        BY <1>2, <3>1, <3>3, BufferAssumption DEF DeviceEnd
      <4> DEFINE more == DevBufSize - dev'.buf
      <4> HIDE DEF more
      <4>2. Flow(h2d, d2h, dev.ack, more, conn.tx_seq, conn.rx_win, conn.rx_ack, DevBufSize)
        BY <1>2, <2>1, <4>1, FlowTypes, FlowRoom DEF more
      <4> QED BY <1>1, <3>2, <3>3, <4>2 DEF DownInv, more
    <3> QED BY <1>1, <1>3, <1>5, <3>4, <3>5, StreamConnected
  <2>9. CASE DeviceClose
    <3>1. PICK f \in {"RST", "FIN"} : d2h' = Append(d2h, Reply(f, dev.seq, 0))
      BY <2>9 DEF DeviceClose
    <3>2. 0 \in SeqNum /\ f \in Flags /\ SeqAdd(dev.seq, 0) = dev.seq
      BY <2>2, SeqConstants, OffsetRange DEF Flags
    <3>3. dev'.state = "CLOSED" /\ dev'.win = 0 /\ dev'.seq = dev.seq /\ dev'.una = dev.una
      BY <1>2, <2>9 DEF DeviceClose, DeviceEnd
    <3>4. Flow(d2h', h2d, conn.tx_ack, conn.tx_win, dev.seq, dev.win, dev.una, InBufSize)
      <4>1. Flow(Append(d2h, qa(f, 0)), h2d, conn.tx_ack, conn.tx_win, dev.seq, dev.win, dev.una, InBufSize)
        BY <2>4, <3>2
      <4> QED BY <3>1, <4>1 DEF qa
    <3>5. FlowType(d2h', h2d, conn.tx_ack, conn.tx_win, dev.seq, dev.win, dev.una, InBufSize)
      <4>1. d2h' \in Seq(Packet)
        <5>1. Reply(f, dev.seq, 0) \in Packet BY <2>3, <3>2 DEF qa
        <5> QED BY <1>2, <3>1, <5>1
      <4> QED BY <1>2, <4>1, FlowTypes DEF FlowType
    <3>6. Flow(d2h', h2d, conn.tx_ack, conn.tx_win, dev.seq, 0, dev.una, InBufSize)
      BY <2>2, <3>4, <3>5, FlowStop
    <3>7. UpInv' BY <1>1, <3>3, <3>6 DEF UpInv
    <3>8. DownInv' BY <3>3 DEF DownInv, Open
    <3> QED BY <1>1, <1>3, <1>5, <3>7, <3>8, StreamConnected
  <2> QED BY <2>6, <2>7, <2>8, <2>9
<1> QED BY <1>4, <1>5

\* connection_device_input: the payload, the acknowledgement that came with it and
\* the one that answers it.
LEMMA InputDataStream ==
  ASSUME IInv, d2h # <<>>, d2h' = Tail(d2h), UNCHANGED dev, InputData(Head(d2h)),
         ~(conn.ib_size + Head(d2h).len > InBufSize)
  PROVE  StreamInv'
<1> DEFINE p == Head(d2h)
           s == Stored(p)
           q == Tcp(s, "ACK", 0)
           up == Flow(Tail(d2h), h2d, SeqAdd(conn.tx_ack, p.len), conn.tx_win - p.len,
                      dev.seq, dev.win, dev.una, InBufSize)
<1>1. /\ conn.state = "CONNECTED" /\ LocalInv /\ StatesAgree
      /\ conn \in Connection /\ client \in Client /\ dev \in DeviceEnd
      /\ h2d \in Seq(Packet) /\ d2h \in Seq(Packet)
  BY DEF InputData, IInv, LocalInv, TypeOK
<1>2. p \in Packet /\ Tail(d2h) \in Seq(Packet) BY <1>1, Took
<1>3. /\ p.len \in Nat /\ p.len \in SeqNum /\ p.win \in Int /\ p.ack \in SeqNum
  <2>1. PICK r \in Packet : r = p BY <1>2
  <2>2. r.len \in SeqNum /\ r.win \in Int /\ r.ack \in SeqNum BY ONLY <2>1 DEF Packet
  <2>3. SeqNum \subseteq Nat BY BufferAssumption DEF SeqNum
  <2> HIDE DEF p
  <2> QED BY ONLY <2>1, <2>2, <2>3
<1>4. /\ Flow(d2h, h2d, conn.tx_ack, conn.tx_win, dev.seq, dev.win, dev.una, InBufSize)
      /\ FlowType(d2h, h2d, conn.tx_ack, conn.tx_win, dev.seq, dev.win, dev.una, InBufSize)
  BY <1>1, FlowTypes DEF IInv, UpInv
<1>5. /\ up /\ p.len <= conn.tx_win /\ SeqAdd(conn.tx_ack, p.len) \in SeqNum
  BY <1>4, FlowReceive
<1>6. /\ s \in Connection /\ s.state = "CONNECTED"
      /\ s.tx_ack = SeqAdd(conn.tx_ack, p.len) /\ s.tx_win = conn.tx_win - p.len
      /\ s.tx_seq = conn.tx_seq /\ s.rx_ack = p.ack /\ s.rx_win = p.win
  <2> DEFINE c == [Heard(p) EXCEPT !.ib_size = @ + p.len, !.tx_win = @ - p.len,
                                   !.tx_ack = SeqAdd(@, p.len)]
  <2>1. /\ conn.ib_size + p.len \in 0 .. InBufSize /\ conn.tx_win - p.len \in 0 .. InBufSize
    <3>1. conn.ib_size \in 0 .. InBufSize /\ conn.tx_win \in 0 .. InBufSize
      BY <1>1 DEF Connection
    <3>2. conn.ib_size + p.len <= InBufSize BY <1>3, <3>1, BufferAssumption
    <3> HIDE DEF p
    <3> QED BY <1>3, <1>5, <3>1, <3>2, BufferAssumption
  <2>2. Heard(p) \in Connection /\ Heard(p).rx_ack = p.ack /\ Heard(p).rx_win = p.win
        /\ Heard(p).ib_size = conn.ib_size /\ Heard(p).tx_win = conn.tx_win
        /\ Heard(p).tx_ack = conn.tx_ack /\ Heard(p).tx_seq = conn.tx_seq
        /\ Heard(p).state = "CONNECTED"
    BY <1>1, <1>3 DEF Heard, Connection
  <2>3. /\ c \in Connection /\ c.state = "CONNECTED"
        /\ c.tx_ack = SeqAdd(conn.tx_ack, p.len) /\ c.tx_win = conn.tx_win - p.len
        /\ c.tx_seq = conn.tx_seq /\ c.rx_ack = p.ack /\ c.rx_win = p.win
    BY <1>5, <2>1, <2>2 DEF Connection
  <2>4. s = UpdateConn(c) BY DEF Stored
  <2> HIDE DEF c, s
  <2>5. UpdateConn(c) \in Connection BY <2>3, UpdateConnFresh
  <2> QED BY <2>3, <2>4, <2>5, SameNumbers
<1> HIDE DEF s
<1>7. /\ conn' = (IF s.ack_pending THEN AckNow(s) ELSE s)
      /\ h2d' = (IF s.ack_pending THEN Append(h2d, q) ELSE h2d)
      /\ client' = SetEvents(client, conn'.events)
  BY DEF InputData, s
<1>8. /\ conn'.state = "CONNECTED" /\ conn'.tx_ack = s.tx_ack /\ conn'.tx_win = s.tx_win
      /\ conn'.tx_seq = s.tx_seq /\ conn'.rx_ack = s.rx_ack /\ conn'.rx_win = s.rx_win
  BY <1>6, <1>7, SameNumbers
<1>9. client'.state # "COMMAND"
  <2>1. conn' \in Connection BY <1>6, <1>7, AckNowFresh
  <2>2. conn'.events \in SUBSET Events BY <2>1 DEF Connection
  <2>3. client'.state = client.state BY <1>1, <1>7, <2>2, SetEventsType
  <2> QED BY <1>1, <2>3 DEF StatesAgree
<1>10. /\ q \in Packet /\ q.flags = "ACK" /\ q.ack = s.tx_ack /\ q.win <= s.tx_win
       /\ q.seq = s.tx_seq /\ q.len = 0
  <2>1. q \in Packet BY <1>6, TcpType, SeqConstants DEF Flags
  <2>2. s.tx_win \in Int BY <1>6 DEF Connection
  <2> QED BY <2>1, <2>2, RoundedDown DEF Tcp
<1> HIDE DEF p, q
<1>11. UpInv'
  <2> DEFINE t == Tail(d2h)
  <2>1. /\ FlowType(t, h2d, s.tx_ack, s.tx_win, dev.seq, dev.win, dev.una, InBufSize)
        /\ Flow(t, h2d, s.tx_ack, s.tx_win, dev.seq, dev.win, dev.una, InBufSize)
    BY <1>2, <1>4, <1>5, <1>6, <1>3 DEF FlowType
  <2>2. Flow(t, Append(h2d, q), s.tx_ack, s.tx_win, dev.seq, dev.win, dev.una, InBufSize)
    BY <1>10, <2>1, FlowGrant
  <2>3. dev.state \in {"SYN_RCVD", "OPEN", "CLOSED"} BY <1>1 DEF IInv, UpInv
  <2> QED BY <1>7, <1>8, <2>1, <2>2, <2>3 DEF UpInv
<1>12. DownInv'
  <2> SUFFICES ASSUME Open
      PROVE  Flow(h2d', Tail(d2h), dev.ack, DevBufSize - dev.buf, s.tx_seq, s.rx_win, s.rx_ack, DevBufSize)
    BY <1>1, <1>8 DEF DownInv, Open
  <2> DEFINE room == DevBufSize - dev.buf
             t == Tail(d2h)
  <2>1. /\ Flow(h2d, d2h, dev.ack, room, conn.tx_seq, conn.rx_win, conn.rx_ack, DevBufSize)
        /\ FlowType(h2d, d2h, dev.ack, room, conn.tx_seq, conn.rx_win, conn.rx_ack, DevBufSize)
    BY <1>1, FlowTypes DEF IInv, DownInv
  <2>2. Flow(h2d, t, dev.ack, room, conn.tx_seq, p.win, p.ack, DevBufSize)
    BY <2>1, FlowAck DEF p
  <2> HIDE DEF room, t
  <2>3. /\ Flow(h2d, t, dev.ack, room, s.tx_seq, s.rx_win, s.rx_ack, DevBufSize)
        /\ FlowType(h2d, t, dev.ack, room, s.tx_seq, s.rx_win, s.rx_ack, DevBufSize)
    BY <1>2, <1>3, <1>6, <2>1, <2>2 DEF FlowType, t
  <2>4. SeqAdd(s.tx_seq, q.len) = s.tx_seq
    <3>1. s.tx_seq \in SeqNum BY <1>6 DEF Connection
    <3> QED BY <1>10, <3>1, OffsetRange
  <2>5. Flow(Append(h2d, q), t, dev.ack, room, SeqAdd(s.tx_seq, q.len), s.rx_win, s.rx_ack, DevBufSize)
    BY <1>10, <2>3, FlowSend
  <2> QED BY <1>7, <2>3, <2>4, <2>5 DEF room, t
<1> QED BY <1>8, <1>9, <1>11, <1>12, StreamConnected

\* The SYNACK that opens the connection.
LEMMA InputSynAckStream ==
  ASSUME IInv, d2h # <<>>, d2h' = Tail(d2h), UNCHANGED dev, InputSynAck(Head(d2h))
  PROVE  StreamInv'
<1> DEFINE p == Head(d2h)
           c == [Heard(p) EXCEPT !.tx_seq = SeqAdd(@, 1), !.tx_ack = SeqAdd(@, 1)]
           d == [AfterSend(c) EXCEPT !.state = "CONNECTED"]
           q == Tcp(c, "ACK", 0)
<1>1. /\ conn.state = "CONNECTING" /\ p.flags = "SYNACK" /\ LocalInv /\ StatesAgree
      /\ conn \in Connection /\ client \in Client /\ d2h \in Seq(Packet)
  BY DEF InputSynAck, IInv, LocalInv, TypeOK
<1>2. /\ h2d = <<>> /\ Len(d2h) = 1
      /\ p = [flags |-> "SYNACK", seq |-> 0, ack |-> 1, win |-> Advertised(DevBufSize), len |-> 0]
      /\ dev = [NoDev EXCEPT !.state = "SYN_RCVD", !.seq = 1, !.ack = 1, !.win = Advertised(InBufSize)]
      /\ conn = AfterSend([NoConn EXCEPT !.state = "CONNECTING"])
  <2>1. p = d2h[1] /\ Len(d2h) \in Nat \ {0} BY <1>1, Took
  <2>2. HandshakeInv BY DEF IInv
  <2> HIDE DEF p
  <2> QED BY <1>1, <2>1, <2>2 DEF HandshakeInv
<1>3. Tail(d2h) = <<>>
  <2>1. Tail(d2h) \in Seq(Packet) /\ Len(Tail(d2h)) = 0 BY <1>1, <1>2, Took
  <2> QED BY <2>1, EmptySeq
<1>4. /\ dev.state = "SYN_RCVD" /\ dev.seq = 1 /\ dev.ack = 1 /\ dev.una = 0 /\ dev.buf = 0
      /\ dev.win = Advertised(InBufSize)
  BY <1>2 DEF NoDev
<1>5. /\ conn.tx_seq = 0 /\ conn.tx_ack = 0 /\ conn.tx_win = InBufSize
  BY <1>2 DEF AfterSend, NoConn
<1>6. p.ack = 1 /\ p.win = Advertised(DevBufSize) /\ p \in Packet BY <1>1, <1>2, Took
<1> HIDE DEF p
<1>7. SeqAdd(0, 1) = 1 /\ 1 \in SeqNum BY BufferAssumption DEF SeqAdd, SeqNum
<1>8. /\ c \in Connection /\ c.tx_seq = 1 /\ c.tx_ack = 1 /\ c.tx_win = InBufSize
      /\ c.rx_ack = 1 /\ c.rx_win = Advertised(DevBufSize)
  <2>1. /\ Heard(p) \in Connection /\ Heard(p).tx_seq = 0 /\ Heard(p).tx_ack = 0
        /\ Heard(p).tx_win = InBufSize
    BY <1>1, <1>5, <1>6, HeardType DEF LocalInv
  <2>2. Heard(p).rx_ack = 1 /\ Heard(p).rx_win = Advertised(DevBufSize)
    BY <1>1, <1>6 DEF Heard, Connection
  <2> QED BY <1>7, <2>1, <2>2 DEF Connection
<1>9. /\ d \in Connection /\ d.tx_seq = 1 /\ d.tx_ack = 1 /\ d.tx_win = InBufSize
      /\ d.rx_ack = 1 /\ d.rx_win = Advertised(DevBufSize) /\ d.state = "CONNECTED"
  BY <1>8 DEF AfterSend, Connection
<1>10. /\ q \in Packet /\ q.flags = "ACK" /\ q.seq = 1 /\ q.ack = 1 /\ q.len = 0
       /\ q.win = Advertised(InBufSize)
  <2>1. q \in Packet BY <1>8, TcpType, SeqConstants DEF Flags
  <2> QED BY <1>8, <2>1 DEF Tcp
<1>11. /\ conn' = UpdateConn(d) /\ h2d' = Append(h2d, q)
       /\ client' = SetEvents(NotifyConnect(client, "OK"), conn'.events)
  BY DEF InputSynAck, p
<1> HIDE DEF c, d, q
<1>12. /\ conn'.state = "CONNECTED" /\ conn'.tx_seq = 1 /\ conn'.tx_ack = 1
       /\ conn'.tx_win = InBufSize /\ conn'.rx_ack = 1 /\ conn'.rx_win = Advertised(DevBufSize)
  BY <1>9, <1>11, SameNumbers
<1>13. client'.state # "COMMAND"
  <2>1. conn' \in Connection BY <1>9, <1>11, UpdateConnFresh
  <2>2. conn'.events \in SUBSET Events BY <2>1 DEF Connection
  <2>3. /\ NotifyConnect(client, "OK") \in Client
        /\ NotifyConnect(client, "OK").state = "CONNECTING2"
    BY <1>1, NotifyConnectType DEF StatesAgree
  <2> QED BY <1>11, <2>2, <2>3, SetEventsType
<1>14. /\ Advertised(InBufSize) \in Nat /\ Advertised(InBufSize) <= InBufSize
       /\ Advertised(DevBufSize) \in Nat /\ Advertised(DevBufSize) <= DevBufSize
  BY AdvertisedBound, BufferAssumption
<1>15. 0 \in SeqNum /\ <<>> \in Seq(Packet) BY SeqConstants
<1>16. UpInv'
  <2> DEFINE w == Advertised(InBufSize)
  <2> HIDE DEF w
  <2>1. Flow(<<>>, <<>>, 1, InBufSize, 1, w, 0, InBufSize)
    BY <1>14, BufferAssumption, FlowStart DEF w
  <2>2. FlowType(<<>>, <<>>, 1, InBufSize, 1, w, 0, InBufSize)
    BY <1>7, <1>14, <1>15, BufferAssumption DEF FlowType, w
  <2>3. Flow(<<>>, Append(<<>>, q), 1, InBufSize, 1, w, 0, InBufSize)
    BY <1>10, <1>14, <2>1, <2>2, FlowGrant DEF w
  <2> QED BY <1>2, <1>3, <1>4, <1>11, <1>12, <2>3 DEF UpInv, w
<1>17. DownInv'
  <2> DEFINE w == Advertised(DevBufSize)
  <2> HIDE DEF w
  <2>1. Flow(<<>>, <<>>, 1, DevBufSize, 1, w, 1, DevBufSize)
    BY <1>14, BufferAssumption, FlowStart DEF w
  <2>2. FlowType(<<>>, <<>>, 1, DevBufSize, 1, w, 1, DevBufSize)
    BY <1>7, <1>14, <1>15, BufferAssumption DEF FlowType, w
  <2>3. Flow(Append(<<>>, q), <<>>, 1, DevBufSize, SeqAdd(1, q.len), w, 1, DevBufSize)
    BY <1>10, <2>1, <2>2, FlowSend
  <2>4. SeqAdd(1, q.len) = 1 /\ DevBufSize - dev.buf = DevBufSize
    <3>1. SeqAdd(1, 0) = 1 BY <1>7, OffsetRange
    <3> QED BY <1>4, <1>10, <3>1, BufferAssumption
  <2> QED BY <1>2, <1>3, <1>4, <1>11, <1>12, <2>3, <2>4 DEF DownInv, w
<1> QED BY <1>12, <1>13, <1>16, <1>17, StreamConnected

\* device_tcp_input.
LEMMA DeviceInputStream == IInv /\ DeviceInput => StreamInv'
<1> SUFFICES ASSUME IInv, DeviceInput PROVE StreamInv'
  OBVIOUS
<1> DEFINE p == Head(d2h)
<1>1. /\ d2h # <<>> /\ d2h' = Tail(d2h) /\ UNCHANGED dev /\ d2h \in Seq(Packet)
      /\ LocalInv /\ StatesAgree /\ conn \in Connection /\ client \in Client
  BY DEF IInv, LocalInv, TypeOK, DeviceInput
<1>2. CASE InputNoConnection(p)
  <2>1. conn'.state = "NONE" /\ client' = client BY <1>2 DEF InputNoConnection
  <2>2. client.state # "COMMAND" BY <1>1 DEF IInv, HandshakeInv
  <2> QED BY <2>1, <2>2, StreamClosed
<1>3. CASE InputSynAck(p)
  BY <1>1, <1>3, InputSynAckStream
<1>4. CASE InputRefused(p)
  <2> DEFINE c == [Heard(p) EXCEPT !.state = IF p.flags = "RST" THEN "REFUSED" ELSE @]
  <2>1. conn.state = "CONNECTING" /\ p.flags # "SYNACK" /\ Teardown(c, h2d)
    BY <1>4 DEF InputRefused
  <2>2. p = d2h[1] /\ Len(d2h) \in Nat \ {0} BY <1>1, Took
  <2>3. h2d = <<>> /\ dev = NoDev /\ Len(d2h) = 1
    <3>1. HandshakeInv BY DEF IInv
    <3>2. d2h[1].flags # "SYNACK" BY <2>1, <2>2
    <3> HIDE DEF p
    <3> QED BY <1>1, <2>1, <3>1, <3>2 DEF HandshakeInv
  <2>4. d2h' = <<>>
    <3>1. Tail(d2h) \in Seq(Packet) /\ Len(Tail(d2h)) = 0 BY <1>1, <2>3, Took
    <3> QED BY <1>1, <3>1, EmptySeq
  <2>5. \A i \in 1 .. Len(h2d') : h2d'[i].flags = "RST"
    <3>1. h2d' = <<>> \o TeardownRst(c) BY <2>1, <2>3 DEF Teardown
    <3>2. TeardownRst(c) = <<>> \/ TeardownRst(c) = <<Tcp(c, "RST", 0)>> BY DEF TeardownRst
    <3> HIDE DEF c
    <3>3. h2d' = <<>> \/ h2d' = <<Tcp(c, "RST", 0)>> BY <3>1, <3>2
    <3>4. Tcp(c, "RST", 0).flags = "RST" BY DEF Tcp
    <3> QED BY <3>3, <3>4
  <2>6. conn'.state = "NONE" BY <2>1 DEF Teardown, NoConn
  <2> QED BY <1>1, <2>3, <2>4, <2>5, <2>6, StreamClosed
<1>5. CASE InputData(p)
  <2>1. CASE conn.ib_size + p.len > InBufSize
    <3>1. Teardown(Heard(p), h2d) /\ conn.state = "CONNECTED" BY <1>5, <2>1 DEF InputData
    <3>2. Heard(p).state = "CONNECTED" BY <1>1, <3>1 DEF Heard, Connection
    <3> QED BY <3>1, <3>2, TeardownStream
  <2>2. CASE ~(conn.ib_size + p.len > InBufSize)
    BY <1>1, <1>5, <2>2, InputDataStream
  <2> QED BY <2>1, <2>2
<1>6. CASE InputReset(p)
  <2> DEFINE c == [Heard(p) EXCEPT !.state = IF p.flags = "RST" THEN "DYING" ELSE @]
  <2>1. Teardown(c, h2d) /\ conn.state = "CONNECTED" BY <1>6 DEF InputReset
  <2>2. c.state \notin {"CONNECTING", "REFUSED"} BY <1>1, <2>1 DEF Heard, Connection
  <2> HIDE DEF c
  <2> QED BY <2>1, <2>2, TeardownStream
<1> QED BY <1>2, <1>3, <1>4, <1>5, <1>6 DEF DeviceInput

\* device_client_process: the acknowledgement of what went to the client, then a
\* packet with what the client sent.
LEMMA ProcessConnectedStream == IInv /\ ProcessConnected => StreamInv'
<1> SUFFICES ASSUME IInv, ProcessConnected PROVE StreamInv'
  OBVIOUS
<1>1. /\ LocalInv /\ StatesAgree /\ FlagsFresh /\ client.state = "CONNECTED"
      /\ conn.state = "CONNECTED" /\ conn \in Connection /\ client \in Client
      /\ sock \in Socket /\ dev \in DeviceEnd /\ d2h \in Seq(Packet) /\ h2d \in Seq(Packet)
      /\ UNCHANGED <<d2h, dev>> /\ conn.tx_win + conn.ib_size = InBufSize
  BY DEF IInv, LocalInv, TypeOK, StatesAgree, ProcessConnected, InClientPhase
<1>2. PICK n \in WriteSizes :
       LET c == AfterWrite(n)
           m == IF ReadDue(n) THEN Lesser(sock.in, c.sendable) ELSE 0
       IN  /\ ReadDue(n) => sock.in > 0
           /\ conn' = UpdateConn(IF m > 0 THEN AfterRead(c, m) ELSE c)
           /\ h2d' = IF m > 0 THEN Append(WriteOut(n), Tcp(c, "ACK", m)) ELSE WriteOut(n)
           /\ client' = SetEvents(client, conn'.events)
           /\ sock' = [sock EXCEPT !.in = @ - m, !.out = IF sock.peer = "open" THEN @ + n ELSE @]
  BY DEF ProcessConnected
<1> DEFINE c == AfterWrite(n)
           m == IF ReadDue(n) THEN Lesser(sock.in, c.sendable) ELSE 0
           d == IF m > 0 THEN AfterRead(c, m) ELSE c
           w == Tcp(Drained(n), "ACK", 0)
           r == Tcp(c, "ACK", m)
           win == conn.tx_win + n
<1>3. /\ n \in 0 .. conn.ib_size /\ c \in Connection /\ c.state = "CONNECTED"
      /\ WriteOut(n) \in Seq(Packet)
  BY <1>1, AfterWriteType
<1>4. win \in 0 .. InBufSize /\ conn.tx_win <= win /\ n \in Nat
  BY <1>1, <1>3, BufferAssumption DEF Connection
<1>5. /\ Drained(n) \in Connection /\ Drained(n).tx_win = win
      /\ Drained(n).tx_ack = conn.tx_ack /\ Drained(n).tx_seq = conn.tx_seq
      /\ Drained(n).rx_ack = conn.rx_ack /\ Drained(n).rx_win = conn.rx_win
      /\ Drained(n).sendable = conn.sendable
  <2>1. conn.ib_size - n \in 0 .. InBufSize BY <1>1, <1>3, BufferAssumption DEF Connection
  <2> QED BY <1>1, <1>4, <2>1 DEF Drained, Connection
<1>6. /\ c.tx_win = win /\ c.tx_ack = conn.tx_ack /\ c.tx_seq = conn.tx_seq
      /\ c.rx_ack = conn.rx_ack /\ c.rx_win = conn.rx_win
      /\ c.sendable = Sendable(conn)
  <2>1. conn.sendable = Sendable(conn)
    <3>1. conn = UpdateConn(conn) BY <1>1 DEF FlagsFresh
    <3> QED BY <1>1, <3>1, SameNumbers
  <2>2. Sendable(Drained(n)) = Sendable(conn) BY <1>5 DEF Sendable
  <2> QED BY <1>5, <2>1, <2>2, SameNumbers DEF AfterWrite
<1>7. m \in SeqNum /\ m \in Nat /\ m <= c.sendable
  <2>1. sock.in \in 0 .. SockBufSize /\ c.sendable \in 0 .. MaxPayload
    BY <1>1, <1>3 DEF Socket, Connection
  <2> HIDE DEF c
  <2> QED BY <2>1, WindowAssumption, EnvironmentAssumption, BufferAssumption DEF Lesser, SeqNum
<1>8. m > 0 => SeqSub(conn.tx_seq, conn.rx_ack) + m <= conn.rx_win
  <2>1. SeqSub(conn.tx_seq, conn.rx_ack) \in Nat /\ conn.rx_win \in Int
    BY <1>1, OffsetRange DEF Connection
  <2>2. m <= Sendable(conn) BY <1>6, <1>7
  <2> HIDE DEF m
  <2> QED BY <1>7, <2>1, <2>2, WindowAssumption, BufferAssumption DEF Sendable, Lesser
<1>9. /\ w \in Packet /\ w.flags = "ACK" /\ w.ack = conn.tx_ack /\ w.win <= win
      /\ w.seq = conn.tx_seq /\ w.len = 0
  <2>1. w \in Packet BY <1>5, TcpType, SeqConstants DEF Flags
  <2>2. Advertised(win) <= win BY <1>4, RoundedDown
  <2> QED BY <1>5, <2>1, <2>2 DEF Tcp
<1>10. /\ r \in Packet /\ r.flags = "ACK" /\ r.ack = conn.tx_ack /\ r.win <= win
       /\ r.seq = conn.tx_seq /\ r.len = m
  <2> HIDE DEF c, m
  <2>1. r \in Packet BY <1>3, <1>7, TcpType DEF Flags
  <2>2. Advertised(win) <= win BY <1>4, RoundedDown
  <2> QED BY <1>6, <2>1, <2>2 DEF Tcp
<1>11. /\ h2d' = (IF m > 0 THEN Append(WriteOut(n), r) ELSE WriteOut(n))
       /\ WriteOut(n) = (IF AdvertiseDue(n) THEN Append(h2d, w) ELSE h2d)
       /\ conn' = UpdateConn(d) /\ client' = SetEvents(client, conn'.events)
  BY <1>2 DEF WriteOut
<1>12. /\ conn'.state = "CONNECTED" /\ conn'.tx_ack = conn.tx_ack /\ conn'.tx_win = win
       /\ conn'.rx_ack = conn.rx_ack /\ conn'.rx_win = conn.rx_win
       /\ conn'.tx_seq = SeqAdd(conn.tx_seq, m) /\ client'.state # "COMMAND"
  <2>1. SeqAdd(conn.tx_seq, m) \in SeqNum /\ SeqAdd(conn.tx_seq, 0) = conn.tx_seq
    BY <1>1, <1>7, SeqType, OffsetRange DEF Connection
  <2> HIDE DEF c, m
  <2>2. /\ AfterSend(c) \in Connection /\ AfterSend(c).state = "CONNECTED"
        /\ AfterSend(c).tx_win = win /\ AfterSend(c).tx_ack = conn.tx_ack
        /\ AfterSend(c).tx_seq = conn.tx_seq
        /\ AfterSend(c).rx_ack = conn.rx_ack /\ AfterSend(c).rx_win = conn.rx_win
    BY <1>3, <1>6 DEF AfterSend, Connection
  <2>3. /\ AfterRead(c, m) \in Connection /\ AfterRead(c, m).state = "CONNECTED"
        /\ AfterRead(c, m).tx_win = win /\ AfterRead(c, m).tx_ack = conn.tx_ack
        /\ AfterRead(c, m).tx_seq = SeqAdd(conn.tx_seq, m)
        /\ AfterRead(c, m).rx_ack = conn.rx_ack /\ AfterRead(c, m).rx_win = conn.rx_win
    BY <2>1, <2>2 DEF AfterRead, Connection
  <2>4. /\ d \in Connection /\ d.state = "CONNECTED" /\ d.tx_win = win
        /\ d.tx_ack = conn.tx_ack /\ d.tx_seq = SeqAdd(conn.tx_seq, m)
        /\ d.rx_ack = conn.rx_ack /\ d.rx_win = conn.rx_win
    <3>1. CASE m > 0 BY <2>3, <3>1
    <3>2. CASE ~(m > 0)
      <4>1. m = 0 BY <1>7, <3>2
      <4> QED BY <1>3, <1>6, <2>1, <3>2, <4>1
    <3> QED BY <3>1, <3>2
  <2> HIDE DEF d
  <2>5. UpdateConn(d) \in Connection BY <2>4, UpdateConnFresh
  <2>6. conn'.events \in SUBSET Events BY <1>11, <2>5 DEF Connection
  <2>7. client'.state = client.state BY <1>1, <1>11, <2>6, SetEventsType
  <2> QED BY <1>1, <1>11, <2>4, <2>7, SameNumbers
<1> HIDE DEF c, m, d, w, r, win
<1>13. UpInv'
  <2> DEFINE U(chan) == Flow(d2h, chan, conn.tx_ack, win, dev.seq, dev.win, dev.una, InBufSize)
             T(chan) == FlowType(d2h, chan, conn.tx_ack, win, dev.seq, dev.win, dev.una, InBufSize)
  <2>1. U(h2d) /\ T(h2d)
    <3>1. /\ Flow(d2h, h2d, conn.tx_ack, conn.tx_win, dev.seq, dev.win, dev.una, InBufSize)
          /\ FlowType(d2h, h2d, conn.tx_ack, conn.tx_win, dev.seq, dev.win, dev.una, InBufSize)
      BY <1>1, FlowTypes DEF IInv, UpInv
    <3>2. win \in Int /\ win <= InBufSize BY <1>4, BufferAssumption
    <3>3. U(h2d) BY <1>4, <3>1, <3>2, FlowRoom
    <3> QED BY <3>1, <3>2, <3>3 DEF FlowType
  <2>2. U(WriteOut(n)) /\ T(WriteOut(n))
    <3>1. U(Append(h2d, w)) BY <1>9, <2>1, FlowGrant
    <3>2. T(WriteOut(n)) BY <1>3, <2>1 DEF FlowType
    <3> QED BY <1>11, <2>1, <3>1, <3>2
  <2>3. U(Append(WriteOut(n), r)) BY <1>10, <2>2, FlowGrant
  <2>4. U(h2d') BY <1>11, <2>2, <2>3
  <2>5. dev.state \in {"SYN_RCVD", "OPEN", "CLOSED"} BY <1>1 DEF IInv, UpInv
  <2> QED BY <1>1, <1>12, <2>4, <2>5 DEF UpInv
<1>14. DownInv'
  <2> SUFFICES ASSUME Open
      PROVE  Flow(h2d', d2h, dev.ack, DevBufSize - dev.buf, conn'.tx_seq, conn.rx_win, conn.rx_ack, DevBufSize)
    BY <1>1, <1>12 DEF DownInv, Open
  <2> DEFINE room == DevBufSize - dev.buf
             D(chan) == Flow(chan, d2h, dev.ack, room, conn.tx_seq, conn.rx_win, conn.rx_ack, DevBufSize)
             T(chan) == FlowType(chan, d2h, dev.ack, room, conn.tx_seq, conn.rx_win, conn.rx_ack, DevBufSize)
  <2>1. D(h2d) /\ T(h2d)
    BY <1>1, FlowTypes DEF IInv, DownInv
  <2> HIDE DEF room
  <2>2. SeqAdd(conn.tx_seq, 0) = conn.tx_seq
    BY <1>1, OffsetRange DEF Connection
  <2>3. D(WriteOut(n)) /\ T(WriteOut(n))
    <3>1. Flow(Append(h2d, w), d2h, dev.ack, room, SeqAdd(conn.tx_seq, w.len), conn.rx_win,
               conn.rx_ack, DevBufSize)
      BY <1>9, <2>1, FlowSend
    <3>2. D(Append(h2d, w)) BY <1>9, <2>2, <3>1
    <3>3. T(WriteOut(n)) BY <1>3, <2>1 DEF FlowType
    <3> QED BY <1>11, <2>1, <3>2, <3>3
  <2>4. CASE m > 0
    <3>1. Flow(Append(WriteOut(n), r), d2h, dev.ack, room, SeqAdd(conn.tx_seq, r.len), conn.rx_win,
               conn.rx_ack, DevBufSize)
      BY <1>8, <1>10, <2>3, <2>4, FlowSend
    <3> QED BY <1>10, <1>11, <1>12, <2>4, <3>1 DEF room
  <2>5. CASE ~(m > 0)
    <3>1. m = 0 BY <1>7, <2>5
    <3> QED BY <1>11, <1>12, <2>2, <2>3, <2>5, <3>1 DEF room
  <2> QED BY <2>4, <2>5
<1> QED BY <1>12, <1>13, <1>14, StreamConnected

\* client_process: commands, replies, data and every end of a client.
LEMMA ClientProcessStream == IInv /\ ClientProcess => StreamInv'
<1> SUFFICES ASSUME IInv, ClientProcess PROVE StreamInv'
  OBVIOUS
<1>1. /\ LocalInv /\ StatesAgree /\ conn \in Connection /\ client \in Client
      /\ h2d \in Seq(Packet) /\ HandshakeInv
  BY DEF IInv, LocalInv, TypeOK
<1>2. UNCHANGED <<d2h, dev>>
  BY DEF ClientProcess, ClientGone, RecvConnect, RecvFails, SendReply, SendReplyFails,
         ProcessConnected, WriteFails, ReadFails, InClientPhase
<1>3. CASE ClientGone
  BY <1>2, <1>3, StreamFrame DEF ClientGone, IInv, StreamInv
<1>4. CASE RecvConnect
  <2> DEFINE q == Tcp(NoConn, "SYN", 0)
  <2>1. /\ client.state = "COMMAND" /\ h2d' = Append(h2d, q)
        /\ conn' = AfterSend([NoConn EXCEPT !.state = "CONNECTING"])
        /\ client' = [client EXCEPT !.state = "CONNECTING1"]
    BY <1>4 DEF RecvConnect
  <2>2. dev = NoDev /\ d2h = <<>> /\ \A i \in 1 .. Len(h2d) : h2d[i].flags = "RST"
    BY <1>1, <2>1 DEF HandshakeInv
  <2>3. q \in Packet BY NoConnType, TcpType, SeqConstants DEF Flags
  <2> HIDE DEF q
  <2>4. /\ h2d' # <<>> /\ Len(h2d) \in Nat /\ Len(h2d') = Len(h2d) + 1 /\ h2d'[Len(h2d')] = q
        /\ \A i \in 1 .. Len(h2d) : h2d'[i] = h2d[i]
    BY <1>1, <2>1, <2>3, Added
  <2>5. \A i \in 1 .. Len(h2d') - 1 : h2d'[i].flags = "RST"
    BY <2>2, <2>4
  <2>6. conn'.state = "CONNECTING" BY <2>1 DEF AfterSend, NoConn
  <2>7. client'.state # "COMMAND" BY <1>1, <2>1 DEF Client
  <2>8. HandshakeInv'
    BY <1>2, <2>1, <2>2, <2>4, <2>5, <2>6, <2>7 DEF HandshakeInv, q
  <2>9. UpInv' /\ DownInv' BY <2>6 DEF UpInv, DownInv, Open
  <2> QED BY <2>8, <2>9 DEF StreamInv
<1>5. CASE RecvFails \/ SendReplyFails
  <2>1. ClientClose BY <1>5 DEF RecvFails, SendReplyFails
  <2>2. conn'.state = "NONE" /\ client'.state = "FREED"
    BY <1>1, <2>1, ReleasedType DEF ClientClose, NoConn
  <2> QED BY <2>2, StreamClosed
<1>6. CASE SendReply
  <2>1. UNCHANGED <<conn, h2d>> BY <1>6 DEF SendReply
  <2>2. client'.state = "COMMAND" => client.state = "COMMAND"
    BY <1>1, <1>6 DEF SendReply, Client
  <2> QED BY <1>2, <2>1, <2>2, StreamFrame DEF IInv, StreamInv
<1>7. CASE ProcessConnected
  BY <1>7, ProcessConnectedStream
<1>8. CASE WriteFails \/ ReadFails
  <2>1. conn.state = "CONNECTED"
    BY <1>1, <1>8 DEF WriteFails, ReadFails, StatesAgree
  <2>2. PICK b, out : b.state = "CONNECTED" /\ Teardown(b, out)
    <3>1. CASE WriteFails BY <2>1, <3>1 DEF WriteFails
    <3>2. CASE ReadFails
      <4>1. PICK n \in WriteSizes : Teardown(AfterWrite(n), WriteOut(n)) BY <3>2 DEF ReadFails
      <4> QED BY <1>1, <2>1, <4>1, AfterWriteType
    <3> QED BY <1>8, <3>1, <3>2
  <2> QED BY <2>2, TeardownStream
<1> QED BY <1>3, <1>4, <1>5, <1>6, <1>7, <1>8 DEF ClientProcess

-----------------------------------------------------------------------------
(***************************************************************************)
(* The theorems.                                                           *)
(***************************************************************************)

\* The invariant holds before the first connection.
LEMMA InitStream == Init => IInv
<1> SUFFICES ASSUME Init PROVE IInv
  OBVIOUS
<1>1. LocalInv BY InitLocal
<1>2. conn.state = "NONE" /\ dev = NoDev /\ h2d = <<>> /\ d2h = <<>>
  BY DEF Init, NoConn
<1>3. HandshakeInv BY <1>2 DEF HandshakeInv
<1> QED BY <1>1, <1>2, <1>3 DEF IInv, UpInv, DownInv, Open

\* Every handler preserves it.
LEMMA NextStream == IInv /\ [Next]_vars => IInv'
<1> SUFFICES ASSUME IInv, [Next]_vars PROVE IInv'
  OBVIOUS
<1>1. LocalInv' BY NextLocal DEF IInv
<1>2. StreamInv'
  <2>1. CASE Select \/ SelectTimeout BY <2>1, LoopStream
  <2>2. CASE DeviceInput BY <2>2, DeviceInputStream
  <2>3. CASE ClientProcess BY <2>3, ClientProcessStream
  <2>4. CASE AppConnect \/ AppWrite \/ AppRead \/ AppClose BY <2>4, AppStream
  <2>5. CASE DeviceReceive BY <2>5, DeviceReceiveStream
  <2>6. CASE DeviceSend \/ DeviceAck \/ DeviceConsume \/ DeviceClose BY <2>6, DeviceActsStream
  <2>7. CASE UNCHANGED vars BY <2>7, StreamFrame DEF vars, IInv, StreamInv
  <2> QED BY <2>1, <2>2, <2>3, <2>4, <2>5, <2>6, <2>7 DEF Next
<1> QED BY <1>1, <1>2 DEF IInv, StreamInv

\* What the handshake leaves and what both directions of an open connection keep,
\* for every size of the buffers and the sequence space, and whatever is under way.
THEOREM StreamInvCorrect == Spec => []IInv
BY InitStream, NextStream, PTL DEF Spec

\* The packet the main loop takes next fits ib_buf: a device that keeps to the window
\* it was given never reaches the overflow branch of connection_device_input.
THEOREM InputFits == Spec => []NoInputOverflow
<1>1. IInv => NoInputOverflow
  <2> SUFFICES ASSUME IInv, conn.state = "CONNECTED", d2h # <<>>
               PROVE  conn.ib_size + Head(d2h).len <= InBufSize
    BY DEF NoInputOverflow
  <2>1. Flow(d2h, h2d, conn.tx_ack, conn.tx_win, dev.seq, dev.win, dev.una, InBufSize)
    BY DEF IInv, UpInv
  <2>2. LocalInv /\ conn \in Connection /\ d2h \in Seq(Packet) /\ conn.tx_win + conn.ib_size = InBufSize
    BY DEF IInv, LocalInv, TypeOK
  <2>3. Head(d2h).len <= conn.tx_win BY <2>1, <2>2, FlowTypes, FlowReceive
  <2>4. Head(d2h) \in Packet BY <2>2, Took
  <2>5. Head(d2h).len \in Nat BY <2>4, BufferAssumption DEF Packet, SeqNum
  <2>6. conn.tx_win \in Nat /\ conn.ib_size \in Nat BY <2>2 DEF Connection
  <2> QED BY <2>2, <2>3, <2>5, <2>6, BufferAssumption
<1> QED BY <1>1, StreamInvCorrect, PTL

\* What update_connection lets send_tcp send fits the buffer the device advertised,
\* also while acknowledgements and windows are late.
THEOREM DeviceFits == Spec => []DeviceNotOverrun
<1>1. IInv => DeviceNotOverrun
  <2> SUFFICES ASSUME IInv, Open, h2d # <<>>
               PROVE  dev.buf + Head(h2d).len <= DevBufSize
    BY DEF DeviceNotOverrun
  <2>1. Flow(h2d, d2h, dev.ack, DevBufSize - dev.buf, conn.tx_seq, conn.rx_win, conn.rx_ack, DevBufSize)
    BY DEF IInv, DownInv
  <2>2. LocalInv /\ dev \in DeviceEnd /\ h2d \in Seq(Packet)
    BY DEF IInv, LocalInv, TypeOK
  <2>3. Head(h2d).len <= DevBufSize - dev.buf BY <2>1, <2>2, FlowTypes, FlowReceive
  <2>4. Head(h2d) \in Packet BY <2>2, Took
  <2>5. Head(h2d).len \in Nat BY <2>4, BufferAssumption DEF Packet, SeqNum
  <2>6. dev.buf \in Nat BY <2>2 DEF DeviceEnd
  <2> QED BY <2>3, <2>5, <2>6, BufferAssumption
<1> QED BY <1>1, StreamInvCorrect, PTL

\* Each side's next packet starts where the other side stopped, although
\* device_tcp_input compares no sequence number and the numbers wrap.
THEOREM StreamsCorrect == Spec => []StreamsInOrder
<1>1. IInv => StreamsInOrder
  <2> SUFFICES ASSUME IInv PROVE StreamsInOrder
    OBVIOUS
  <2>1. LocalInv BY DEF IInv
  <2>2. conn.state = "CONNECTED" /\ d2h # <<>> => Head(d2h).seq = conn.tx_ack
    <3>1. SUFFICES ASSUME conn.state = "CONNECTED", d2h # <<>> PROVE Head(d2h).seq = conn.tx_ack
      OBVIOUS
    <3>2. Flow(d2h, h2d, conn.tx_ack, conn.tx_win, dev.seq, dev.win, dev.una, InBufSize)
      BY <3>1 DEF IInv, UpInv
    <3> QED BY <2>1, <3>1, <3>2, FlowTypes, FlowReceive
  <2>3. Open /\ h2d # <<>> => Head(h2d).seq = dev.ack
    <3>1. SUFFICES ASSUME Open, h2d # <<>> PROVE Head(h2d).seq = dev.ack
      OBVIOUS
    <3>2. Flow(h2d, d2h, dev.ack, DevBufSize - dev.buf, conn.tx_seq, conn.rx_win, conn.rx_ack, DevBufSize)
      BY <3>1 DEF IInv, DownInv
    <3> QED BY <2>1, <3>1, <3>2, FlowTypes, FlowReceive
  <2> QED BY <2>2, <2>3 DEF StreamsInOrder
<1> QED BY <1>1, StreamInvCorrect, PTL
=============================================================================
