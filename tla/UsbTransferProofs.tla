-------------------------- MODULE UsbTransferProofs --------------------------
(***************************************************************************)
(* The invariants of UsbTransfer hold for any number of connects, reads    *)
(* and elements.  The proof takes three steps: the phase the main loop is  *)
(* in and the state of the port (PortInv), which nothing else disturbs;    *)
(* on it, the places an element of tx.q and tx.pool can be in and the life *)
(* of the write thread (WriteInv); and the handshake of the read thread    *)
(* with the main loop (ReadInv), which needs room for its socket.          *)
(***************************************************************************)
EXTENDS UsbTransfer, SequenceTheorems, FiniteSetTheorems, TLAPS

-----------------------------------------------------------------------------
(***************************************************************************)
(* The main loop and the port.                                             *)
(***************************************************************************)

InLoop == {"usb", "accept", "recv", "handling"}
Closing == {"joinReader", "stopWriter", "wakeWriter", "joinWriter", "close"}
Main == [at : InLoop \cup Closing \cup {"undefined"}, listen : BOOLEAN, fd : 0..MaxConnects]
Device ==
  [connect : 0..MaxConnects, open : BOOLEAN, here : BOOLEAN, rx : 0..MaxConnects,
   reads : BOOLEAN, stop : BOOLEAN, freed : BOOLEAN]

\* The steps of usb_disconnect are taken for a port that is open and a device that is
\* gone, and only then a stop event of the read thread may be signalled.
PortInv ==
  /\ turbo \in BOOLEAN /\ main \in Main /\ dev \in Device /\ backlog \in Seq(Connects)
  /\ dev.here => dev.open
  /\ dev.open = dev.reads
  /\ main.at \in InLoop => dev.here = dev.open
  /\ main.at \in Closing => dev.open /\ ~dev.here
  /\ dev.open => dev.connect # 0
  /\ dev.here => ~dev.stop
  /\ main.at = "accept" /\ main.listen => backlog # <<>>

\* Head and Tail, by the elements.
LEMMA Taking ==
  ASSUME NEW S, NEW s \in Seq(S), s # <<>>
  PROVE  /\ Head(s) \in S /\ Tail(s) \in Seq(S)
         /\ Len(s) \in Nat \ {0} /\ Len(Tail(s)) = Len(s) - 1 /\ Head(s) = s[1]
         /\ \A i \in 1 .. Len(s) - 1 : Tail(s)[i] = s[i + 1]
         /\ \A i \in 1 .. Len(s) : s[i] \in S
<1>1. Len(s) \in Nat \ {0} BY EmptySeq
<1>2. Len(Tail(s)) = Len(s) - 1 /\ \A i \in 1 .. Len(s) - 1 : Tail(s)[i] = s[i + 1]
  BY <1>1
<1> QED BY <1>1, <1>2, HeadTailProperties

\* Append, by the elements.
LEMMA Adding ==
  ASSUME NEW S, NEW s \in Seq(S), NEW e \in S
  PROVE  /\ Append(s, e) \in Seq(S) /\ Len(s) \in Nat /\ Len(Append(s, e)) = Len(s) + 1
         /\ Append(s, e)[Len(s) + 1] = e
         /\ \A i \in 1 .. Len(s) : Append(s, e)[i] = s[i]
         /\ \A i \in 1 .. Len(s) : s[i] \in S
BY AppendProperties

\* The positions of the main loop with nothing reported.
LEMMA At0Type ==
  ASSUME NEW p \in InLoop \cup Closing \cup {"undefined"}
  PROVE  At0(p) \in Main /\ At0(p).at = p /\ ~At0(p).listen /\ At0(p).fd = 0
<1>1. 0 \in 0..MaxConnects BY TransferAssumption
<1> QED BY <1>1 DEF At0, Main

\* device_process_sockets goes on to read only the socket that was reported.
LEMMA ToSocketsType ==
  ASSUME NEW s \in 0..MaxConnects
  PROVE  /\ ToSockets(s) \in Main /\ ToSockets(s).at \in {"recv", "usb"}
         /\ ToSockets(s).at = "recv" => ToSockets(s).fd = s /\ s # 0 /\ s = main.fd
         /\ ToSockets(s).at = "usb" => ToSockets(s).fd = 0
<1>1. /\ At0("recv") \in Main /\ At0("usb") \in Main /\ At0("recv").at = "recv"
      /\ At0("usb").at = "usb" /\ At0("usb").fd = 0
  BY At0Type DEF InLoop
<1> DEFINE r == [At0("recv") EXCEPT !.fd = s]
<1>2. r \in Main /\ r.at = "recv" /\ r.fd = s BY <1>1 DEF Main
<1>3. ToSockets(s) = IF s # 0 /\ s = main.fd THEN r ELSE At0("usb") BY DEF ToSockets
<1> HIDE DEF r
<1> QED BY <1>1, <1>2, <1>3

\* What the sends, the write thread and the reads of a thread leave alone.
LEMMA PortFrame ==
  ASSUME PortInv, UNCHANGED <<turbo, dev, backlog>>,
         main' = main \/ main' = At0("undefined")
  PROVE  PortInv'
<1>1. CASE main' = main BY <1>1 DEF PortInv
<1>2. CASE main' = At0("undefined")
  <2>1. main' \in Main /\ main'.at = "undefined" BY <1>2, At0Type
  <2> QED BY <2>1 DEF PortInv, InLoop, Closing
<1> QED BY <1>1, <1>2

\* Every step keeps the phase of the main loop and the port in order.
LEMMA PortStep == PortInv /\ [Next]_vars => PortInv'
<1> SUFFICES ASSUME PortInv, [Next]_vars PROVE PortInv'
  OBVIOUS
<1>1. /\ turbo \in BOOLEAN /\ backlog \in Seq(Connects) /\ main \in Main /\ dev \in Device
      /\ dev.rx \in 0..MaxConnects /\ dev.connect \in 0..MaxConnects
  BY DEF PortInv, Main, Device
<1>2. MaxConnects \in Nat \ {0} BY TransferAssumption
<1>3. CASE StartRead \/ ReaderAnswered \/ ReadCompletes
  BY <1>3, PortFrame DEF StartRead, ReaderAnswered, ReadCompletes
<1>4. CASE ReaderWakes
  <2>1. UNCHANGED <<turbo, main, backlog>> /\ (dev' = dev \/ dev' = [dev EXCEPT !.stop = FALSE])
    BY <1>4 DEF ReaderWakes
  <2> QED BY <2>1, PortFrame DEF PortInv, Device
<1>5. CASE Select
  <2>1. /\ UNCHANGED <<turbo, dev, backlog>> /\ main.at = "usb"
        /\ main' = [main EXCEPT !.at = "accept", !.listen = backlog # <<>>,
                          !.fd = IF Readable(dev.rx) THEN dev.rx ELSE 0]
    BY <1>5 DEF Select, rvars
  <2>2. (IF Readable(dev.rx) THEN dev.rx ELSE 0) \in 0..MaxConnects BY <1>1, <1>2
  <2>3. main' \in Main /\ main'.at = "accept" /\ main'.listen = (backlog # <<>>)
    BY <1>1, <2>1, <2>2 DEF Main, InLoop
  <2> QED BY <2>1, <2>3 DEF PortInv, InLoop, Closing
<1>6. CASE DeviceAcceptSocket
  <2>1. main.at = "accept" /\ UNCHANGED turbo BY <1>6 DEF DeviceAcceptSocket
  <2>2. dev.here = dev.open BY <2>1 DEF PortInv, InLoop
  <2>3. CASE ~main.listen
    <3>1. UNCHANGED <<dev, backlog>> /\ main' = ToSockets(dev.rx)
      BY <1>6, <2>3 DEF DeviceAcceptSocket
    <3>2. main' \in Main /\ main'.at \in {"recv", "usb"} BY <1>1, <3>1, ToSocketsType
    <3> QED BY <2>1, <2>2, <3>1, <3>2 DEF PortInv, InLoop, Closing
  <2>4. CASE main.listen
    <3> DEFINE s == Head(backlog)
    <3>1. s \in Connects /\ Tail(backlog) \in Seq(Connects)
      BY <1>1, <2>1, <2>4, Taking DEF PortInv
    <3>2. s \in 0..MaxConnects BY <3>1, <1>2 DEF Connects
    <3>3. /\ backlog' = Tail(backlog)
          /\ \/ dev' = dev /\ main' = ToSockets(dev.rx)
             \/ dev' = [dev EXCEPT !.rx = s] /\ main' = ToSockets(s)
      BY <1>6, <2>4 DEF DeviceAcceptSocket
    <3> HIDE DEF s
    <3>4. main' \in Main /\ main'.at \in {"recv", "usb"}
      BY <1>1, <3>2, <3>3, ToSocketsType
    <3>5. /\ dev' \in Device /\ dev'.open = dev.open /\ dev'.here = dev.here
          /\ dev'.reads = dev.reads /\ dev'.stop = dev.stop /\ dev'.connect = dev.connect
      BY <1>1, <3>2, <3>3 DEF Device
    <3> QED BY <2>1, <2>2, <3>1, <3>3, <3>4, <3>5 DEF PortInv, InLoop, Closing
  <2> QED BY <1>1, <2>3, <2>4 DEF Main
<1>7. CASE ReadResult
  <2>1. /\ UNCHANGED <<turbo, dev, backlog>> /\ main.at = "recv"
        /\ main' = At0("usb") \/ main' = [main EXCEPT !.at = "handling"]
    BY <1>7 DEF ReadResult
  <2>2. At0("usb") \in Main /\ At0("usb").at = "usb" BY At0Type DEF InLoop
  <2>3. main' \in Main /\ main'.at \in {"usb", "handling"} BY <1>1, <2>1, <2>2 DEF Main, InLoop
  <2> QED BY <2>1, <2>3 DEF PortInv, InLoop, Closing
<1>8. CASE Handle
  <2>1. UNCHANGED <<turbo, dev, backlog>> /\ main.at = "handling" /\ main' = At0("usb")
    BY <1>8 DEF Handle
  <2>2. main' \in Main /\ main'.at = "usb" BY <2>1, At0Type DEF InLoop
  <2> QED BY <2>1, <2>2 DEF PortInv, InLoop, Closing
<1>9. CASE Connect
  <2> DEFINE g == dev.connect + 1
  <2>1. /\ main.at = "usb" /\ ~dev.open /\ dev.connect < MaxConnects /\ UNCHANGED <<turbo, main>>
        /\ dev' = [dev EXCEPT !.connect = g, !.open = TRUE, !.here = TRUE, !.reads = TRUE,
                              !.stop = FALSE]
        /\ backlog' = Append(backlog, g)
    BY <1>9 DEF Connect, ThreadStop
  <2>2. g \in Connects /\ g \in 0..MaxConnects /\ g # 0 BY <1>1, <1>2, <2>1 DEF Connects
  <2> HIDE DEF g
  <2>3. backlog' \in Seq(Connects) BY <1>1, <2>1, <2>2, Adding
  <2>4. /\ dev' \in Device /\ dev'.open /\ dev'.here /\ dev'.reads /\ ~dev'.stop /\ dev'.connect = g
    BY <1>1, <2>1, <2>2 DEF Device
  <2> QED BY <2>1, <2>2, <2>3, <2>4 DEF PortInv, InLoop, Closing
<1>10. CASE Disconnect
  <2>1. /\ main.at = "usb" /\ dev.open /\ UNCHANGED <<turbo, backlog>>
        /\ dev' = [dev EXCEPT !.here = FALSE, !.rx = 0, !.stop = dev.reads]
        /\ main' = [main EXCEPT !.at = IF dev.reads THEN "joinReader" ELSE "stopWriter"]
    BY <1>10 DEF Disconnect
  <2>2. main' \in Main /\ main'.at \in {"joinReader", "stopWriter"}
    BY <1>1, <2>1 DEF Main, Closing
  <2>3. 0 \in 0..MaxConnects BY <1>2
  <2>4. dev' \in Device /\ dev'.open = dev.open /\ ~dev'.here /\ dev'.reads = dev.reads
        /\ dev'.connect = dev.connect
    BY <1>1, <2>1, <2>3 DEF Device
  <2> QED BY <2>1, <2>2, <2>4 DEF PortInv, InLoop, Closing
<1>11. CASE JoinReader \/ StopWriter \/ WakeWriter \/ JoinWriter
  <2>1. /\ UNCHANGED <<turbo, dev, backlog>> /\ main.at \in Closing
        /\ \E p \in Closing \cup {"undefined"} : main' = [main EXCEPT !.at = p] \/ main' = At0(p)
    BY <1>11 DEF JoinReader, StopWriter, WakeWriter, JoinWriter, rvars, Closing
  <2>2. PICK p \in Closing \cup {"undefined"} : main' = [main EXCEPT !.at = p] \/ main' = At0(p)
    BY <2>1
  <2>3. main' \in Main /\ main'.at = p BY <1>1, <2>2, At0Type DEF Main
  <2> QED BY <2>1, <2>2, <2>3 DEF PortInv, InLoop, Closing
<1>12. CASE Close
  <2>1. /\ main.at = "close" /\ UNCHANGED <<turbo, backlog>> /\ main' = At0("usb")
        /\ \E manual \in BOOLEAN :
             dev' = [dev EXCEPT !.open = FALSE, !.reads = FALSE, !.freed = manual]
    BY <1>12 DEF Close
  <2>2. main' \in Main /\ main'.at = "usb" BY <2>1, At0Type DEF InLoop
  <2>3. dev.here = FALSE BY <1>1, <2>1 DEF PortInv, Closing, Device
  <2>4. dev' \in Device /\ dev'.open = FALSE /\ dev'.reads = FALSE /\ dev'.here = FALSE
    BY <1>1, <2>1, <2>3 DEF Device
  <2> QED BY <2>1, <2>2, <2>4 DEF PortInv, InLoop, Closing
<1>13. CASE Send \/ SendUndefined \/ Writer \/ \E e \in Elements : SendCompletes(e)
  BY <1>13, PortFrame DEF Send, SendUndefined, Writer, SendCompletes, rvars
<1>14. CASE UNCHANGED vars
  BY <1>14, PortFrame DEF vars, rvars
<1> QED
  BY <1>3, <1>4, <1>5, <1>6, <1>7, <1>8, <1>9, <1>10, <1>11, <1>12, <1>13, <1>14
  DEF Next, Reader, MainLoop, Usb

-----------------------------------------------------------------------------
(***************************************************************************)
(* The elements of the two queues.                                         *)
(***************************************************************************)

\* No element is twice in s; the one that wakes up the write thread may be.
Apart(s) == \A i, j \in 1 .. Len(s) : i < j /\ s[i] = s[j] => s[i] = Pill

\* The members of a queue are its elements.
LEMMA Members ==
  ASSUME NEW S, NEW s \in Seq(S)
  PROVE  /\ \A x : x \in ToSet(s) <=> \E i \in 1 .. Len(s) : s[i] = x
         /\ ToSet(s) \subseteq S
<1>1. DOMAIN s = 1 .. Len(s) OBVIOUS
<1>2. \A x : x \in ToSet(s) <=> \E i \in 1 .. Len(s) : s[i] = x BY <1>1 DEF ToSet
<1>3. \A i \in 1 .. Len(s) : s[i] \in S OBVIOUS
<1> QED BY <1>2, <1>3

\* The empty queue.
LEMMA NoMembers == Apart(<<>>) /\ ToSet(<<>>) = {}
BY DEF Apart, ToSet

\* An element that is new to a queue is added to its members.
LEMMA AddedMember ==
  ASSUME NEW S, NEW s \in Seq(S), NEW e \in S
  PROVE  /\ Append(s, e) \in Seq(S) /\ Len(Append(s, e)) = Len(s) + 1 /\ Len(s) \in Nat
         /\ ToSet(Append(s, e)) = ToSet(s) \cup {e}
         /\ Apart(s) /\ (e = Pill \/ e \notin ToSet(s)) => Apart(Append(s, e))
<1> DEFINE a == Append(s, e)
<1>1. /\ a \in Seq(S) /\ Len(s) \in Nat /\ Len(a) = Len(s) + 1 /\ a[Len(s) + 1] = e
      /\ \A i \in 1 .. Len(s) : a[i] = s[i]
  BY Adding
<1> HIDE DEF a
<1>2. \A x : x \in ToSet(s) <=> \E i \in 1 .. Len(s) : s[i] = x BY Members
<1>3. \A x : x \in ToSet(a) <=> \E i \in 1 .. Len(a) : a[i] = x BY <1>1, Members
<1>4. ToSet(a) = ToSet(s) \cup {e}
  <2>1. \A x : x \in ToSet(a) => x \in ToSet(s) \cup {e}
    <3>1. \A i \in 1 .. Len(s) + 1 : i \in 1 .. Len(s) \/ i = Len(s) + 1 BY <1>1
    <3> QED BY <1>1, <1>2, <1>3, <3>1
  <2>2. \A x : x \in ToSet(s) \cup {e} => x \in ToSet(a)
    <3>1. Len(s) + 1 \in 1 .. Len(a) /\ \A i \in 1 .. Len(s) : i \in 1 .. Len(a) BY <1>1
    <3> QED BY <1>1, <1>2, <1>3, <3>1
  <2> QED BY <2>1, <2>2
<1>5. ASSUME Apart(s), e = Pill \/ e \notin ToSet(s) PROVE Apart(a)
  <2>1. SUFFICES ASSUME NEW i \in 1 .. Len(a), NEW j \in 1 .. Len(a), i < j, a[i] = a[j]
                 PROVE  a[i] = Pill
    BY DEF Apart
  <2>2. i \in 1 .. Len(s) BY <1>1, <2>1
  <2>3. CASE j \in 1 .. Len(s) BY <1>1, <1>5, <2>1, <2>2, <2>3 DEF Apart
  <2>4. CASE j = Len(s) + 1
    <3>1. s[i] = e BY <1>1, <2>1, <2>2, <2>4
    <3> QED BY <1>1, <1>2, <1>5, <2>2, <3>1
  <2> QED BY <1>1, <2>3, <2>4
<1> QED BY <1>1, <1>4, <1>5 DEF a

\* The head of a queue whose elements are apart is not left in it.
LEMMA TakenMember ==
  ASSUME NEW S, NEW s \in Seq(S), s # <<>>, Apart(s)
  PROVE  /\ Head(s) \in S /\ Tail(s) \in Seq(S) /\ Len(s) \in Nat \ {0} /\ Len(Tail(s)) = Len(s) - 1
         /\ ToSet(s) = {Head(s)} \cup ToSet(Tail(s)) /\ Apart(Tail(s))
         /\ Head(s) # Pill => Head(s) \notin ToSet(Tail(s))
<1> DEFINE t == Tail(s)
           h == Head(s)
<1>1. /\ h \in S /\ t \in Seq(S) /\ Len(s) \in Nat \ {0} /\ Len(t) = Len(s) - 1 /\ h = s[1]
      /\ \A i \in 1 .. Len(s) - 1 : t[i] = s[i + 1]
  BY Taking
<1> HIDE DEF t, h
<1>2. \A x : x \in ToSet(s) <=> \E i \in 1 .. Len(s) : s[i] = x BY Members
<1>3. \A x : x \in ToSet(t) <=> \E i \in 1 .. Len(t) : t[i] = x BY <1>1, Members
<1>4. ToSet(s) = {h} \cup ToSet(t)
  <2>1. ASSUME NEW x \in ToSet(s) PROVE x \in {h} \cup ToSet(t)
    <3>1. PICK i \in 1 .. Len(s) : s[i] = x BY <1>2
    <3>2. CASE i = 1 BY <1>1, <3>1, <3>2
    <3>3. CASE i # 1
      <4>1. i - 1 \in 1 .. Len(t) /\ (i - 1) + 1 = i /\ i - 1 \in 1 .. Len(s) - 1 BY <1>1, <3>3
      <4>2. t[i - 1] = x BY <1>1, <3>1, <4>1
      <4> QED BY <1>3, <4>1, <4>2
    <3> QED BY <3>2, <3>3
  <2>2. ASSUME NEW x \in {h} \cup ToSet(t) PROVE x \in ToSet(s)
    <3>1. 1 \in 1 .. Len(s) /\ \A i \in 1 .. Len(t) : i + 1 \in 1 .. Len(s) /\ i \in 1 .. Len(s) - 1
      BY <1>1
    <3> QED BY <1>1, <1>2, <1>3, <3>1
  <2> QED BY <2>1, <2>2
<1>5. Apart(t)
  <2>1. SUFFICES ASSUME NEW i \in 1 .. Len(t), NEW j \in 1 .. Len(t), i < j, t[i] = t[j]
                 PROVE  t[i] = Pill
    BY DEF Apart
  <2>2. /\ i + 1 \in 1 .. Len(s) /\ j + 1 \in 1 .. Len(s) /\ i + 1 < j + 1
        /\ t[i] = s[i + 1] /\ t[j] = s[j + 1]
    BY <1>1, <2>1
  <2> QED BY <2>1, <2>2 DEF Apart
<1>6. h # Pill => h \notin ToSet(t)
  <2>1. SUFFICES ASSUME NEW i \in 1 .. Len(t), t[i] = h PROVE h = Pill
    BY <1>3
  <2>2. 1 \in 1 .. Len(s) /\ i + 1 \in 1 .. Len(s) /\ 1 < i + 1 /\ s[i + 1] = h
    BY <1>1, <2>1
  <2> QED BY <1>1, <2>2 DEF Apart
<1> QED BY <1>1, <1>4, <1>5, <1>6 DEF t, h

\* The queue of which a producer has set back the tail.
LEMMA CutMembers ==
  ASSUME NEW S, NEW s \in Seq(S), NEW n \in 0 .. Len(s), Apart(s)
  PROVE  /\ SubSeq(s, 1, n) \in Seq(S) /\ Len(SubSeq(s, 1, n)) = n
         /\ ToSet(SubSeq(s, 1, n)) \subseteq ToSet(s) /\ Apart(SubSeq(s, 1, n))
<1> DEFINE c == SubSeq(s, 1, n)
<1>1. /\ Len(s) \in Nat /\ n \in Nat /\ n <= Len(s) OBVIOUS
<1>2. /\ c \in Seq(S) /\ Len(c) = n /\ \A i \in 1 .. n : c[i] = s[i] /\ i \in 1 .. Len(s)
  BY <1>1, SubSeqProperties
<1> HIDE DEF c
<1>3. ToSet(c) \subseteq ToSet(s)
  <2>1. \A x : x \in ToSet(s) <=> \E i \in 1 .. Len(s) : s[i] = x BY Members
  <2>2. \A x : x \in ToSet(c) <=> \E i \in 1 .. Len(c) : c[i] = x BY <1>2, Members
  <2> QED BY <1>2, <2>1, <2>2
<1>4. Apart(c) BY <1>2 DEF Apart
<1> QED BY <1>2, <1>3, <1>4 DEF c

-----------------------------------------------------------------------------
(***************************************************************************)
(* Where an element can be: in tx.q, in tx.pool or with the write thread.  *)
(***************************************************************************)

Tx ==
  [q : Seq(Elements \cup {Pill}), pool : Seq(Elements), sema : Nat, thread : BOOLEAN,
   stop : BOOLEAN, under : SUBSET Elements, mark : {-1} \cup Nat]
WriterType ==
  [at : {"idle", "taken", "result", "pooling", "drain", "ended"}, e : Elements \cup {Pill}]

\* The queues of t and the write thread w have no element in common, and none in the
\* pool or on its way to it belongs to a transfer under way.  The semaphore may admit
\* to more than the pool holds, never to less.
Places(t, w) ==
  /\ t \in Tx /\ w \in WriterType
  /\ Apart(t.q) /\ Apart(t.pool)
  /\ ToSet(t.q) \cap ToSet(t.pool) = {}
  /\ w.e \in Elements => w.e \notin ToSet(t.q) /\ w.e \notin ToSet(t.pool)
  /\ w.at \in {"result", "pooling"} => w.e \in Elements
  /\ w.at \in {"idle", "drain", "ended"} => w.e = Pill
  /\ ToSet(t.pool) \cap t.under = {}
  /\ w.at = "pooling" => w.e \notin t.under /\ t.mark <= Len(t.pool)
  /\ Len(t.pool) <= t.sema

\* Each transfer under way has its element in the queue or with the write thread.
Kept(t, w) ==
  \A e \in t.under : e \in ToSet(t.q) \/ (w.at \in {"taken", "result"} /\ w.e = e)

\* The element that wakes up the write thread is none that carries data.
LEMMA PillIsNoElement == Pill \notin Elements
BY TransferAssumption DEF Pill, Elements

\* GetTXQElement gives an element that is nowhere else.
LEMMA TakeElement ==
  ASSUME Places(tx, writer), CanTake(tx)
  PROVE  /\ Taken(tx) \in Elements /\ Taken(tx) \notin ToSet(Without(tx).q)
         /\ Taken(tx) \notin ToSet(Without(tx).pool) /\ Taken(tx) # writer.e
         /\ Taken(tx) \notin Without(tx).under
         /\ Places(Without(tx), writer)
         /\ Without(tx).q = tx.q /\ Without(tx).under = tx.under
         /\ Without(tx).thread = tx.thread /\ Without(tx).stop = tx.stop
<1>1. /\ tx \in Tx /\ tx.pool \in Seq(Elements) /\ tx.sema \in Nat /\ Len(tx.pool) \in Nat
      /\ Len(tx.pool) <= tx.sema /\ tx.mark \in {-1} \cup Nat /\ Apart(tx.pool)
  BY DEF Places, Tx
<1>2. CASE tx.sema = 0
  <2>1. Without(tx) = tx /\ Taken(tx) = Fresh(tx) BY <1>2 DEF Without, Taken
  <2>2. tx.pool = <<>>
    <3>1. Len(tx.pool) = 0 BY <1>1, <1>2
    <3> QED BY <1>1, <3>1, EmptySeq
  <2>3. Fresh(tx) \in Elements /\ Fresh(tx) \notin InUse(tx)
    <3>1. \E e \in Elements : e \notin InUse(tx) BY <2>2 DEF CanTake
    <3> QED BY <3>1 DEF Fresh
  <2> QED BY <2>1, <2>3 DEF InUse
<1>3. CASE tx.sema # 0
  <2> DEFINE h == Head(tx.pool)
             l == Tail(tx.pool)
             k == IF writer.at = "pooling" /\ tx.mark >= 0 THEN tx.mark - 1 ELSE tx.mark
             b == Without(tx)
  <2>1. tx.pool # <<>> BY <1>3 DEF CanTake
  <2>2. /\ h \in Elements /\ l \in Seq(Elements) /\ Len(l) = Len(tx.pool) - 1
        /\ ToSet(tx.pool) = {h} \cup ToSet(l) /\ Apart(l) /\ (h # Pill => h \notin ToSet(l))
    BY <1>1, <2>1, TakenMember
  <2>3. h # Pill BY <2>2, PillIsNoElement
  <2>4. Taken(tx) = h BY <1>3 DEF Taken
  <2>5. k \in {-1} \cup Nat /\ (writer.at = "pooling" /\ tx.mark <= Len(tx.pool) => k <= Len(l))
    BY <1>1, <2>2
  <2>6. b = [tx EXCEPT !.pool = l, !.sema = tx.sema - 1, !.mark = k]
    BY <1>1, <1>3 DEF Without, Tx
  <2> HIDE DEF h, l, k, b
  <2>7. tx.sema - 1 \in Nat BY <1>1, <1>3
  <2>8. /\ b \in Tx /\ b.q = tx.q /\ b.pool = l /\ b.sema = tx.sema - 1 /\ b.mark = k
        /\ b.under = tx.under /\ b.thread = tx.thread /\ b.stop = tx.stop
    BY <1>1, <2>2, <2>5, <2>6, <2>7 DEF Tx
  <2>9. h \notin ToSet(tx.q) /\ h # writer.e /\ h \notin tx.under
    BY <2>2 DEF Places
  <2>10. Places(b, writer)
    BY <1>1, <2>2, <2>5, <2>8 DEF Places
  <2> QED BY <2>2, <2>3, <2>4, <2>8, <2>9, <2>10 DEF b
<1> QED BY <1>2, <1>3

\* usb_send leaves the element in the pool or with its transfer in the queue.
LEMMA SendElement ==
  ASSUME Places(tx, writer), Kept(tx, writer), CanTake(tx), NEW t \in Sent(tx)
  PROVE  /\ Places(t, writer) /\ Kept(t, writer) /\ t.thread = tx.thread /\ t.stop = tx.stop
         /\ ~tx.thread => t.q = tx.q
<1> DEFINE e == Taken(tx)
           b == Without(tx)
<1>1. /\ e \in Elements /\ e \notin ToSet(b.q) /\ e \notin ToSet(b.pool) /\ e # writer.e
      /\ e \notin b.under /\ Places(b, writer)
      /\ b.q = tx.q /\ b.under = tx.under /\ b.thread = tx.thread /\ b.stop = tx.stop
  BY TakeElement
<1>2. \/ t = Returned(b, e)
      \/ tx.thread /\ t = [b EXCEPT !.q = Append(@, e), !.under = @ \cup {e}]
  BY DEF Sent
<1> HIDE DEF e, b
<1>3. /\ b \in Tx /\ b.pool \in Seq(Elements) /\ b.q \in Seq(Elements \cup {Pill})
      /\ b.sema \in Nat /\ b.under \in SUBSET Elements
  BY <1>1 DEF Places, Tx
<1>4. CASE t = Returned(b, e)
  <2>1. /\ Append(b.pool, e) \in Seq(Elements) /\ Len(Append(b.pool, e)) = Len(b.pool) + 1
        /\ Len(b.pool) \in Nat /\ ToSet(Append(b.pool, e)) = ToSet(b.pool) \cup {e}
        /\ Apart(b.pool) => Apart(Append(b.pool, e))
    BY <1>1, <1>3, AddedMember
  <2>2. /\ t \in Tx /\ t.q = b.q /\ t.pool = Append(b.pool, e) /\ t.sema = b.sema + 1
        /\ t.under = b.under /\ t.mark = b.mark /\ t.thread = b.thread /\ t.stop = b.stop
    <3> DEFINE pool == Append(b.pool, e)
               sema == b.sema + 1
    <3>1. t = [b EXCEPT !.pool = pool, !.sema = sema] BY <1>4 DEF Returned
    <3>2. pool \in Seq(Elements) /\ sema \in Nat BY <1>3, <2>1
    <3> HIDE DEF pool, sema
    <3>3. /\ t \in Tx /\ t.q = b.q /\ t.pool = pool /\ t.sema = sema
          /\ t.under = b.under /\ t.mark = b.mark /\ t.thread = b.thread /\ t.stop = b.stop
      BY <1>3, <3>1, <3>2 DEF Tx
    <3> QED BY <3>3 DEF pool, sema
  <2>3. b.mark \in Int BY <1>3 DEF Tx
  <2>4. Places(t, writer) BY <1>1, <1>3, <2>1, <2>2, <2>3 DEF Places
  <2> QED BY <1>1, <2>2, <2>4 DEF Kept
<1>5. CASE tx.thread /\ t = [b EXCEPT !.q = Append(@, e), !.under = @ \cup {e}]
  <2>1. /\ Append(b.q, e) \in Seq(Elements \cup {Pill})
        /\ ToSet(Append(b.q, e)) = ToSet(b.q) \cup {e}
        /\ Apart(b.q) => Apart(Append(b.q, e))
    BY <1>1, <1>3, AddedMember
  <2>2. /\ t \in Tx /\ t.q = Append(b.q, e) /\ t.pool = b.pool /\ t.sema = b.sema
        /\ t.under = b.under \cup {e} /\ t.mark = b.mark /\ t.thread = b.thread /\ t.stop = b.stop
    BY <1>1, <1>3, <1>5, <2>1 DEF Tx
  <2>3. Places(t, writer) BY <1>1, <2>1, <2>2 DEF Places
  <2>4. Kept(t, writer) BY <1>1, <2>1, <2>2 DEF Kept
  <2> QED BY <1>1, <1>5, <2>2, <2>3, <2>4
<1> QED BY <1>2, <1>4, <1>5

-----------------------------------------------------------------------------
(***************************************************************************)
(* The life of the write thread.                                           *)
(***************************************************************************)

\* There is a write thread from the first connect of a port in turbo mode on; its stop
\* event is signalled between StopWriter and its end only, and once the port is closed
\* it has ended, unless the wait for it timed out.  It may have ended before the element
\* came that was to wake it up; nothing else is left in its queue.
WriterInv ==
  /\ late \in BOOLEAN
  /\ tx.thread = (turbo /\ dev.connect # 0)
  /\ tx.stop => turbo
  /\ dev.here \/ main.at \in {"joinReader", "stopWriter"} =>
       ~late /\ ~tx.stop /\ (turbo => writer.at \notin {"drain", "ended"})
  /\ late => ~dev.here
  /\ ~turbo => writer.at = "ended"
  /\ (~dev.open \/ main.at = "close") /\ ~late => writer.at = "ended"
  /\ ~dev.open => tx.under = {}
  /\ writer.at = "ended" => ToSet(tx.q) \subseteq {Pill}

WriteInv ==
  /\ Places(tx, writer)
  /\ dev.here => Kept(tx, writer)
  /\ WriterInv

\* What the read thread and the main loop leave alone.
LEMMA WriteFrame ==
  ASSUME WriteInv, UNCHANGED <<turbo, writer, tx, late>>,
         dev'.connect = dev.connect, dev'.open = dev.open, dev'.here => dev.here,
         dev'.here \/ main'.at \in {"joinReader", "stopWriter"} =>
           dev.here \/ main.at \in {"joinReader", "stopWriter"},
         main'.at = "close" => main.at = "close"
  PROVE  WriteInv'
BY DEF WriteInv, WriterInv, Places, Kept

\* The write thread moves while the main loop stands still.
LEMMA WriterMoves ==
  ASSUME PortInv, WriteInv, Writer
  PROVE  WriteInv'
<1>1. /\ UNCHANGED <<turbo, main, dev, late>> /\ Places(tx, writer) /\ WriterInv
      /\ tx \in Tx /\ writer \in WriterType
  BY DEF Writer, WriteInv, Places
<1>2. /\ tx.q \in Seq(Elements \cup {Pill}) /\ tx.pool \in Seq(Elements) /\ tx.sema \in Nat
      /\ tx.under \in SUBSET Elements /\ writer.e \in Elements \cup {Pill}
      /\ tx.mark \in {-1} \cup Nat /\ Len(tx.pool) \in Nat /\ tx.stop \in BOOLEAN
      /\ tx.thread \in BOOLEAN
  BY <1>1 DEF Tx, WriterType
<1>3. Pill \in Elements \cup {Pill} /\ Pill \notin Elements BY PillIsNoElement
<1>4. CASE WriterTakes
  <2> DEFINE h == Head(tx.q)
             l == Tail(tx.q)
  <2>1. /\ writer.at = "idle" /\ tx.q # <<>> /\ writer' = [at |-> "taken", e |-> h]
        /\ tx' = [tx EXCEPT !.q = l]
    BY <1>4 DEF WriterTakes, WriterStep
  <2>2. /\ h \in Elements \cup {Pill} /\ l \in Seq(Elements \cup {Pill})
        /\ ToSet(tx.q) = {h} \cup ToSet(l) /\ Apart(l) /\ (h # Pill => h \notin ToSet(l))
    <3>1. Apart(tx.q) BY <1>1 DEF Places
    <3> QED BY <1>2, <2>1, <3>1, TakenMember
  <2> HIDE DEF h, l
  <2>3. /\ tx' \in Tx /\ tx'.q = l /\ tx'.pool = tx.pool /\ tx'.sema = tx.sema
        /\ tx'.under = tx.under /\ tx'.thread = tx.thread /\ tx'.stop = tx.stop
    BY <1>1, <2>1, <2>2 DEF Tx
  <2>4. writer' \in WriterType /\ writer'.at = "taken" /\ writer'.e = h
    BY <2>1, <2>2 DEF WriterType
  <2>5. Places(tx', writer') BY <1>1, <1>3, <2>2, <2>3, <2>4 DEF Places
  <2>6. dev.here => Kept(tx', writer')
    BY <2>1, <2>2, <2>3, <2>4 DEF Kept, WriteInv
  <2>7. WriterInv' BY <1>1, <2>1, <2>3, <2>4 DEF WriterInv
  <2> QED BY <1>1, <2>5, <2>6, <2>7 DEF WriteInv
<1>5. CASE WriterChecks
  <2>1. CASE tx.stop
    <3>1. writer' = [at |-> "drain", e |-> Pill] /\ tx' = [tx EXCEPT !.stop = FALSE]
          /\ writer.at = "taken"
      BY <1>5, <2>1 DEF WriterChecks, WriterStep
    <3>2. /\ tx' \in Tx /\ tx'.q = tx.q /\ tx'.pool = tx.pool /\ tx'.sema = tx.sema
          /\ tx'.under = tx.under /\ tx'.thread = tx.thread /\ tx'.stop = FALSE
      BY <1>1, <3>1 DEF Tx
    <3>3. writer' \in WriterType /\ writer'.at = "drain" /\ writer'.e = Pill
      BY <1>3, <3>1 DEF WriterType
    <3>4. Places(tx', writer') BY <1>1, <1>3, <3>2, <3>3 DEF Places
    <3>5. ~dev.here BY <1>1, <2>1 DEF WriterInv
    <3>6. WriterInv' BY <1>1, <2>1, <3>1, <3>2, <3>3 DEF WriterInv
    <3> QED BY <1>1, <3>4, <3>5, <3>6 DEF WriteInv
  <2>2. CASE ~tx.stop
    <3> DEFINE p == IF writer.e = Pill THEN "idle" ELSE "result"
    <3>1. writer' = [at |-> p, e |-> writer.e] /\ tx' = tx /\ writer.at = "taken"
      BY <1>5, <2>2 DEF WriterChecks, WriterStep, AfterTake
    <3>2. writer' \in WriterType /\ writer'.at = p /\ writer'.e = writer.e
      BY <1>2, <3>1 DEF WriterType
    <3>3. Places(tx', writer') BY <1>1, <1>2, <1>3, <3>1, <3>2 DEF Places
    <3>4. dev.here => Kept(tx', writer')
      BY <1>2, <1>3, <3>1, <3>2 DEF Kept, WriteInv
    <3>5. WriterInv' BY <1>1, <3>1, <3>2 DEF WriterInv
    <3> QED BY <1>1, <3>3, <3>4, <3>5 DEF WriteInv
  <2> QED BY <2>1, <2>2
<1>6. CASE WriterResult
  <2> DEFINE n == Len(tx.pool)
  <2>1. /\ writer.at = "result" /\ writer.e \notin tx.under
        /\ writer' = [at |-> "pooling", e |-> writer.e] /\ tx' = [tx EXCEPT !.mark = n]
    BY <1>6 DEF WriterResult, Pooling, WriterStep
  <2>2. n \in Nat /\ n = Len(tx.pool) BY <1>2
  <2> HIDE DEF n
  <2>3. /\ tx' \in Tx /\ tx'.q = tx.q /\ tx'.pool = tx.pool /\ tx'.sema = tx.sema
        /\ tx'.under = tx.under /\ tx'.thread = tx.thread /\ tx'.stop = tx.stop /\ tx'.mark = n
    BY <1>1, <2>1, <2>2 DEF Tx
  <2>4. writer' \in WriterType /\ writer'.at = "pooling" /\ writer'.e = writer.e
    BY <1>2, <2>1 DEF WriterType
  <2>5. Places(tx', writer') BY <1>1, <2>1, <2>2, <2>3, <2>4 DEF Places
  <2>6. dev.here => Kept(tx', writer') BY <2>1, <2>3, <2>4 DEF Kept, WriteInv
  <2>7. WriterInv' BY <1>1, <2>1, <2>3, <2>4 DEF WriterInv
  <2> QED BY <1>1, <2>5, <2>6, <2>7 DEF WriteInv
<1>7. CASE WriterReuses
  <2>1. writer.at = "pooling" /\ writer' = [at |-> "idle", e |-> Pill]
    BY <1>7 DEF WriterReuses, WriterStep
  <2>2. PICK pool \in Enqueued(tx.pool, writer.e) :
          tx' = [tx EXCEPT !.pool = pool, !.sema = @ + 1, !.mark = 0]
    BY <1>7 DEF WriterReuses
  <2> DEFINE e == writer.e
  <2>3. /\ e \in Elements /\ e \notin ToSet(tx.q) /\ e \notin ToSet(tx.pool) /\ e \notin tx.under
        /\ tx.mark <= Len(tx.pool) /\ Apart(tx.pool)
    BY <1>1, <2>1 DEF Places
  <2>4. /\ pool \in Seq(Elements) /\ Apart(pool) /\ ToSet(pool) \subseteq ToSet(tx.pool) \cup {e}
        /\ Len(pool) <= Len(tx.pool) + 1 /\ Len(pool) \in Nat
    <3>1. CASE pool = Append(tx.pool, e) BY <1>2, <2>3, <3>1, AddedMember
    <3>2. CASE pool = SetBack(tx.pool, e) /\ tx.mark >= 0
      <4> DEFINE c == SubSeq(tx.pool, 1, tx.mark)
      <4>1. tx.mark \in 0 .. Len(tx.pool) BY <1>2, <2>3, <3>2
      <4>2. c \in Seq(Elements) /\ Len(c) = tx.mark /\ ToSet(c) \subseteq ToSet(tx.pool) /\ Apart(c)
        BY <1>2, <2>3, <4>1, CutMembers
      <4>3. pool = Append(c, e) BY <3>2 DEF SetBack
      <4> HIDE DEF c
      <4> QED BY <2>3, <4>1, <4>2, <4>3, AddedMember
    <3>3. CASE pool = SetBack(tx.pool, e) /\ ~(tx.mark >= 0)
      <4>1. pool = <<>> BY <3>3 DEF SetBack
      <4> QED BY <1>2, <4>1, NoMembers
    <3> QED BY <2>2, <3>1, <3>2, <3>3 DEF Enqueued
  <2> DEFINE sema == tx.sema + 1
  <2>5. sema \in Nat /\ Len(pool) <= sema BY <1>1, <1>2, <2>4 DEF Places
  <2>6. tx' = [tx EXCEPT !.pool = pool, !.sema = sema, !.mark = 0] BY <2>2
  <2> HIDE DEF e, sema
  <2>7. /\ tx' \in Tx /\ tx'.q = tx.q /\ tx'.pool = pool /\ tx'.sema = sema
        /\ tx'.under = tx.under /\ tx'.thread = tx.thread /\ tx'.stop = tx.stop
    BY <1>1, <2>4, <2>5, <2>6 DEF Tx
  <2>8. writer' \in WriterType /\ writer'.at = "idle" /\ writer'.e = Pill
    BY <2>1 DEF WriterType
  <2>9. Places(tx', writer') BY <1>1, <1>3, <2>3, <2>4, <2>5, <2>7, <2>8 DEF Places
  <2>10. dev.here => Kept(tx', writer') BY <2>1, <2>7, <2>8 DEF Kept, WriteInv
  <2>11. WriterInv' BY <1>1, <2>1, <2>7, <2>8 DEF WriterInv
  <2> QED BY <1>1, <2>9, <2>10, <2>11 DEF WriteInv
<1>8. CASE WriterDrains
  <2>1. ~dev.here BY <1>1, <1>8 DEF WriterDrains, WriterInv
  <2>2. CASE tx.q = <<>>
    <3>1. writer' = [at |-> "ended", e |-> Pill] /\ tx' = tx /\ writer.at = "drain"
      BY <1>8, <2>2 DEF WriterDrains, WriterStep
    <3>2. writer' \in WriterType /\ writer'.at = "ended" /\ writer'.e = Pill
      BY <3>1 DEF WriterType
    <3>3. Places(tx', writer') BY <1>1, <1>3, <3>1, <3>2 DEF Places
    <3>4. dev.here \/ main.at \in {"joinReader", "stopWriter"} => ~turbo
      BY <1>1, <3>1 DEF WriterInv
    <3>5. ToSet(tx'.q) = {} BY <2>2, <3>1, NoMembers
    <3>6. WriterInv' BY <1>1, <3>1, <3>2, <3>4, <3>5 DEF WriterInv
    <3> QED BY <1>1, <2>1, <3>3, <3>6 DEF WriteInv
  <2>3. CASE tx.q # <<>>
    <3> DEFINE l == Tail(tx.q)
    <3>1. writer' = writer /\ tx' = [tx EXCEPT !.q = l] /\ writer.at = "drain"
      BY <1>8, <2>3 DEF WriterDrains
    <3>2. l \in Seq(Elements \cup {Pill}) /\ ToSet(l) \subseteq ToSet(tx.q) /\ Apart(l)
      <4>1. Apart(tx.q) BY <1>1 DEF Places
      <4>2. l \in Seq(Elements \cup {Pill}) /\ ToSet(tx.q) = {Head(tx.q)} \cup ToSet(l) /\ Apart(l)
        BY <1>2, <2>3, <4>1, TakenMember
      <4> HIDE DEF l
      <4> QED BY <4>2
    <3> HIDE DEF l
    <3>3. /\ tx' \in Tx /\ tx'.q = l /\ tx'.pool = tx.pool /\ tx'.sema = tx.sema
          /\ tx'.under = tx.under /\ tx'.thread = tx.thread /\ tx'.stop = tx.stop
          /\ tx'.mark = tx.mark
      BY <1>1, <3>1, <3>2 DEF Tx
    <3>4. Places(tx', writer') BY <1>1, <3>1, <3>2, <3>3 DEF Places
    <3>5. WriterInv' BY <1>1, <3>1, <3>3 DEF WriterInv
    <3> QED BY <1>1, <2>1, <3>4, <3>5 DEF WriteInv
  <2> QED BY <2>2, <2>3
<1> QED BY <1>4, <1>5, <1>6, <1>7, <1>8 DEF Writer

\* The main thread sends, and a transfer to the device completes.
LEMMA Sends ==
  ASSUME PortInv, WriteInv, Send \/ \E e \in Elements : SendCompletes(e)
  PROVE  WriteInv'
<1>1. /\ UNCHANGED <<turbo, main, dev, writer, late>> /\ Places(tx, writer) /\ WriterInv
      /\ tx \in Tx
  BY DEF Send, SendCompletes, WriteInv, Places
<1>2. CASE Send
  <2>1. dev.here /\ dev.open /\ CanTake(tx) /\ tx' \in Sent(tx) BY <1>2 DEF Send, PortInv
  <2>2. /\ Places(tx', writer) /\ Kept(tx', writer) /\ tx'.thread = tx.thread
        /\ tx'.stop = tx.stop /\ (~tx.thread => tx'.q = tx.q)
    BY <1>1, <2>1, SendElement DEF WriteInv
  <2>3. turbo => writer.at # "ended" BY <1>1, <2>1 DEF WriterInv
  <2>4. ~turbo => tx'.q = tx.q BY <1>1, <2>2 DEF WriterInv
  <2>5. WriterInv' BY <1>1, <2>1, <2>2, <2>3, <2>4 DEF WriterInv
  <2> QED BY <1>1, <2>2, <2>5 DEF WriteInv
<1>3. ASSUME NEW e \in Elements, SendCompletes(e) PROVE WriteInv'
  <2>1. tx' = [tx EXCEPT !.under = @ \ {e}] BY <1>3 DEF SendCompletes
  <2>2. /\ tx' \in Tx /\ tx'.q = tx.q /\ tx'.pool = tx.pool /\ tx'.sema = tx.sema
        /\ tx'.under = tx.under \ {e} /\ tx'.thread = tx.thread /\ tx'.stop = tx.stop
        /\ tx'.mark = tx.mark
    BY <1>1, <2>1 DEF Tx
  <2>3. Places(tx', writer') BY <1>1, <2>2 DEF Places
  <2>4. dev.here => Kept(tx', writer') BY <1>1, <2>2 DEF Kept, WriteInv
  <2>5. WriterInv' BY <1>1, <2>2 DEF WriterInv
  <2> QED BY <1>1, <2>3, <2>4, <2>5 DEF WriteInv
<1> QED BY <1>2, <1>3

\* A connect finds the write thread ended and no transfer under way.
LEMMA ConnectsWriter ==
  ASSUME PortInv, WriteInv, Connect
  PROVE  WriteInv'
<1>1. /\ main.at = "usb" /\ ~dev.open /\ ~late /\ UNCHANGED <<turbo, main, late>>
      /\ CanTake(tx) /\ Places(tx, writer) /\ WriterInv /\ turbo \in BOOLEAN
      /\ writer' = (IF turbo THEN [at |-> "idle", e |-> Pill] ELSE writer)
  BY DEF Connect, WriteInv, PortInv
<1>2. PICK t \in Sent(tx) : tx' = IF turbo THEN [t EXCEPT !.thread = TRUE, !.stop = FALSE] ELSE t
  BY DEF Connect
<1>3. dev'.open = TRUE /\ dev'.connect # 0 /\ dev'.here = TRUE
  BY TransferAssumption DEF Connect, PortInv, Device
<1>4. tx.under = {} /\ writer.at = "ended" BY <1>1 DEF WriterInv
<1>5. Kept(tx, writer) BY <1>4 DEF Kept
<1>6. /\ Places(t, writer) /\ Kept(t, writer) /\ t.thread = tx.thread /\ t.stop = tx.stop
      /\ (~tx.thread => t.q = tx.q) /\ t \in Tx
  BY <1>1, <1>2, <1>5, SendElement DEF Places
<1>7. CASE turbo
  <2>1. writer' = [at |-> "idle", e |-> Pill] /\ tx' = [t EXCEPT !.thread = TRUE, !.stop = FALSE]
    BY <1>1, <1>2, <1>7
  <2>2. /\ tx' \in Tx /\ tx'.q = t.q /\ tx'.pool = t.pool /\ tx'.sema = t.sema
        /\ tx'.under = t.under /\ tx'.thread = TRUE /\ tx'.stop = FALSE /\ tx'.mark = t.mark
    BY <1>6, <2>1 DEF Tx
  <2>3. writer' \in WriterType /\ writer'.at = "idle" /\ writer'.e = Pill
    BY <2>1 DEF WriterType
  <2>4. Places(tx', writer') BY <1>6, <2>2, <2>3, PillIsNoElement DEF Places
  <2>5. Kept(tx', writer') BY <1>4, <1>6, <2>2, <2>3 DEF Kept
  <2>6. WriterInv' BY <1>1, <1>3, <1>7, <2>2, <2>3 DEF WriterInv
  <2> QED BY <2>4, <2>5, <2>6 DEF WriteInv
<1>8. CASE ~turbo
  <2>1. writer' = writer /\ tx' = t BY <1>1, <1>2, <1>8
  <2>2. tx.thread = FALSE /\ tx.stop = FALSE /\ tx \in Tx BY <1>1, <1>8 DEF WriterInv, Places, Tx
  <2>3. WriterInv' BY <1>1, <1>3, <1>4, <1>6, <1>8, <2>1, <2>2 DEF WriterInv
  <2> QED BY <1>6, <2>1, <2>3 DEF WriteInv
<1> QED BY <1>1, <1>7, <1>8

\* usb_disconnect stops the write thread, waits for it, and closes the port.
LEMMA Stops ==
  ASSUME PortInv, WriteInv, StopWriter \/ WakeWriter \/ JoinWriter \/ Close
  PROVE  WriteInv'
<1>1. /\ UNCHANGED <<turbo, writer>> /\ main.at \in Closing /\ dev.open /\ ~dev.here
      /\ dev.connect # 0 /\ dev'.connect = dev.connect /\ ~dev'.here
      /\ Places(tx, writer) /\ WriterInv /\ tx \in Tx /\ turbo \in BOOLEAN
  BY DEF StopWriter, WakeWriter, JoinWriter, Close, WriteInv, PortInv, Closing, Places, Device
<1>2. CASE StopWriter
  <2>1. main.at = "stopWriter" /\ UNCHANGED <<dev, late>> BY <1>2 DEF StopWriter
  <2>2. ~late /\ (turbo => writer.at # "ended") /\ tx.thread = turbo
    BY <1>1, <2>1 DEF WriterInv
  <2>3. tx' = [tx EXCEPT !.stop = tx.thread]
        /\ main' = [main EXCEPT !.at = IF tx.thread THEN "wakeWriter" ELSE "close"]
    BY <1>2 DEF StopWriter
  <2>4. tx.thread \in BOOLEAN BY <1>1 DEF Tx
  <2>5. /\ tx' \in Tx /\ tx'.q = tx.q /\ tx'.pool = tx.pool /\ tx'.sema = tx.sema
        /\ tx'.under = tx.under /\ tx'.thread = tx.thread /\ tx'.stop = tx.thread
        /\ tx'.mark = tx.mark
    BY <1>1, <2>3, <2>4 DEF Tx
  <2>6. main'.at = (IF tx.thread THEN "wakeWriter" ELSE "close") BY <2>3 DEF PortInv, Main
  <2>7. Places(tx', writer') BY <1>1, <2>5 DEF Places
  <2>8. ~turbo => writer.at = "ended" BY <1>1 DEF WriterInv
  <2>9. WriterInv' BY <1>1, <2>1, <2>2, <2>4, <2>5, <2>6, <2>8 DEF WriterInv
  <2> QED BY <1>1, <2>7, <2>9 DEF WriteInv
<1>5. CASE WakeWriter
  <2> DEFINE q == Append(tx.q, Pill)
  <2>1. /\ UNCHANGED <<dev, late>> /\ tx' = [tx EXCEPT !.q = q]
        /\ main' = [main EXCEPT !.at = "joinWriter"]
    BY <1>5 DEF WakeWriter
  <2>2. tx.q \in Seq(Elements \cup {Pill}) /\ Apart(tx.q) BY <1>1 DEF Places, Tx
  <2>3. q \in Seq(Elements \cup {Pill}) /\ ToSet(q) = ToSet(tx.q) \cup {Pill} /\ Apart(q)
    BY <2>2, AddedMember
  <2> HIDE DEF q
  <2>4. /\ tx' \in Tx /\ tx'.q = q /\ tx'.pool = tx.pool /\ tx'.sema = tx.sema
        /\ tx'.under = tx.under /\ tx'.thread = tx.thread /\ tx'.stop = tx.stop
        /\ tx'.mark = tx.mark
    BY <1>1, <2>1, <2>3 DEF Tx
  <2>5. main'.at = "joinWriter" BY <2>1 DEF PortInv, Main
  <2>6. Pill \notin ToSet(tx.pool)
    <3>1. tx.pool \in Seq(Elements) BY <1>1 DEF Tx
    <3> QED BY <3>1, Members, PillIsNoElement
  <2>7. Places(tx', writer') BY <1>1, <2>3, <2>4, <2>6, PillIsNoElement DEF Places
  <2>8. WriterInv' BY <1>1, <2>1, <2>3, <2>4, <2>5 DEF WriterInv
  <2> QED BY <1>1, <2>7, <2>8 DEF WriteInv
<1>3. CASE JoinWriter
  <2>1. UNCHANGED dev BY <1>3 DEF JoinWriter
  <2>2. main'.at \in {"undefined", "close"} BY <1>3 DEF JoinWriter, At0
  <2>3. CASE writer.at = "ended" /\ tx' = [tx EXCEPT !.pool = <<>>, !.sema = 0] /\ UNCHANGED late
    <3>1. <<>> \in Seq(Elements) /\ Len(<<>>) = 0 OBVIOUS
    <3>2. /\ tx' \in Tx /\ tx'.q = tx.q /\ tx'.pool = <<>> /\ tx'.sema = 0
          /\ tx'.under = tx.under /\ tx'.thread = tx.thread /\ tx'.stop = tx.stop
          /\ tx'.mark = tx.mark
      BY <1>1, <2>3, <3>1 DEF Tx
    <3>3. Places(tx', writer') BY <1>1, <2>3, <3>1, <3>2, NoMembers DEF Places
    <3>4. WriterInv' BY <1>1, <2>1, <2>2, <2>3, <3>2 DEF WriterInv
    <3> QED BY <1>1, <3>3, <3>4 DEF WriteInv
  <2>4. CASE writer.at = "result" /\ late' = TRUE /\ UNCHANGED tx
    <3>1. WriterInv' BY <1>1, <2>1, <2>2, <2>4 DEF WriterInv
    <3> QED BY <1>1, <2>4, <3>1 DEF WriteInv
  <2> QED BY <1>3, <2>3, <2>4 DEF JoinWriter
<1>4. CASE Close
  <2>1. /\ main.at = "close" /\ UNCHANGED late /\ main' = At0("usb") /\ tx' = [tx EXCEPT !.under = {}]
    BY <1>4 DEF Close
  <2>2. main'.at = "usb" BY <2>1 DEF At0
  <2>3. /\ tx' \in Tx /\ tx'.q = tx.q /\ tx'.pool = tx.pool /\ tx'.sema = tx.sema
        /\ tx'.under = {} /\ tx'.thread = tx.thread /\ tx'.stop = tx.stop /\ tx'.mark = tx.mark
    BY <1>1, <2>1 DEF Tx
  <2>4. Places(tx', writer') BY <1>1, <2>3 DEF Places
  <2>5. ~late => writer.at = "ended" BY <1>1, <2>1 DEF WriterInv
  <2>6. WriterInv' BY <1>1, <2>1, <2>2, <2>3, <2>5 DEF WriterInv
  <2> QED BY <1>1, <2>4, <2>6 DEF WriteInv
<1> QED BY <1>2, <1>3, <1>4, <1>5

\* Every step keeps the elements in their places and the write thread in order.
LEMMA WriteStep == PortInv /\ WriteInv /\ [Next]_vars => WriteInv'
<1> SUFFICES ASSUME PortInv, WriteInv, [Next]_vars PROVE WriteInv'
  OBVIOUS
<1>1. main \in Main /\ dev \in Device BY DEF PortInv
<1>2. CASE Reader \/ ReadCompletes
  <2>1. /\ UNCHANGED <<turbo, main, writer, tx, late>>
        /\ dev' = dev \/ dev' = [dev EXCEPT !.stop = FALSE]
    BY <1>2 DEF Reader, StartRead, ReaderWakes, ReaderAnswered, ReadCompletes, wvars
  <2>2. dev'.connect = dev.connect /\ dev'.open = dev.open /\ dev'.here = dev.here
    BY <1>1, <2>1 DEF Device
  <2> QED BY <2>1, <2>2, WriteFrame
<1>3. CASE MainLoop
  <2>1. UNCHANGED <<turbo, writer, tx, late>> /\ main.at \in InLoop
    BY <1>3 DEF MainLoop, Select, DeviceAcceptSocket, ReadResult, Handle, wvars, InLoop
  <2>2. dev'.connect = dev.connect /\ dev'.open = dev.open /\ dev'.here = dev.here
    BY <1>1, <1>3 DEF MainLoop, Select, DeviceAcceptSocket, ReadResult, Handle, Device
  <2>3. main'.at \in InLoop
    <3>1. CASE DeviceAcceptSocket
      <4>1. \E s : main' = ToSockets(s) BY <3>1 DEF DeviceAcceptSocket
      <4> QED BY <4>1 DEF ToSockets, At0, InLoop
    <3>2. CASE Select \/ ReadResult \/ Handle
      <4>1. CASE Select
        <5>1. main' = [main EXCEPT !.at = "accept", !.listen = backlog # <<>>,
                          !.fd = IF Readable(dev.rx) THEN dev.rx ELSE 0]
          BY <4>1 DEF Select
        <5>2. (IF Readable(dev.rx) THEN dev.rx ELSE 0) \in 0..MaxConnects
          BY <1>1, TransferAssumption DEF Device
        <5> QED BY <1>1, <5>1, <5>2 DEF Main, InLoop
      <4>2. CASE ReadResult \/ Handle
        <5>1. main' = [main EXCEPT !.at = "handling"] \/ main' = At0("usb")
          BY <4>2 DEF ReadResult, Handle
        <5> QED BY <1>1, <5>1 DEF At0, InLoop, Main
      <4> QED BY <3>2, <4>1, <4>2
    <3> QED BY <1>3, <3>1, <3>2 DEF MainLoop
  <2> QED BY <2>1, <2>2, <2>3, WriteFrame DEF InLoop
<1>4. CASE Disconnect
  <2>1. /\ UNCHANGED <<turbo, writer, tx, late>> /\ main.at = "usb" /\ dev.open /\ dev.here
        /\ dev' = [dev EXCEPT !.here = FALSE, !.rx = 0, !.stop = dev.reads]
        /\ main' = [main EXCEPT !.at = IF dev.reads THEN "joinReader" ELSE "stopWriter"]
    BY <1>4 DEF Disconnect, PortInv, InLoop, wvars
  <2>2. dev'.connect = dev.connect /\ dev'.open = dev.open /\ dev'.here = FALSE
    BY <1>1, <2>1 DEF Device
  <2>3. main'.at # "close" BY <1>1, <2>1 DEF Main
  <2> QED BY <2>1, <2>2, <2>3, WriteFrame
<1>5. CASE JoinReader
  <2>1. /\ UNCHANGED <<turbo, dev, writer, tx, late>> /\ main.at = "joinReader"
        /\ main' = [main EXCEPT !.at = "stopWriter"]
    BY <1>5 DEF JoinReader, wvars
  <2>2. main'.at = "stopWriter" BY <1>1, <2>1 DEF Main
  <2> QED BY <2>1, <2>2, WriteFrame
<1>6. CASE SendUndefined
  <2>1. UNCHANGED <<turbo, dev, writer, tx, late>> /\ main'.at = "undefined"
    BY <1>6 DEF SendUndefined, wvars, At0
  <2> QED BY <2>1, WriteFrame
<1>7. CASE UNCHANGED vars
  BY <1>7, WriteFrame DEF vars, wvars
<1> QED
  BY <1>2, <1>3, <1>4, <1>5, <1>6, <1>7, WriterMoves, Sends, ConnectsWriter, Stops
  DEF Next, Usb

\* So it is before the first connect.
LEMMA WriteInit == Init => PortInv /\ WriteInv
<1> SUFFICES ASSUME Init PROVE PortInv /\ WriteInv
  OBVIOUS
<1>1. 0 \in 0..MaxConnects /\ <<>> \in Seq(Connects) BY TransferAssumption
<1>2. main \in Main BY <1>1 DEF Init, Main, InLoop
<1>3. dev \in Device BY <1>1 DEF Init, Device
<1>4. PortInv BY <1>1, <1>2, <1>3 DEF Init, PortInv, InLoop, Closing
<1>5. tx \in Tx BY DEF Init, Tx
<1>6. writer \in WriterType BY DEF Init, WriterType
<1>7. Places(tx, writer)
  BY <1>5, <1>6, NoMembers, PillIsNoElement DEF Init, Places
<1>8. Kept(tx, writer) BY DEF Init, Kept
<1>9. WriterInv BY NoMembers DEF Init, WriterInv
<1> QED BY <1>4, <1>7, <1>8, <1>9 DEF WriteInv

\* Where the elements are and how the write thread lives, for any number of connects
\* and elements, and whether or not descriptors run out (usb-mce.cpp 434-565, 845-939).
THEOREM WriteInvCorrect == Spec => [](PortInv /\ WriteInv)
<1>1. Init => PortInv /\ WriteInv BY WriteInit
<1>2. (PortInv /\ WriteInv) /\ [Next]_vars => (PortInv /\ WriteInv)' BY PortStep, WriteStep
<1> QED BY <1>1, <1>2, PTL DEF Spec

\* The number of times an element is in a queue that has its elements apart.
LEMMA Occurs ==
  ASSUME NEW S, NEW s \in Seq(S), Apart(s), NEW e, e # Pill
  PROVE  /\ e \notin ToSet(s) => InQueue(s, e) = {} /\ Cardinality(InQueue(s, e)) = 0
         /\ e \in ToSet(s) => InQueue(s, e) # {} /\ Cardinality(InQueue(s, e)) = 1
<1>1. \A x : x \in ToSet(s) <=> \E i \in 1 .. Len(s) : s[i] = x BY Members
<1>2. InQueue(s, e) = {i \in 1 .. Len(s) : s[i] = e} /\ Len(s) \in Nat BY DEF InQueue
<1>3. CASE e \notin ToSet(s)
  <2>1. InQueue(s, e) = {} BY <1>1, <1>2, <1>3
  <2> QED BY <1>3, <2>1, FS_EmptySet
<1>4. CASE e \in ToSet(s)
  <2>1. PICK k \in 1 .. Len(s) : s[k] = e BY <1>1, <1>4
  <2>2. \A i \in 1 .. Len(s) : s[i] = e => i = k BY <1>2, <2>1 DEF Apart
  <2>3. InQueue(s, e) = {k} BY <1>2, <2>1, <2>2
  <2> QED BY <1>4, <2>3, FS_Singleton
<1> QED BY <1>3, <1>4

\* No OVERLAPPED structure serves two transfers, and none whose transfer is under way
\* loses its buffer while the device is connected (usb-mce.cpp:434-453,1052-1064).
THEOREM ElementsCorrect == Spec => []ElementsOwnedOnce
<1>1. WriteInv => ElementsOwnedOnce
  <2> SUFFICES ASSUME WriteInv, NEW e \in Elements
               PROVE  /\ Cardinality(InQueue(tx.q, e)) + Cardinality(InQueue(tx.pool, e))
                           + (IF writer.e = e THEN 1 ELSE 0) <= 1
                      /\ e \in tx.under => InQueue(tx.pool, e) = {}
                      /\ e \in tx.under /\ dev.here =>
                           InQueue(tx.q, e) # {} \/ writer \in [at : {"taken", "result"}, e : {e}]
    BY DEF ElementsOwnedOnce
  <2>1. Places(tx, writer) /\ e # Pill BY PillIsNoElement DEF WriteInv
  <2>2. /\ tx.q \in Seq(Elements \cup {Pill}) /\ tx.pool \in Seq(Elements)
        /\ Apart(tx.q) /\ Apart(tx.pool) /\ writer \in WriterType
    BY <2>1 DEF Places, Tx
  <2>3. /\ e \notin ToSet(tx.q) => InQueue(tx.q, e) = {} /\ Cardinality(InQueue(tx.q, e)) = 0
        /\ e \in ToSet(tx.q) => InQueue(tx.q, e) # {} /\ Cardinality(InQueue(tx.q, e)) = 1
    BY <2>1, <2>2, Occurs
  <2>4. /\ e \notin ToSet(tx.pool) => InQueue(tx.pool, e) = {} /\ Cardinality(InQueue(tx.pool, e)) = 0
        /\ e \in ToSet(tx.pool) => InQueue(tx.pool, e) # {} /\ Cardinality(InQueue(tx.pool, e)) = 1
    BY <2>1, <2>2, Occurs
  <2>5. ~(e \in ToSet(tx.q) /\ e \in ToSet(tx.pool)) BY <2>1 DEF Places
  <2>6. writer.e = e => e \notin ToSet(tx.q) /\ e \notin ToSet(tx.pool) BY <2>1 DEF Places
  <2>7. e \in tx.under => InQueue(tx.pool, e) = {} BY <2>1, <2>4 DEF Places
  <2>8. e \in tx.under /\ dev.here =>
          InQueue(tx.q, e) # {} \/ writer \in [at : {"taken", "result"}, e : {e}]
    BY <2>2, <2>3 DEF WriteInv, Kept, WriterType
  <2> QED BY <2>3, <2>4, <2>5, <2>6, <2>7, <2>8
<1> QED BY <1>1, WriteInvCorrect, PTL

-----------------------------------------------------------------------------
(***************************************************************************)
(* The bytes in the socket pairs.                                          *)
(***************************************************************************)

Pair ==
  [thread : {"none", "open", "closed"}, main : {"none", "backlog", "open", "closed"},
   toMain : 0..1, toThread : 0..1]
Thread == [at : {"starting", "waiting", "told", "ended"}, of : 0..MaxConnects]
Transfer ==
  [transfer : {"none", "pending", "done", "failed"}, event : BOOLEAN, size : BOOLEAN,
   read : 0..MaxReads]

Quiet(s) == sock[s].toMain = 0 /\ sock[s].toThread = 0

\* A pair has at most one byte on the way, and none while its thread reads or while
\* the main loop handles what the thread told it of.  It needs no room for sockets.
BytesInv ==
  /\ sock \in [Connects -> Pair] /\ reader \in Thread /\ rx \in Transfer
  /\ handled \in Seq(1..MaxReads)
  /\ \A s \in Connects :
       /\ sock[s].toMain = 0 \/ sock[s].toThread = 0
       /\ s > dev.connect => Quiet(s)
  /\ \A i \in 1 .. Len(backlog) : backlog[i] <= dev.connect
  /\ dev.rx <= dev.connect /\ main.fd <= dev.connect
  /\ reader.of = dev.connect
  /\ reader.at # "ended" => dev.open /\ main.at \notin {"stopWriter", "wakeWriter", "joinWriter", "close"}
  /\ reader.at \in {"starting", "waiting"} => Quiet(reader.of)
  /\ main.at \in {"recv", "handling"} => main.fd # 0
  /\ main.at = "handling" =>
       /\ rx.read > 0 /\ Quiet(main.fd)
       /\ main.fd = reader.of => reader.at \notin {"starting", "waiting"}
  /\ rx.size => rx.transfer = "done"
  /\ rx.transfer = "done" => rx.read > 0

\* The steps that send and receive none of the bytes.
LEMMA BytesFrame ==
  ASSUME PortInv, BytesInv, UNCHANGED <<reader, handled>>,
         sock' \in [Connects -> Pair],
         \A s \in Connects : sock'[s].toMain = sock[s].toMain /\ sock'[s].toThread = sock[s].toThread,
         rx' \in Transfer, rx'.read >= rx.read,
         rx'.size => rx'.transfer = "done", rx'.transfer = "done" => rx'.read > 0,
         dev'.connect = dev.connect, dev'.rx <= dev.connect,
         \A i \in 1 .. Len(backlog') : backlog'[i] <= dev.connect,
         main'.fd <= dev.connect,
         main'.at \in {"recv", "handling"} => main'.fd # 0,
         main'.at = "handling" => main' = main,
         reader.at # "ended" => dev'.open /\ main'.at \notin {"stopWriter", "wakeWriter", "joinWriter", "close"}
  PROVE  BytesInv'
<1>1. /\ MaxConnects \in Nat \ {0} /\ MaxReads \in Nat /\ rx.read \in Nat /\ rx'.read \in Nat
      /\ reader.of = dev.connect /\ main.fd \in 0..MaxConnects /\ dev.connect \in 0..MaxConnects
      /\ main.fd <= dev.connect
  BY TransferAssumption DEF BytesInv, Transfer, PortInv, Main, Device
<1>2. \A s \in Connects : sock'[s].toMain = 0 /\ sock'[s].toThread = 0 <=>
                          sock[s].toMain = 0 /\ sock[s].toThread = 0
  OBVIOUS
<1>3. \A s \in Connects : (sock'[s].toMain = 0 \/ sock'[s].toThread = 0)
                          /\ (s > dev.connect => sock'[s].toMain = 0 /\ sock'[s].toThread = 0)
  BY DEF BytesInv, Quiet
<1>4. reader.at \in {"starting", "waiting"} =>
        sock'[reader.of].toMain = 0 /\ sock'[reader.of].toThread = 0
  <2> SUFFICES ASSUME reader.at \in {"starting", "waiting"}
               PROVE  sock'[reader.of].toMain = 0 /\ sock'[reader.of].toThread = 0
    OBVIOUS
  <2>1. dev.open /\ Quiet(reader.of) BY DEF BytesInv
  <2>2. reader.of \in Connects BY <1>1, <2>1 DEF PortInv, Connects
  <2> QED BY <1>2, <2>1, <2>2 DEF Quiet
<1>5. main'.at = "handling" =>
        /\ rx'.read > 0 /\ sock'[main'.fd].toMain = 0 /\ sock'[main'.fd].toThread = 0
        /\ main'.fd = reader.of => reader.at \notin {"starting", "waiting"}
  <2> SUFFICES ASSUME main'.at = "handling"
               PROVE  /\ rx'.read > 0 /\ sock'[main.fd].toMain = 0 /\ sock'[main.fd].toThread = 0
                      /\ main.fd = reader.of => reader.at \notin {"starting", "waiting"}
                      /\ main' = main
    OBVIOUS
  <2>1. main' = main /\ main.at = "handling" OBVIOUS
  <2>2. main.fd # 0 /\ rx.read > 0 /\ Quiet(main.fd)
        /\ (main.fd = reader.of => reader.at \notin {"starting", "waiting"})
    BY <2>1 DEF BytesInv
  <2>3. main.fd \in Connects BY <1>1, <2>2 DEF Connects
  <2> QED BY <1>1, <1>2, <2>1, <2>2, <2>3 DEF Quiet
<1> QED BY <1>3, <1>4, <1>5 DEF BytesInv, Quiet

\* What a step does to one pair.
LEMMA OnePair ==
  ASSUME sock \in [Connects -> Pair], NEW g \in Connects, NEW p \in Pair,
         sock' = [sock EXCEPT ![g] = p]
  PROVE  /\ sock' \in [Connects -> Pair] /\ sock'[g] = p
         /\ \A s \in Connects : s # g => sock'[s] = sock[s]
OBVIOUS

\* An end of a pair is closed or accepted: the bytes are as before.
LEMMA EndOfPair ==
  ASSUME sock \in [Connects -> Pair], NEW g \in Connects,
         \/ \E a \in {"none", "backlog", "open", "closed"} : sock' = [sock EXCEPT ![g].main = a]
         \/ \E a \in {"none", "open", "closed"} : sock' = [sock EXCEPT ![g].thread = a]
  PROVE  /\ sock' \in [Connects -> Pair]
         /\ \A s \in Connects : sock'[s].toMain = sock[s].toMain /\ sock'[s].toThread = sock[s].toThread
         /\ \A s \in Connects : s # g => sock'[s] = sock[s]
<1>1. sock[g] \in Pair OBVIOUS
<1>2. ASSUME NEW p \in Pair, p.toMain = sock[g].toMain, p.toThread = sock[g].toThread,
             sock' = [sock EXCEPT ![g] = p]
      PROVE  /\ sock' \in [Connects -> Pair]
             /\ \A s \in Connects : sock'[s].toMain = sock[s].toMain
                                    /\ sock'[s].toThread = sock[s].toThread
             /\ \A s \in Connects : s # g => sock'[s] = sock[s]
  BY <1>2, OnePair
<1>3. CASE \E a \in {"none", "backlog", "open", "closed"} : sock' = [sock EXCEPT ![g].main = a]
  <2>1. PICK a \in {"none", "backlog", "open", "closed"} : sock' = [sock EXCEPT ![g].main = a]
    BY <1>3
  <2> DEFINE n == [sock[g] EXCEPT !.main = a]
  <2>2. n \in Pair /\ n.toMain = sock[g].toMain /\ n.toThread = sock[g].toThread
    BY <1>1, <2>1 DEF Pair
  <2>3. sock' = [sock EXCEPT ![g] = n] BY <2>1
  <2> HIDE DEF n
  <2> QED BY <1>2, <2>2, <2>3
<1>4. CASE \E a \in {"none", "open", "closed"} : sock' = [sock EXCEPT ![g].thread = a]
  <2>1. PICK a \in {"none", "open", "closed"} : sock' = [sock EXCEPT ![g].thread = a]
    BY <1>4
  <2> DEFINE n == [sock[g] EXCEPT !.thread = a]
  <2>2. n \in Pair /\ n.toMain = sock[g].toMain /\ n.toThread = sock[g].toThread
    BY <1>1, <2>1 DEF Pair
  <2>3. sock' = [sock EXCEPT ![g] = n] BY <2>1
  <2> HIDE DEF n
  <2> QED BY <1>2, <2>2, <2>3
<1> QED BY <1>3, <1>4

\* The read thread and its transfer.
LEMMA ReaderBytes ==
  ASSUME PortInv, PortInv', BytesInv, Reader \/ ReadCompletes
  PROVE  BytesInv'
<1>1. /\ MaxConnects \in Nat \ {0} /\ MaxReads \in Nat /\ rx.read \in 0..MaxReads
      /\ reader.of = dev.connect /\ main.fd \in 0..MaxConnects /\ dev.connect \in 0..MaxConnects
      /\ main.fd <= dev.connect /\ dev.rx <= dev.connect
      /\ sock \in [Connects -> Pair] /\ rx \in Transfer /\ reader \in Thread /\ dev \in Device
  BY TransferAssumption DEF BytesInv, Transfer, PortInv, Main, Device
<1>2. CASE ReadCompletes
  <2>1. /\ UNCHANGED <<main, dev, sock, backlog, reader, handled>> /\ rx.transfer = "pending"
        /\ \/ rx.read < MaxReads
              /\ rx' = [rx EXCEPT !.transfer = "done", !.event = TRUE, !.read = @ + 1]
           \/ rx' = [rx EXCEPT !.transfer = "failed", !.event = TRUE]
    BY <1>2 DEF ReadCompletes
  <2>2. ~rx.size BY <2>1 DEF BytesInv
  <2>3. /\ rx' \in Transfer /\ rx'.read >= rx.read /\ rx'.transfer \in {"done", "failed"}
        /\ rx'.size = rx.size /\ (rx'.transfer = "done" => rx'.read > 0)
    <3>1. CASE rx.read < MaxReads
               /\ rx' = [rx EXCEPT !.transfer = "done", !.event = TRUE, !.read = @ + 1]
      <4> DEFINE n == rx.read + 1
      <4>1. rx' = [rx EXCEPT !.transfer = "done", !.event = TRUE, !.read = n] BY <3>1
      <4>2. n \in 0..MaxReads /\ n > 0 /\ n >= rx.read BY <1>1, <3>1
      <4> HIDE DEF n
      <4>3. /\ rx' \in Transfer /\ rx'.transfer = "done" /\ rx'.size = rx.size /\ rx'.read = n
        BY <1>1, <4>1, <4>2 DEF Transfer
      <4> QED BY <4>2, <4>3
    <3>2. CASE rx' = [rx EXCEPT !.transfer = "failed", !.event = TRUE]
      <4>1. /\ rx' \in Transfer /\ rx'.transfer = "failed" /\ rx'.size = rx.size
            /\ rx'.read = rx.read
        BY <1>1, <3>2 DEF Transfer
      <4> QED BY <1>1, <4>1
    <3> QED BY <2>1, <3>1, <3>2
  <2> QED BY <1>1, <2>1, <2>2, <2>3, BytesFrame DEF BytesInv
<1>3. ASSUME reader.at # "ended" PROVE dev.open /\ dev.connect \in Connects
  BY <1>1, <1>3 DEF BytesInv, PortInv, Connects
<1>4. CASE StartRead
  <2>1. reader.at = "starting" /\ UNCHANGED <<main, dev, sock, backlog, handled>>
    BY <1>4 DEF StartRead
  <2>2. PICK at \in {"waiting", "ended"} : reader' = [reader EXCEPT !.at = at]
    BY <1>4 DEF StartRead
  <2>3. reader' \in Thread /\ reader'.of = reader.of /\ reader'.at = at
    BY <1>1, <2>2 DEF Thread
  <2>4. rx' \in Transfer /\ rx'.read >= rx.read /\ (rx'.size => rx'.transfer = "done")
        /\ (rx'.transfer = "done" => rx'.read > 0)
    <3>1. CASE rx.read < MaxReads /\ rx' = [rx EXCEPT !.transfer = "done", !.event = TRUE,
                                                      !.size = TRUE, !.read = @ + 1]
      <4> DEFINE n == rx.read + 1
      <4>1. rx' = [rx EXCEPT !.transfer = "done", !.event = TRUE, !.size = TRUE, !.read = n]
        BY <3>1
      <4>2. n \in 0..MaxReads /\ n > 0 /\ n >= rx.read BY <1>1, <3>1
      <4> HIDE DEF n
      <4>3. rx' \in Transfer /\ rx'.transfer = "done" /\ rx'.read = n
        BY <1>1, <4>1, <4>2 DEF Transfer
      <4> QED BY <4>2, <4>3
    <3>2. CASE rx' = NewRead \/ rx' = [NewRead EXCEPT !.transfer = "failed"]
      <4>1. /\ NewRead \in Transfer /\ NewRead.transfer = "pending" /\ NewRead.size = FALSE
            /\ NewRead.read = rx.read
        BY <1>1 DEF Transfer, NewRead
      <4>2. /\ rx' \in Transfer /\ rx'.transfer # "done" /\ rx'.size = FALSE /\ rx'.read = rx.read
        BY <3>2, <4>1 DEF Transfer
      <4> QED BY <1>1, <4>2
    <3> QED BY <1>4, <3>1, <3>2 DEF StartRead
  <2>5. main.at = "handling" => reader.of # main.fd /\ rx'.read > 0
    BY <1>1, <2>1, <2>4 DEF BytesInv, Transfer
  <2> QED BY <1>1, <1>3, <2>1, <2>2, <2>3, <2>4, <2>5 DEF BytesInv, Quiet
<1>5. CASE ReaderWakes
  <2>1. /\ reader.at = "waiting" /\ UNCHANGED <<main, backlog, handled>>
        /\ dev' = dev \/ dev' = [dev EXCEPT !.stop = FALSE]
        /\ rx' = rx \/ rx' = [rx EXCEPT !.event = FALSE]
    BY <1>5 DEF ReaderWakes
  <2>2. /\ dev'.connect = dev.connect /\ dev'.open = dev.open /\ dev'.rx = dev.rx
        /\ rx' \in Transfer /\ rx'.read = rx.read /\ rx'.size = rx.size
        /\ rx'.transfer = rx.transfer
    BY <1>1, <2>1 DEF Device, Transfer
  <2>3. CASE sock' = sock /\ reader' = [reader EXCEPT !.at = "ended"]
    <3>1. reader' \in Thread /\ reader'.of = reader.of /\ reader'.at = "ended"
      BY <1>1, <2>3 DEF Thread
    <3> QED BY <2>1, <2>2, <2>3, <3>1 DEF BytesInv, Quiet
  <2>4. CASE /\ reader' = [reader EXCEPT !.at = Told]
             /\ sock' = [sock EXCEPT ![reader.of].toMain = @ + 1]
    <3> DEFINE g == dev.connect
               p == [sock[g] EXCEPT !.toMain = 1]
    <3>1. g \in Connects /\ dev.open BY <1>3, <2>1
    <3>2. sock[g] \in Pair /\ sock[g].toMain = 0 /\ sock[g].toThread = 0
      BY <1>1, <2>1, <3>1 DEF BytesInv, Quiet
    <3>3. p \in Pair /\ p.toMain = 1 /\ p.toThread = 0 BY <3>2 DEF Pair
    <3>4. sock' = [sock EXCEPT ![g] = p] BY <1>1, <2>4, <3>2
    <3> HIDE DEF p
    <3>5. /\ sock' \in [Connects -> Pair] /\ sock'[g] = p
          /\ \A s \in Connects : s # g => sock'[s] = sock[s]
      BY <1>1, <3>1, <3>3, <3>4, OnePair
    <3>6. reader' \in Thread /\ reader'.of = g /\ reader'.at = "told"
      BY <1>1, <2>4 DEF Thread, Told
    <3>7. \A s \in Connects : /\ sock'[s].toMain = 0 \/ sock'[s].toThread = 0
                              /\ s > g => sock'[s].toMain = 0 /\ sock'[s].toThread = 0
      <4> TAKE s \in Connects
      <4>1. CASE s = g BY <1>1, <3>3, <3>5, <4>1
      <4>2. CASE s # g BY <3>5, <4>2 DEF BytesInv, Quiet
      <4> QED BY <4>1, <4>2
    <3>8. main.at = "handling" =>
            main.fd # g /\ sock'[main.fd].toMain = 0 /\ sock'[main.fd].toThread = 0
      <4> SUFFICES ASSUME main.at = "handling"
                   PROVE  main.fd # g /\ sock'[main.fd].toMain = 0 /\ sock'[main.fd].toThread = 0
        OBVIOUS
      <4>1. main.fd # g /\ main.fd # 0 /\ Quiet(main.fd) BY <1>1, <2>1 DEF BytesInv
      <4>2. main.fd \in Connects BY <1>1, <4>1 DEF Connects
      <4> QED BY <3>5, <4>1, <4>2 DEF Quiet
    <3> QED BY <1>1, <2>1, <2>2, <3>1, <3>5, <3>6, <3>7, <3>8 DEF BytesInv, Quiet
  <2> QED BY <1>5, <2>3, <2>4 DEF ReaderWakes
<1>6. CASE ReaderAnswered
  <2>1. reader.at = "told" /\ UNCHANGED <<main, dev, backlog, rx, handled>>
    BY <1>6 DEF ReaderAnswered
  <2>2. CASE sock' = sock /\ reader' = [reader EXCEPT !.at = "ended"]
    <3>1. reader' \in Thread /\ reader'.of = reader.of /\ reader'.at = "ended"
      BY <1>1, <2>2 DEF Thread
    <3> QED BY <2>1, <2>2, <3>1 DEF BytesInv, Quiet
  <2>3. CASE /\ sock[reader.of].toThread > 0
             /\ sock' = [sock EXCEPT ![reader.of].toThread = @ - 1]
             /\ reader' = [reader EXCEPT !.at = "starting"]
    <3> DEFINE g == dev.connect
               p == [sock[g] EXCEPT !.toThread = 0]
    <3>1. g \in Connects /\ dev.open BY <1>3, <2>1
    <3>2. sock[g] \in Pair /\ sock[g].toMain = 0 /\ sock[g].toThread = 1
      <4>1. sock[g] \in Pair /\ sock[g].toThread > 0 BY <1>1, <2>3, <3>1
      <4>2. sock[g].toThread \in 0..1 BY <4>1 DEF Pair
      <4>3. sock[g].toMain = 0 \/ sock[g].toThread = 0 BY <3>1 DEF BytesInv
      <4> QED BY <4>1, <4>2, <4>3
    <3>3. p \in Pair /\ p.toMain = 0 /\ p.toThread = 0 BY <3>2 DEF Pair
    <3>4. sock' = [sock EXCEPT ![g] = p] BY <1>1, <2>3, <3>2
    <3> HIDE DEF p
    <3>5. /\ sock' \in [Connects -> Pair] /\ sock'[g] = p
          /\ \A s \in Connects : s # g => sock'[s] = sock[s]
      BY <1>1, <3>1, <3>3, <3>4, OnePair
    <3>6. reader' \in Thread /\ reader'.of = g /\ reader'.at = "starting"
      BY <1>1, <2>3 DEF Thread
    <3>7. \A s \in Connects : /\ sock'[s].toMain = 0 \/ sock'[s].toThread = 0
                              /\ s > g => sock'[s].toMain = 0 /\ sock'[s].toThread = 0
      <4> TAKE s \in Connects
      <4>1. CASE s = g BY <1>1, <3>3, <3>5, <4>1
      <4>2. CASE s # g BY <3>5, <4>2 DEF BytesInv, Quiet
      <4> QED BY <4>1, <4>2
    <3>8. main.at = "handling" =>
            main.fd # g /\ sock'[main.fd].toMain = 0 /\ sock'[main.fd].toThread = 0
      <4> SUFFICES ASSUME main.at = "handling"
                   PROVE  main.fd # g /\ sock'[main.fd].toMain = 0 /\ sock'[main.fd].toThread = 0
        OBVIOUS
      <4>1. main.fd # 0 /\ Quiet(main.fd) BY DEF BytesInv
      <4>2. main.fd # g BY <3>2, <4>1 DEF Quiet
      <4>3. main.fd \in Connects BY <1>1, <4>1 DEF Connects
      <4> QED BY <3>5, <4>1, <4>2, <4>3 DEF Quiet
    <3> QED BY <1>1, <2>1, <3>1, <3>3, <3>5, <3>6, <3>7, <3>8 DEF BytesInv, Quiet
  <2> QED BY <1>6, <2>2, <2>3 DEF ReaderAnswered
<1> QED BY <1>2, <1>4, <1>5, <1>6 DEF Reader

\* The main loop accepts, reads and answers.
LEMMA MainBytes ==
  ASSUME PortInv, PortInv', BytesInv, MainLoop
  PROVE  BytesInv'
<1>1. /\ MaxConnects \in Nat \ {0} /\ MaxReads \in Nat /\ rx.read \in 0..MaxReads
      /\ reader.of = dev.connect /\ main.fd \in 0..MaxConnects /\ dev.connect \in 0..MaxConnects
      /\ main.fd <= dev.connect /\ dev.rx \in 0..MaxConnects /\ dev.rx <= dev.connect
      /\ sock \in [Connects -> Pair] /\ rx \in Transfer /\ reader \in Thread /\ dev \in Device
      /\ main \in Main /\ backlog \in Seq(Connects)
  BY TransferAssumption DEF BytesInv, Transfer, PortInv, Main, Device
<1>2. main.at \in InLoop /\ UNCHANGED reader
  BY DEF MainLoop, Select, DeviceAcceptSocket, ReadResult, Handle, rvars, InLoop
<1>3. reader.at # "ended" => dev.open BY DEF BytesInv
<1>4. CASE Select
  <2> DEFINE f == IF Readable(dev.rx) THEN dev.rx ELSE 0
  <2>1. /\ UNCHANGED <<dev, sock, backlog, rx, handled>>
        /\ main' = [main EXCEPT !.at = "accept", !.listen = backlog # <<>>, !.fd = f]
    BY <1>4 DEF Select, rvars
  <2>2. f \in 0..MaxConnects /\ f <= dev.connect BY <1>1
  <2> HIDE DEF f
  <2>3. main'.at = "accept" /\ main'.fd = f BY <1>1, <2>1, <2>2 DEF Main
  <2> QED BY <1>1, <1>2, <1>3, <2>1, <2>2, <2>3, BytesFrame DEF BytesInv
<1>5. CASE DeviceAcceptSocket
  <2>1. main.at = "accept" /\ UNCHANGED <<rx, handled>> BY <1>5 DEF DeviceAcceptSocket
  <2>2. CASE ~main.listen
    <3>1. main' = ToSockets(dev.rx) /\ UNCHANGED <<dev, sock, backlog>>
      BY <1>5, <2>2 DEF DeviceAcceptSocket
    <3>2. /\ main'.at \in {"recv", "usb"} /\ main'.fd <= dev.connect
          /\ main'.at = "recv" => main'.fd # 0
      BY <1>1, <3>1, ToSocketsType
    <3> QED BY <1>1, <1>2, <1>3, <2>1, <3>1, <3>2, BytesFrame DEF BytesInv
  <2>3. CASE main.listen
    <3> DEFINE s == Head(backlog)
               l == Tail(backlog)
    <3>1. /\ s \in Connects /\ l \in Seq(Connects) /\ Len(backlog) \in Nat \ {0} /\ s = backlog[1]
          /\ Len(l) = Len(backlog) - 1 /\ \A i \in 1 .. Len(backlog) - 1 : l[i] = backlog[i + 1]
      BY <1>1, <2>1, <2>3, Taking DEF PortInv
    <3>2. /\ backlog' = l
          /\ \/ dev' = dev /\ main' = ToSockets(dev.rx) /\ sock' = [sock EXCEPT ![s].main = "closed"]
             \/ /\ dev' = [dev EXCEPT !.rx = s] /\ main' = ToSockets(s)
                /\ sock' = [sock EXCEPT ![s].main = "open"]
      BY <1>5, <2>3 DEF DeviceAcceptSocket
    <3> HIDE DEF s, l
    <3>3. /\ s \in 0..MaxConnects /\ s <= dev.connect
          /\ \A i \in 1 .. Len(l) : l[i] <= dev.connect
      <4>1. \A i \in 1 .. Len(backlog) : backlog[i] <= dev.connect BY DEF BytesInv
      <4>2. 1 \in 1 .. Len(backlog)
            /\ \A i \in 1 .. Len(l) : i \in 1 .. Len(backlog) - 1 /\ i + 1 \in 1 .. Len(backlog)
        BY <3>1
      <4>3. s <= dev.connect BY <3>1, <4>1, <4>2
      <4>4. \A i \in 1 .. Len(l) : l[i] <= dev.connect BY <3>1, <4>1, <4>2
      <4>5. s \in 0..MaxConnects BY <1>1, <3>1 DEF Connects
      <4> QED BY <4>3, <4>4, <4>5
    <3>4. /\ main'.at \in {"recv", "usb"} /\ main'.fd <= dev.connect
          /\ main'.at = "recv" => main'.fd # 0
      BY <1>1, <3>2, <3>3, ToSocketsType
    <3>5. /\ sock' \in [Connects -> Pair]
          /\ \A g \in Connects : sock'[g].toMain = sock[g].toMain
                                 /\ sock'[g].toThread = sock[g].toThread
      <4>1. \E a \in {"none", "backlog", "open", "closed"} : sock' = [sock EXCEPT ![s].main = a]
        BY <3>2
      <4> QED BY <1>1, <3>1, <4>1, EndOfPair
    <3>6. dev'.connect = dev.connect /\ dev'.open = dev.open /\ dev'.rx <= dev.connect
      BY <1>1, <3>2, <3>3 DEF Device
    <3> QED BY <1>1, <1>2, <1>3, <2>1, <3>2, <3>3, <3>4, <3>5, <3>6, BytesFrame DEF BytesInv
  <2> QED BY <1>1, <2>2, <2>3 DEF Main
<1>6. CASE ReadResult
  <2>1. main.at = "recv" /\ UNCHANGED <<dev, backlog, handled>> /\ main.fd \in Connects
    BY <1>1, <1>6 DEF ReadResult, BytesInv, Connects
  <2>2. At0("usb").at = "usb" /\ At0("usb").fd = 0 BY DEF At0
  <2>3. CASE sock[main.fd].toMain = 0
    <3>1. main' = At0("usb") /\ UNCHANGED <<sock, rx>> BY <1>6, <2>3 DEF ReadResult
    <3> QED BY <1>1, <1>2, <1>3, <2>1, <2>2, <3>1, BytesFrame DEF BytesInv
  <2>4. CASE sock[main.fd].toMain # 0
    <3> DEFINE g == main.fd
               p == [sock[g] EXCEPT !.toMain = 0]
    <3>1. sock[g] \in Pair /\ sock[g].toMain = 1 /\ sock[g].toThread = 0
      <4>1. sock[g] \in Pair BY <1>1, <2>1
      <4>2. sock[g].toMain \in 0..1 BY <4>1 DEF Pair
      <4>3. sock[g].toMain = 0 \/ sock[g].toThread = 0 BY <2>1 DEF BytesInv
      <4> QED BY <2>4, <4>1, <4>2, <4>3
    <3>2. p \in Pair /\ p.toMain = 0 /\ p.toThread = 0 BY <3>1 DEF Pair
    <3>3. sock' = [sock EXCEPT ![g].toMain = @ - 1] BY <1>6, <2>4 DEF ReadResult
    <3>4. sock' = [sock EXCEPT ![g] = p] BY <1>1, <3>1, <3>3
    <3> HIDE DEF p
    <3>5. /\ sock' \in [Connects -> Pair] /\ sock'[g] = p
          /\ \A s \in Connects : s # g => sock'[s] = sock[s]
      BY <1>1, <2>1, <3>2, <3>4, OnePair
    <3>6. \A s \in Connects : /\ sock'[s].toMain = 0 \/ sock'[s].toThread = 0
                              /\ s > dev.connect => sock'[s].toMain = 0 /\ sock'[s].toThread = 0
      <4> TAKE s \in Connects
      <4>1. CASE s = g BY <3>2, <3>5, <4>1
      <4>2. CASE s # g BY <3>5, <4>2 DEF BytesInv, Quiet
      <4> QED BY <4>1, <4>2
    <3>7. reader.of = g => reader.at \notin {"starting", "waiting"}
      BY <3>1 DEF BytesInv, Quiet
    <3>8. reader.at \in {"starting", "waiting"} =>
            sock'[reader.of].toMain = 0 /\ sock'[reader.of].toThread = 0
      <4> SUFFICES ASSUME reader.at \in {"starting", "waiting"}
                   PROVE  sock'[reader.of].toMain = 0 /\ sock'[reader.of].toThread = 0
        OBVIOUS
      <4>1. dev.open /\ Quiet(reader.of) /\ reader.of # g BY <3>7 DEF BytesInv
      <4>2. reader.of \in Connects BY <1>1, <4>1 DEF PortInv, Connects
      <4> QED BY <3>5, <4>1, <4>2 DEF Quiet
    <3>9. CASE rx' = [rx EXCEPT !.size = TRUE] /\ main' = [main EXCEPT !.at = "handling"]
               /\ (rx.size \/ rx.transfer = "done")
      <4>1. rx.transfer = "done" /\ rx.read > 0 BY <3>9 DEF BytesInv
      <4>2. rx' \in Transfer /\ rx'.transfer = "done" /\ rx'.read = rx.read
        BY <1>1, <3>9, <4>1 DEF Transfer
      <4>3. main'.at = "handling" /\ main'.fd = g BY <1>1, <3>9 DEF Main
      <4> QED
        BY <1>1, <1>2, <1>3, <2>1, <3>2, <3>5, <3>6, <3>7, <3>8, <4>1, <4>2, <4>3
        DEF BytesInv, Quiet
    <3>10. CASE rx' = rx /\ main' = At0("usb")
      BY <1>1, <1>2, <1>3, <2>1, <2>2, <3>5, <3>6, <3>8, <3>10 DEF BytesInv, Quiet
    <3> QED BY <1>6, <2>4, <3>9, <3>10 DEF ReadResult
  <2> QED BY <2>3, <2>4
<1>7. CASE Handle
  <2> DEFINE g == main.fd
             p == [sock[g] EXCEPT !.toThread = 1]
  <2>1. /\ main.at = "handling" /\ UNCHANGED <<dev, backlog, rx>> /\ main' = At0("usb")
        /\ handled' = Append(handled, rx.read)
        /\ sock' = [sock EXCEPT ![g].toThread = @ + 1]
    BY <1>7 DEF Handle, Answer
  <2>2. /\ g # 0 /\ rx.read > 0 /\ sock[g].toMain = 0 /\ sock[g].toThread = 0
        /\ g = reader.of => reader.at \notin {"starting", "waiting"}
    BY <2>1 DEF BytesInv, Quiet
  <2>3. g \in Connects /\ sock[g] \in Pair BY <1>1, <2>2 DEF Connects
  <2>4. p \in Pair /\ p.toMain = 0 /\ p.toThread = 1 BY <2>2, <2>3 DEF Pair
  <2>5. sock' = [sock EXCEPT ![g] = p] BY <1>1, <2>1, <2>2, <2>3
  <2> HIDE DEF p
  <2>6. /\ sock' \in [Connects -> Pair] /\ sock'[g] = p
        /\ \A s \in Connects : s # g => sock'[s] = sock[s]
    BY <1>1, <2>3, <2>4, <2>5, OnePair
  <2>7. \A s \in Connects : /\ sock'[s].toMain = 0 \/ sock'[s].toThread = 0
                            /\ s > dev.connect => sock'[s].toMain = 0 /\ sock'[s].toThread = 0
    <3> TAKE s \in Connects
    <3>1. CASE s = g BY <1>1, <2>4, <2>6, <3>1
    <3>2. CASE s # g BY <2>6, <3>2 DEF BytesInv, Quiet
    <3> QED BY <3>1, <3>2
  <2>8. reader.at \in {"starting", "waiting"} =>
          sock'[reader.of].toMain = 0 /\ sock'[reader.of].toThread = 0
    <3> SUFFICES ASSUME reader.at \in {"starting", "waiting"}
                 PROVE  sock'[reader.of].toMain = 0 /\ sock'[reader.of].toThread = 0
      OBVIOUS
    <3>1. dev.open /\ Quiet(reader.of) /\ reader.of # g BY <2>2 DEF BytesInv
    <3>2. reader.of \in Connects BY <1>1, <3>1 DEF PortInv, Connects
    <3> QED BY <2>6, <3>1, <3>2 DEF Quiet
  <2>9. handled' \in Seq(1..MaxReads)
    <3>1. rx.read \in 1..MaxReads /\ handled \in Seq(1..MaxReads) BY <1>1, <2>2 DEF BytesInv
    <3> QED BY <2>1, <3>1, Adding
  <2>10. main'.at = "usb" /\ main'.fd = 0 BY <2>1 DEF At0
  <2> QED BY <1>1, <1>2, <1>3, <2>1, <2>6, <2>7, <2>8, <2>9, <2>10 DEF BytesInv, Quiet
<1> QED BY <1>4, <1>5, <1>6, <1>7 DEF MainLoop

\* The port is opened and closed.
LEMMA UsbBytes ==
  ASSUME PortInv, PortInv', BytesInv, Usb
  PROVE  BytesInv'
<1>1. /\ MaxConnects \in Nat \ {0} /\ MaxReads \in Nat /\ rx.read \in 0..MaxReads
      /\ reader.of = dev.connect /\ main.fd \in 0..MaxConnects /\ dev.connect \in 0..MaxConnects
      /\ main.fd <= dev.connect /\ dev.rx \in 0..MaxConnects /\ dev.rx <= dev.connect
      /\ sock \in [Connects -> Pair] /\ rx \in Transfer /\ reader \in Thread /\ dev \in Device
      /\ main \in Main /\ backlog \in Seq(Connects)
  BY TransferAssumption DEF BytesInv, Transfer, PortInv, Main, Device
<1>2. CASE Connect
  <2> DEFINE g == dev.connect + 1
             p == [sock[g] EXCEPT !.thread = "open", !.main = "backlog"]
  <2>1. /\ main.at = "usb" /\ dev.connect < MaxConnects /\ UNCHANGED <<main, rx, handled>>
        /\ dev' = [dev EXCEPT !.connect = g, !.open = TRUE, !.here = TRUE, !.reads = TRUE,
                              !.stop = FALSE]
        /\ backlog' = Append(backlog, g)
        /\ reader' = [at |-> "starting", of |-> g]
        /\ sock' = [sock EXCEPT ![g].thread = "open", ![g].main = "backlog"]
    BY <1>2 DEF Connect, ThreadStop
  <2>2. g \in Connects /\ g \in 0..MaxConnects /\ g > dev.connect BY <1>1, <2>1 DEF Connects
  <2>3. sock[g] \in Pair /\ sock[g].toMain = 0 /\ sock[g].toThread = 0
    BY <1>1, <2>2 DEF BytesInv, Quiet
  <2>4. p \in Pair /\ p.toMain = 0 /\ p.toThread = 0 BY <2>3 DEF Pair
  <2>5. sock' = [sock EXCEPT ![g] = p] BY <1>1, <2>1, <2>2
  <2>6. dev'.connect = g /\ dev'.open /\ dev'.rx = dev.rx BY <1>1, <2>1, <2>2 DEF Device
  <2>7. reader' \in Thread /\ reader'.at = "starting" /\ reader'.of = g
    BY <2>1, <2>2 DEF Thread
  <2>8. \A i \in 1 .. Len(backlog') : backlog'[i] <= g
    <3>1. /\ Len(backlog) \in Nat /\ Len(backlog') = Len(backlog) + 1
          /\ backlog'[Len(backlog) + 1] = g
          /\ \A i \in 1 .. Len(backlog) : backlog'[i] = backlog[i] /\ backlog[i] \in Connects
      BY <1>1, <2>1, <2>2, Adding
    <3>2. \A i \in 1 .. Len(backlog) : backlog[i] <= dev.connect BY DEF BytesInv
    <3>3. \A i \in 1 .. Len(backlog) : backlog'[i] <= g
      <4> TAKE i \in 1 .. Len(backlog)
      <4>1. backlog'[i] = backlog[i] /\ backlog[i] \in Connects /\ backlog[i] <= dev.connect
        BY ONLY <3>1, <3>2, i \in 1 .. Len(backlog)
      <4>2. dev.connect \in Int /\ g = dev.connect + 1 BY <1>1
      <4>3. backlog[i] \in Int BY <4>1 DEF Connects
      <4> QED BY ONLY <4>1, <4>2, <4>3
    <3>4. \A i \in 1 .. Len(backlog) + 1 : i \in 1 .. Len(backlog) \/ i = Len(backlog) + 1
      BY <3>1
    <3>5. g <= g BY <1>1
    <3> HIDE DEF g
    <3> QED BY <3>1, <3>3, <3>4, <3>5
  <2> HIDE DEF p
  <2>9. /\ sock' \in [Connects -> Pair] /\ sock'[g] = p
        /\ \A s \in Connects : s # g => sock'[s] = sock[s]
    BY <1>1, <2>2, <2>4, <2>5, OnePair
  <2>10. \A s \in Connects : /\ sock'[s].toMain = 0 \/ sock'[s].toThread = 0
                             /\ s > g => sock'[s].toMain = 0 /\ sock'[s].toThread = 0
    <3> TAKE s \in Connects
    <3>1. CASE s = g BY <2>4, <2>9, <3>1
    <3>2. CASE s # g
      <4>1. s > g => s > dev.connect BY <1>1 DEF Connects
      <4> QED BY <2>9, <3>2, <4>1 DEF BytesInv, Quiet
    <3> QED BY <3>1, <3>2
  <2>11. dev'.rx <= g /\ main'.fd <= g BY <1>1, <2>1, <2>6
  <2> HIDE DEF g
  <2> QED
    BY <1>1, <2>1, <2>2, <2>4, <2>6, <2>7, <2>8, <2>9, <2>10, <2>11 DEF BytesInv, Quiet
<1>3. CASE Disconnect
  <2>1. /\ main.at = "usb" /\ dev.open /\ UNCHANGED <<backlog, reader, rx, handled>>
        /\ dev' = [dev EXCEPT !.here = FALSE, !.rx = 0, !.stop = dev.reads]
        /\ sock' = IF dev.rx = 0 THEN sock ELSE [sock EXCEPT ![dev.rx].main = "closed"]
        /\ main' = [main EXCEPT !.at = IF dev.reads THEN "joinReader" ELSE "stopWriter"]
    BY <1>3 DEF Disconnect
  <2>2. dev.reads BY <2>1 DEF PortInv
  <2>3. main'.at = "joinReader" /\ main'.fd = main.fd BY <1>1, <2>1, <2>2 DEF Main
  <2>4. dev'.connect = dev.connect /\ dev'.open /\ dev'.rx = 0
    BY <1>1, <2>1 DEF Device
  <2>5. /\ sock' \in [Connects -> Pair]
        /\ \A g \in Connects : sock'[g].toMain = sock[g].toMain
                               /\ sock'[g].toThread = sock[g].toThread
    <3>1. CASE dev.rx = 0 BY <1>1, <2>1, <3>1
    <3>2. CASE dev.rx # 0
      <4>1. \E a \in {"none", "backlog", "open", "closed"} : sock' = [sock EXCEPT ![dev.rx].main = a]
        BY <2>1, <3>2
      <4>2. dev.rx \in Connects BY <1>1, <3>2 DEF Connects
      <4> QED BY <1>1, <4>1, <4>2, EndOfPair
    <3> QED BY <3>1, <3>2
  <2> QED BY <1>1, <2>1, <2>3, <2>4, <2>5, BytesFrame DEF BytesInv
<1>4. CASE JoinReader
  <2>1. /\ main.at = "joinReader" /\ UNCHANGED <<dev, sock, backlog, rx, handled>>
        /\ main' = [main EXCEPT !.at = "stopWriter"] /\ reader' = [reader EXCEPT !.at = "ended"]
    BY <1>4 DEF JoinReader
  <2>2. main'.at = "stopWriter" /\ main'.fd = main.fd BY <1>1, <2>1 DEF Main
  <2>3. reader' \in Thread /\ reader'.at = "ended" /\ reader'.of = reader.of
    BY <1>1, <2>1 DEF Thread
  <2> QED BY <2>1, <2>2, <2>3 DEF BytesInv, Quiet
<1>5. CASE StopWriter \/ WakeWriter \/ JoinWriter
  <2>1. main.at \in {"stopWriter", "wakeWriter", "joinWriter"}
        /\ UNCHANGED <<dev, sock, backlog, reader, rx, handled>>
        /\ \/ \E a \in {"wakeWriter", "joinWriter", "close"} : main' = [main EXCEPT !.at = a]
           \/ \E a \in {"undefined", "close"} : main' = At0(a)
    BY <1>5 DEF StopWriter, WakeWriter, JoinWriter, rvars
  <2>2. main'.at \notin {"recv", "handling"} /\ main'.fd <= dev.connect
    BY <1>1, <2>1 DEF At0, Main
  <2>3. reader.at = "ended" BY <2>1 DEF BytesInv
  <2> QED BY <1>1, <2>1, <2>2, <2>3, BytesFrame DEF BytesInv
<1>6. CASE Close
  <2>1. /\ main.at = "close" /\ UNCHANGED <<backlog, reader, handled>> /\ main' = At0("usb")
        /\ sock' = [sock EXCEPT ![dev.connect].thread = "closed"]
        /\ rx' = IF rx.transfer = "pending"
                 THEN [rx EXCEPT !.transfer = "failed", !.event = TRUE] ELSE rx
        /\ \E manual \in BOOLEAN :
             dev' = [dev EXCEPT !.open = FALSE, !.reads = FALSE, !.freed = manual]
    BY <1>6 DEF Close
  <2>2. main'.at = "usb" /\ main'.fd = 0 BY <2>1 DEF At0
  <2>3. dev'.connect = dev.connect /\ dev'.rx = dev.rx BY <1>1, <2>1 DEF Device
  <2>4. rx' \in Transfer /\ rx'.read = rx.read /\ (rx'.size => rx'.transfer = "done")
        /\ (rx'.transfer = "done" => rx'.read > 0)
    <3>1. CASE rx.transfer = "pending"
      <4>1. rx.size = FALSE BY <1>1, <3>1 DEF BytesInv, Transfer
      <4>2. rx' = [rx EXCEPT !.transfer = "failed", !.event = TRUE] BY <2>1, <3>1
      <4> QED BY <1>1, <4>1, <4>2 DEF Transfer
    <3>2. CASE rx.transfer # "pending" BY <1>1, <2>1, <3>2 DEF BytesInv
    <3> QED BY <3>1, <3>2
  <2>5. reader.at = "ended" BY <2>1 DEF BytesInv
  <2>6. dev.connect \in Connects BY <1>1, <2>1 DEF PortInv, Closing, Connects
  <2>7. /\ sock' \in [Connects -> Pair]
        /\ \A g \in Connects : sock'[g].toMain = sock[g].toMain
                               /\ sock'[g].toThread = sock[g].toThread
    <3>1. \E a \in {"none", "open", "closed"} : sock' = [sock EXCEPT ![dev.connect].thread = a]
      BY <2>1
    <3> QED BY <1>1, <2>6, <3>1, EndOfPair
  <2> QED BY <1>1, <2>1, <2>2, <2>3, <2>4, <2>5, <2>7, BytesFrame DEF BytesInv
<1> QED BY <1>2, <1>3, <1>4, <1>5, <1>6 DEF Usb

\* Every step keeps a pair to one byte at a time.
LEMMA BytesStep == PortInv /\ BytesInv /\ [Next]_vars => BytesInv'
<1> SUFFICES ASSUME PortInv, BytesInv, [Next]_vars PROVE BytesInv'
  OBVIOUS
<1>1. PortInv' BY PortStep
<1>2. CASE \/ Send \/ SendUndefined \/ Writer \/ UNCHANGED vars
           \/ \E e \in Elements : SendCompletes(e)
  <2>1. /\ UNCHANGED <<dev, sock, backlog, reader, rx, handled>>
        /\ main' = main \/ main' = At0("undefined")
    BY <1>2 DEF Send, SendUndefined, Writer, SendCompletes, rvars, vars
  <2>2. CASE main' = main
    BY <2>1, <2>2 DEF BytesInv, Quiet
  <2>3. CASE main' = At0("undefined")
    <3>1. main'.at = "undefined" /\ main'.fd = 0 /\ dev.connect \in Nat
      BY <2>3, TransferAssumption DEF At0, PortInv, Device
    <3> QED BY <2>1, <3>1 DEF BytesInv, Quiet
  <2> QED BY <2>1, <2>2, <2>3
<1> QED BY <1>1, <1>2, ReaderBytes, MainBytes, UsbBytes DEF Next

\* No byte is under way at first.
LEMMA BytesInit == Init => BytesInv
<1> SUFFICES ASSUME Init PROVE BytesInv
  OBVIOUS
<1>1. MaxConnects \in Nat /\ 0 \in 0..MaxConnects /\ 0 \in 0..MaxReads /\ 0 <= 0 /\ 0 \in 0..1
  BY TransferAssumption
<1>2. \A s \in Connects : sock[s] = [thread |-> "none", main |-> "none", toMain |-> 0, toThread |-> 0]
  BY DEF Init
<1>3. sock \in [Connects -> Pair] BY <1>1 DEF Init, Pair
<1>4. reader \in Thread /\ rx \in Transfer BY <1>1 DEF Init, Thread, Transfer
<1>5. handled \in Seq(1..MaxReads) /\ Len(backlog) = 0 BY DEF Init
<1> QED BY <1>1, <1>2, <1>3, <1>4, <1>5 DEF Init, BytesInv, Quiet

\* Every variable of the transfers keeps its type, and no pair ever carries two bytes,
\* also where descriptors run out and the transfers of a left-over pair are taken for
\* those of the open port (device.cpp 361-494, usb-mce.cpp 845-1183).
THEOREM TransferTypes == Spec => []TypeOK
<1> DEFINE Inv == PortInv /\ WriteInv /\ BytesInv
<1>1. Init => Inv BY WriteInit, BytesInit
<1>2. Inv /\ [Next]_vars => Inv' BY PortStep, WriteStep, BytesStep
<1>3. Inv => TypeOK
  BY DEF PortInv, WriteInv, WriterInv, BytesInv, TypeOK, Main, Device, Pair, Thread, Transfer,
         Places, Tx, WriterType, InLoop, Closing
<1> QED BY <1>1, <1>2, <1>3, PTL DEF Spec

-----------------------------------------------------------------------------
(***************************************************************************)
(* How the read thread ends, also where descriptors run out.               *)
(***************************************************************************)

\* A pair in the backlog was neither accepted nor refused, and is there once.  While the
\* device is connected its read thread ends for one of two reasons.
EndsInv ==
  /\ \A i \in 1 .. Len(backlog) : sock[backlog[i]].main = "backlog"
  /\ \A i, j \in 1 .. Len(backlog) : backlog[i] = backlog[j] => i = j
  /\ dev.rx # 0 => sock[dev.rx].main # "backlog"
  /\ dev.here /\ reader.at = "ended" =>
       rx.transfer = "failed" \/ sock[reader.of].main = "closed"

\* The steps that leave the main loop's ends of the pairs alone.
LEMMA EndsFrame ==
  ASSUME PortInv, BytesInv, EndsInv, UNCHANGED backlog, dev'.rx = dev.rx,
         \A s \in Connects : sock'[s].main = sock[s].main,
         dev'.here /\ reader'.at = "ended" =>
           \/ rx'.transfer = "failed" \/ sock[reader.of].main = "closed",
         reader'.of = reader.of, dev'.here => dev.here
  PROVE  EndsInv'
<1>1. dev.rx # 0 => dev.rx \in Connects
  BY TransferAssumption DEF PortInv, Device, Connects
<1>2. dev.here => reader.of \in Connects
  BY TransferAssumption DEF PortInv, BytesInv, Device, Connects
<1>3. \A i \in 1 .. Len(backlog) : backlog[i] \in Connects BY DEF PortInv
<1> QED BY <1>1, <1>2, <1>3 DEF EndsInv

LEMMA EndsStep == PortInv /\ BytesInv /\ EndsInv /\ [Next]_vars => EndsInv'
<1> SUFFICES ASSUME PortInv, BytesInv, EndsInv, [Next]_vars PROVE EndsInv'
  OBVIOUS
<1>1. /\ main \in Main /\ dev \in Device /\ sock \in [Connects -> Pair] /\ reader \in Thread
      /\ rx \in Transfer /\ backlog \in Seq(Connects) /\ MaxConnects \in Nat \ {0}
      /\ dev.connect \in 0..MaxConnects /\ dev.rx \in 0..MaxConnects /\ dev.rx <= dev.connect
      /\ main.fd \in 0..MaxConnects /\ reader.of = dev.connect
      /\ dev.here => dev.connect \in Connects
      /\ \A i \in 1 .. Len(backlog) : backlog[i] \in Connects /\ backlog[i] <= dev.connect
  BY TransferAssumption DEF PortInv, BytesInv, Device, Connects, Main
<1>2. dev.here /\ reader.at = "ended" => rx.transfer = "failed" \/ sock[reader.of].main = "closed"
  BY DEF EndsInv
<1>3. CASE StartRead
  <2>1. /\ UNCHANGED <<dev, sock, backlog>> /\ reader'.of = reader.of
        /\ reader'.at = "ended" => rx'.transfer = "failed"
    BY <1>1, <1>3 DEF StartRead, NewRead, Thread, Transfer
  <2> QED BY <2>1, EndsFrame
<1>4. CASE ReaderWakes
  <2>1. /\ UNCHANGED backlog /\ reader'.of = reader.of
        /\ dev' = dev \/ dev' = [dev EXCEPT !.stop = FALSE]
        /\ sock' = sock \/ sock' = [sock EXCEPT ![reader.of].toMain = @ + 1]
    BY <1>1, <1>4 DEF ReaderWakes, Thread
  <2>2. dev'.here = dev.here /\ dev'.rx = dev.rx BY <1>1, <2>1 DEF Device
  <2>3. \A s \in Connects : sock'[s].main = sock[s].main BY <1>1, <2>1 DEF Pair
  <2>4. dev.here /\ reader'.at = "ended" => sock[reader.of].main = "closed"
    BY <1>1, <1>4 DEF ReaderWakes, PortInv, PeerClosed, Thread, Told
  <2> QED BY <2>1, <2>2, <2>3, <2>4, EndsFrame
<1>5. CASE ReaderAnswered
  <2>1. /\ UNCHANGED <<dev, backlog>> /\ reader'.of = reader.of
        /\ sock' = sock \/ sock' = [sock EXCEPT ![reader.of].toThread = @ - 1]
        /\ reader'.at = "ended" => sock[reader.of].main = "closed"
    BY <1>1, <1>5 DEF ReaderAnswered, PeerClosed, Thread
  <2>2. \A s \in Connects : sock'[s].main = sock[s].main BY <1>1, <2>1 DEF Pair
  <2> QED BY <2>1, <2>2, EndsFrame
<1>6. CASE ReadCompletes \/ ReadResult \/ Handle
  <2>1. /\ UNCHANGED <<dev, backlog, reader>>
        /\ \/ sock' = sock
           \/ sock' = [sock EXCEPT ![main.fd].toMain = @ - 1]
           \/ sock' = [sock EXCEPT ![main.fd].toThread = @ + 1]
    BY <1>6 DEF ReadCompletes, ReadResult, Handle, Answer
  <2>2. \A s \in Connects : sock'[s].main = sock[s].main BY <1>1, <2>1 DEF Pair
  <2>3. rx.transfer = "failed" => rx'.transfer = "failed"
    BY <1>1, <1>6 DEF ReadCompletes, ReadResult, Handle, Transfer
  <2> QED BY <1>2, <2>1, <2>2, <2>3, EndsFrame
<1>7. CASE DeviceAcceptSocket
  <2>1. main.at = "accept" /\ UNCHANGED <<reader, rx>> BY <1>7 DEF DeviceAcceptSocket
  <2>2. CASE ~main.listen
    <3>1. UNCHANGED <<dev, sock, backlog>> BY <1>7, <2>2 DEF DeviceAcceptSocket
    <3> QED BY <1>2, <2>1, <3>1, EndsFrame
  <2>3. CASE main.listen
    <3> DEFINE s == Head(backlog)
               l == Tail(backlog)
    <3>1. /\ s \in Connects /\ l \in Seq(Connects) /\ Len(backlog) \in Nat \ {0} /\ s = backlog[1]
          /\ Len(l) = Len(backlog) - 1 /\ \A i \in 1 .. Len(backlog) - 1 : l[i] = backlog[i + 1]
      <4>1. backlog # <<>> BY <2>1, <2>3 DEF PortInv
      <4> QED BY <1>1, <4>1, Taking
    <3>2. /\ backlog' = l
          /\ \/ dev' = [dev EXCEPT !.rx = s] /\ sock' = [sock EXCEPT ![s].main = "open"]
             \/ dev' = dev /\ sock' = [sock EXCEPT ![s].main = "closed"]
      BY <1>7, <2>3 DEF DeviceAcceptSocket
    <3> HIDE DEF s, l
    <3>3. /\ \A g \in Connects : g # s => sock'[g].main = sock[g].main
          /\ sock'[s].main \in {"open", "closed"}
          /\ dev'.here = dev.here
      BY <1>1, <3>1, <3>2 DEF Pair, Device
    <3>4. \A i \in 1 .. Len(l) : /\ i + 1 \in 1 .. Len(backlog) /\ l[i] = backlog[i + 1]
                                 /\ l[i] # s /\ l[i] \in Connects
      <4> TAKE i \in 1 .. Len(l)
      <4>1. i + 1 \in 1 .. Len(backlog) /\ i \in 1 .. Len(backlog) - 1 /\ 1 \in 1 .. Len(backlog)
            /\ i + 1 # 1
        BY <3>1
      <4>2. backlog[i + 1] # backlog[1] BY <4>1 DEF EndsInv
      <4> QED BY <1>1, <3>1, <4>1, <4>2
    <3>5. \A i \in 1 .. Len(backlog') : sock'[backlog'[i]].main = "backlog"
      BY <3>2, <3>3, <3>4 DEF EndsInv
    <3>6. \A i, j \in 1 .. Len(backlog') : backlog'[i] = backlog'[j] => i = j
      <4> SUFFICES ASSUME NEW i \in 1 .. Len(l), NEW j \in 1 .. Len(l), l[i] = l[j] PROVE i = j
        BY <3>2
      <4>1. i + 1 = j + 1 BY <3>4 DEF EndsInv
      <4> QED BY <4>1
    <3>7. dev'.rx # 0 => sock'[dev'.rx].main # "backlog"
      <4>1. CASE dev' = [dev EXCEPT !.rx = s] /\ sock' = [sock EXCEPT ![s].main = "open"]
        <5>1. dev'.rx = s BY <1>1, <4>1 DEF Device
        <5> QED BY <3>3, <5>1
      <4>2. CASE dev' = dev
        <5>1. dev.rx # 0 => dev.rx \in Connects BY <1>1 DEF Connects
        <5> QED BY <3>3, <4>2, <5>1 DEF EndsInv
      <4> QED BY <3>2, <4>1, <4>2
    <3>8. dev'.here /\ reader'.at = "ended" =>
            rx'.transfer = "failed" \/ sock'[reader'.of].main = "closed"
      <4> SUFFICES ASSUME dev.here, reader.at = "ended", rx.transfer # "failed"
                   PROVE  sock'[reader.of].main = "closed"
        BY <2>1, <3>3
      <4>1. sock[reader.of].main = "closed" /\ reader.of \in Connects BY <1>1, <1>2
      <4>2. sock[s].main = "backlog"
        <5>1. 1 \in 1 .. Len(backlog) BY <3>1
        <5> QED BY <3>1, <5>1 DEF EndsInv
      <4> QED BY <3>3, <4>1, <4>2
    <3> QED BY <3>5, <3>6, <3>7, <3>8 DEF EndsInv
  <2> QED BY <1>1, <2>2, <2>3 DEF Main
<1>8. CASE Connect
  <2> DEFINE g == dev.connect + 1
  <2>1. /\ dev.connect < MaxConnects /\ backlog' = Append(backlog, g)
        /\ dev' = [dev EXCEPT !.connect = g, !.open = TRUE, !.here = TRUE, !.reads = TRUE,
                              !.stop = FALSE]
        /\ sock' = [sock EXCEPT ![g].thread = "open", ![g].main = "backlog"]
        /\ reader' = [at |-> "starting", of |-> g]
    BY <1>8 DEF Connect, ThreadStop
  <2>2. g \in Connects /\ g > dev.connect BY <1>1, <2>1 DEF Connects
  <2> HIDE DEF g
  <2>3. /\ dev'.rx = dev.rx /\ sock'[g].main = "backlog"
        /\ \A s \in Connects : s # g => sock'[s].main = sock[s].main
    BY <1>1, <2>1, <2>2 DEF Device, Pair
  <2>4. /\ Len(backlog') = Len(backlog) + 1 /\ backlog'[Len(backlog) + 1] = g
        /\ \A i \in 1 .. Len(backlog) : backlog'[i] = backlog[i] /\ Len(backlog) \in Nat
    BY <1>1, <2>1, <2>2, Adding
  <2>5. \A i \in 1 .. Len(backlog') : i = Len(backlog) + 1 \/ i \in 1 .. Len(backlog)
    BY <2>4
  <2>6. \A i \in 1 .. Len(backlog) : backlog[i] # g BY <1>1, <2>2
  <2>7. \A i \in 1 .. Len(backlog') : sock'[backlog'[i]].main = "backlog"
    BY <1>1, <2>3, <2>4, <2>5, <2>6 DEF EndsInv
  <2>8. \A i, j \in 1 .. Len(backlog') : backlog'[i] = backlog'[j] => i = j
    BY <2>4, <2>5, <2>6 DEF EndsInv
  <2>9. dev.rx # 0 => dev.rx \in Connects /\ dev.rx # g BY <1>1, <2>2 DEF Connects
  <2>10. dev'.rx # 0 => sock'[dev'.rx].main # "backlog" BY <2>3, <2>9 DEF EndsInv
  <2> QED BY <2>1, <2>7, <2>8, <2>10 DEF EndsInv
<1>9. CASE Disconnect
  <2>1. /\ UNCHANGED backlog
        /\ dev' = [dev EXCEPT !.here = FALSE, !.rx = 0, !.stop = dev.reads]
        /\ sock' = IF dev.rx = 0 THEN sock ELSE [sock EXCEPT ![dev.rx].main = "closed"]
    BY <1>9 DEF Disconnect
  <2>2. dev'.here = FALSE /\ dev'.rx = 0 BY <1>1, <2>1 DEF Device
  <2>3. \A i \in 1 .. Len(backlog) : sock'[backlog[i]].main = "backlog"
    <3> TAKE i \in 1 .. Len(backlog)
    <3>1. sock[backlog[i]].main = "backlog" /\ backlog[i] \in Connects BY <1>1 DEF EndsInv
    <3>2. dev.rx # 0 => dev.rx # backlog[i] BY <3>1 DEF EndsInv
    <3> QED BY <1>1, <2>1, <3>1, <3>2 DEF Pair
  <2>4. \A i, j \in 1 .. Len(backlog) : backlog[i] = backlog[j] => i = j BY DEF EndsInv
  <2> QED BY <2>1, <2>2, <2>3, <2>4 DEF EndsInv
<1>10. CASE Close
  <2>1. /\ UNCHANGED <<backlog, reader>> /\ main.at = "close"
        /\ sock' = [sock EXCEPT ![dev.connect].thread = "closed"]
        /\ \E manual \in BOOLEAN :
             dev' = [dev EXCEPT !.open = FALSE, !.reads = FALSE, !.freed = manual]
    BY <1>10 DEF Close
  <2>2. dev.here = FALSE BY <1>1, <2>1 DEF PortInv, Closing, Device
  <2>3. dev'.rx = dev.rx /\ dev'.here = FALSE BY <1>1, <2>1, <2>2 DEF Device
  <2>4. \A s \in Connects : sock'[s].main = sock[s].main BY <1>1, <2>1 DEF Pair
  <2> QED BY <2>1, <2>3, <2>4, EndsFrame
<1>11. CASE JoinReader
  <2>1. /\ UNCHANGED <<dev, sock, backlog, rx>> /\ main.at = "joinReader"
        /\ reader' = [reader EXCEPT !.at = "ended"]
    BY <1>11 DEF JoinReader
  <2>2. reader'.of = reader.of /\ ~dev.here BY <1>1, <2>1 DEF Thread, PortInv, Closing
  <2> QED BY <2>1, <2>2, EndsFrame
<1>12. CASE \/ Select \/ StopWriter \/ WakeWriter \/ JoinWriter \/ Send \/ SendUndefined
            \/ Writer \/ UNCHANGED vars \/ \E e \in Elements : SendCompletes(e)
  <2>1. UNCHANGED <<dev, sock, backlog, reader, rx>>
    BY <1>12 DEF Select, StopWriter, WakeWriter, JoinWriter, Send, SendUndefined, Writer,
         SendCompletes, rvars, vars
  <2> QED BY <1>2, <2>1, EndsFrame
<1> QED
  BY <1>3, <1>4, <1>5, <1>6, <1>7, <1>8, <1>9, <1>10, <1>11, <1>12
  DEF Next, Reader, MainLoop, Usb

\* Each stop of usb_disconnect reaches the threads it was meant for and no others, also
\* when the element that wakes a write thread is left for the next one, and when
\* descriptors run out (usb-mce.cpp:845-939, 1038-1054).
THEOREM StopsCorrect == Spec => []StopsReachTheirThread
<1> DEFINE Inv == PortInv /\ WriteInv /\ BytesInv /\ EndsInv
<1>1. Init => Inv
  <2>1. Init => EndsInv BY DEF Init, EndsInv
  <2> QED BY <2>1, WriteInit, BytesInit
<1>2. Inv /\ [Next]_vars => Inv' BY PortStep, WriteStep, BytesStep, EndsStep
<1>3. Inv => StopsReachTheirThread
  <2> SUFFICES ASSUME Inv, ~late
               PROVE  /\ main.at = "usb" /\ ~dev.open => reader.at = "ended" /\ writer.at = "ended"
                      /\ dev.here /\ turbo => writer.at \notin {"drain", "ended"}
                      /\ dev.here /\ reader.at = "ended" =>
                           rx.transfer = "failed" \/ sock[reader.of].main = "closed"
    BY DEF StopsReachTheirThread
  <2> QED BY DEF BytesInv, WriteInv, WriterInv, EndsInv
<1> QED BY <1>1, <1>2, <1>3, PTL DEF Spec

-----------------------------------------------------------------------------
(***************************************************************************)
(* Accepting and reading, where there is room for every socket pair.       *)
(***************************************************************************)

Now == sock[dev.connect]

\* The pairs not accepted yet are those of the last connects, and the last one accepted
\* before them is the device's: a device without a socket has one in the backlog.
BacklogInv ==
  /\ Len(backlog) <= dev.connect
  /\ \A i \in 1 .. Len(backlog) : backlog[i] = dev.connect - Len(backlog) + i
  /\ dev.rx # 0 => dev.here /\ dev.rx = dev.connect - Len(backlog)
  /\ dev.here => (dev.rx = 0 => backlog # <<>>) /\ Now.main # "closed"

\* So a socket that an iteration found readable is replaced before it is read, unless
\* there was nothing to accept.
LoopInv ==
  /\ main.at = "accept" =>
       main.listen = (backlog # <<>>) /\ (main.fd # 0 => main.fd = dev.rx)
  /\ main.at \in {"recv", "handling"} => dev.here /\ main.fd = dev.connect

AcceptInv == BacklogInv /\ LoopInv

\* What the threads, the sends and the answer to the read thread leave alone.
LEMMA AcceptFrame ==
  ASSUME AcceptInv, UNCHANGED backlog,
         dev'.connect = dev.connect, dev'.rx = dev.rx, dev'.here = dev.here,
         dev.here => sock'[dev.connect].main = sock[dev.connect].main,
         main'.at = "accept" => main' = main,
         main'.at \in {"recv", "handling"} =>
           main.at \in {"recv", "handling"} /\ main'.fd = main.fd
  PROVE  AcceptInv'
BY DEF AcceptInv, BacklogInv, LoopInv, Now

\* Every step keeps the pairs in the order of the connects.
LEMMA AcceptStep == Room /\ PortInv /\ BytesInv /\ AcceptInv /\ [Next]_vars => AcceptInv'
<1> SUFFICES ASSUME Room, PortInv, BytesInv, AcceptInv, [Next]_vars PROVE AcceptInv'
  OBVIOUS
<1>1. /\ MaxConnects \in Nat \ {0} /\ main.fd \in 0..MaxConnects /\ dev.connect \in 0..MaxConnects
      /\ dev.rx \in 0..MaxConnects /\ reader.of = dev.connect /\ BacklogInv /\ LoopInv
      /\ sock \in [Connects -> Pair] /\ reader \in Thread /\ dev \in Device
      /\ main \in Main /\ backlog \in Seq(Connects) /\ Len(backlog) \in Nat
  BY TransferAssumption DEF BytesInv, PortInv, Main, Device, AcceptInv
<1>2. dev.here => dev.open /\ dev.connect \in Connects BY <1>1 DEF PortInv, Connects
<1>3. CASE Reader \/ ReadCompletes
  <2>1. /\ UNCHANGED <<main, backlog>>
        /\ dev' = dev \/ dev' = [dev EXCEPT !.stop = FALSE]
        /\ \/ sock' = sock
           \/ sock' = [sock EXCEPT ![dev.connect].toMain = @ + 1]
           \/ sock' = [sock EXCEPT ![dev.connect].toThread = @ - 1]
    BY <1>1, <1>3 DEF Reader, StartRead, ReaderWakes, ReaderAnswered, ReadCompletes
  <2>2. dev'.connect = dev.connect /\ dev'.rx = dev.rx /\ dev'.here = dev.here
    BY <1>1, <2>1 DEF Device
  <2>3. dev.here => sock'[dev.connect].main = sock[dev.connect].main
    BY <1>1, <1>2, <2>1 DEF Pair
  <2>4. UNCHANGED backlog /\ main'.at = main.at /\ main'.fd = main.fd /\ main' = main BY <2>1
  <2> QED BY <2>2, <2>3, <2>4, AcceptFrame
<1>4. CASE Select
  <2> DEFINE f == IF Readable(dev.rx) THEN dev.rx ELSE 0
             n == (backlog # <<>>)
  <2>1. /\ UNCHANGED <<dev, sock, backlog>>
        /\ main' = [main EXCEPT !.at = "accept", !.listen = n, !.fd = f]
    BY <1>4 DEF Select, rvars
  <2>2. f \in 0..MaxConnects /\ (f # 0 => f = dev.rx) BY <1>1
  <2>3. n \in BOOLEAN /\ (n <=> backlog # <<>>) OBVIOUS
  <2> HIDE DEF f, n
  <2>4. main'.at = "accept" /\ main'.fd = f /\ main'.listen = n
    BY <1>1, <2>1, <2>2, <2>3 DEF Main
  <2>5. BacklogInv' BY <1>1, <2>1 DEF BacklogInv, Now
  <2>6. LoopInv' BY <1>1, <2>1, <2>2, <2>3, <2>4 DEF LoopInv
  <2> QED BY <2>5, <2>6 DEF AcceptInv
<1>5. CASE DeviceAcceptSocket
  <2>1. main.at = "accept" BY <1>5 DEF DeviceAcceptSocket
  <2>2. main.listen = (backlog # <<>>) /\ (main.fd # 0 => main.fd = dev.rx)
    BY <1>1, <2>1 DEF LoopInv
  <2>3. CASE ~main.listen
    <3>1. main' = ToSockets(dev.rx) /\ UNCHANGED <<dev, sock, backlog>>
      BY <1>5, <2>3 DEF DeviceAcceptSocket
    <3>2. backlog = <<>> /\ Len(backlog) = 0 BY <1>1, <2>2, <2>3 DEF Main
    <3>3. main'.at \in {"recv", "usb"} /\ (main'.at = "recv" => main'.fd = dev.rx /\ dev.rx # 0)
      BY <1>1, <3>1, ToSocketsType
    <3>4. dev.rx # 0 => dev.here /\ dev.rx = dev.connect BY <1>1, <3>2 DEF BacklogInv
    <3>5. BacklogInv' BY <1>1, <3>1 DEF BacklogInv, Now
    <3>6. LoopInv' BY <3>1, <3>3, <3>4 DEF LoopInv
    <3> QED BY <3>5, <3>6 DEF AcceptInv
  <2>4. CASE main.listen
    <3> DEFINE s == Head(backlog)
               l == Tail(backlog)
    <3>1. /\ s \in Connects /\ l \in Seq(Connects) /\ Len(backlog) \in Nat \ {0} /\ s = backlog[1]
          /\ Len(l) = Len(backlog) - 1 /\ \A i \in 1 .. Len(backlog) - 1 : l[i] = backlog[i + 1]
      <4>1. backlog # <<>> BY <2>2, <2>4
      <4> QED BY <1>1, <4>1, Taking
    <3>2. /\ backlog' = l
          /\ \/ /\ ~dev.here /\ dev' = dev /\ main' = ToSockets(dev.rx)
                /\ sock' = [sock EXCEPT ![s].main = "closed"]
             \/ /\ dev.here /\ dev' = [dev EXCEPT !.rx = s] /\ main' = ToSockets(s)
                /\ sock' = [sock EXCEPT ![s].main = "open"]
      BY <1>5, <2>4 DEF DeviceAcceptSocket
    <3> HIDE DEF s, l
    <3>3. s = dev.connect - Len(l) /\ Len(l) <= dev.connect /\ s \in 0..MaxConnects
      <4>1. 1 \in 1 .. Len(backlog) BY <3>1
      <4> QED BY <1>1, <3>1, <4>1 DEF BacklogInv, Connects
    <3>4. \A i \in 1 .. Len(l) : l[i] = dev.connect - Len(l) + i
      <4> TAKE i \in 1 .. Len(l)
      <4>1. i \in 1 .. Len(backlog) - 1 /\ i + 1 \in 1 .. Len(backlog) BY <3>1
      <4>2. l[i] = dev.connect - Len(backlog) + (i + 1) BY <1>1, <3>1, <4>1 DEF BacklogInv
      <4>3. dev.connect \in Int /\ Len(backlog) \in Int /\ Len(l) = Len(backlog) - 1 /\ i \in Int
        BY <1>1, <3>1, <4>1
      <4> QED BY <4>2, <4>3
    <3>5. dev.rx # 0 => dev.rx = dev.connect - Len(backlog) BY <1>1 DEF BacklogInv
    <3>6. dev.rx # 0 => s # dev.rx BY <1>1, <3>1, <3>3, <3>5
    <3>7. CASE ~dev.here /\ dev' = dev /\ main' = ToSockets(dev.rx)
      <4>1. dev.rx = 0 BY <1>1, <3>7 DEF BacklogInv
      <4>2. main'.at = "usb"
        <5>1. main'.at \in {"recv", "usb"} /\ (main'.at = "recv" => dev.rx # 0)
          BY <1>1, <3>7, ToSocketsType
        <5> QED BY <4>1, <5>1
      <4>3. BacklogInv' BY <3>2, <3>3, <3>4, <3>7, <4>1 DEF BacklogInv, Now
      <4>4. LoopInv' BY <4>2 DEF LoopInv
      <4> QED BY <4>3, <4>4 DEF AcceptInv
    <3>8. CASE /\ dev.here /\ dev' = [dev EXCEPT !.rx = s] /\ main' = ToSockets(s)
               /\ sock' = [sock EXCEPT ![s].main = "open"]
      <4>1. main'.at = "usb"
        <5>1. main'.at \in {"recv", "usb"} /\ (main'.at = "recv" => s # 0 /\ s = main.fd)
          BY <3>3, <3>8, ToSocketsType
        <5> QED BY <2>2, <3>6, <5>1
      <4>2. dev'.rx = s /\ dev'.connect = dev.connect /\ dev'.here = dev.here
        BY <1>1, <3>3, <3>8 DEF Device
      <4>3. sock'[dev.connect].main # "closed"
        <5>1. sock[dev.connect].main # "closed" BY <1>1, <3>8 DEF BacklogInv, Now
        <5> QED BY <1>1, <1>2, <3>1, <3>8, <5>1 DEF Pair
      <4>4. s # 0 BY <1>1, <3>1 DEF Connects
      <4>5. BacklogInv' BY <3>2, <3>3, <3>4, <3>8, <4>2, <4>3, <4>4 DEF BacklogInv, Now
      <4>6. LoopInv' BY <4>1 DEF LoopInv
      <4> QED BY <4>5, <4>6 DEF AcceptInv
    <3> QED BY <3>2, <3>7, <3>8
  <2> QED BY <1>1, <2>3, <2>4 DEF Main
<1>6. CASE ReadResult \/ Handle
  <2>1. /\ main.at \in {"recv", "handling"} /\ UNCHANGED <<dev, backlog>>
        /\ main' = At0("usb") \/ main' = [main EXCEPT !.at = "handling"]
        /\ \/ sock' = sock
           \/ sock' = [sock EXCEPT ![main.fd].toMain = @ - 1]
           \/ sock' = [sock EXCEPT ![main.fd].toThread = @ + 1]
    BY <1>6 DEF ReadResult, Handle, Answer
  <2>2. main.fd = dev.connect BY <1>1, <2>1 DEF LoopInv
  <2>3. dev.here => sock'[dev.connect].main = sock[dev.connect].main
    BY <1>1, <1>2, <2>1, <2>2 DEF Pair
  <2>4. main'.at # "accept" /\ (main'.at \in {"recv", "handling"} => main'.fd = main.fd)
    BY <1>1, <2>1 DEF At0, Main
  <2> QED BY <2>1, <2>3, <2>4, AcceptFrame
<1>7. CASE Connect
  <2> DEFINE g == dev.connect + 1
  <2>1. /\ main.at = "usb" /\ ~dev.open /\ dev.connect < MaxConnects /\ UNCHANGED main
        /\ dev' = [dev EXCEPT !.connect = g, !.open = TRUE, !.here = TRUE, !.reads = TRUE,
                              !.stop = FALSE]
        /\ backlog' = Append(backlog, g)
        /\ sock' = [sock EXCEPT ![g].thread = "open", ![g].main = "backlog"]
    BY <1>7 DEF Connect, ThreadStop
  <2>2. g \in Connects /\ g \in 0..MaxConnects /\ g = dev.connect + 1 BY <1>1, <2>1 DEF Connects
  <2>3. ~dev.here /\ dev.rx = 0 BY <1>1, <2>1 DEF PortInv, BacklogInv
  <2>4. dev'.connect = g /\ dev'.rx = 0 /\ dev'.here BY <1>1, <2>1, <2>2, <2>3 DEF Device
  <2>5. sock'[g].main = "backlog" BY <1>1, <2>1, <2>2 DEF Pair
  <2> HIDE DEF g
  <2>6. /\ Len(backlog') = Len(backlog) + 1 /\ backlog'[Len(backlog) + 1] = g
        /\ \A i \in 1 .. Len(backlog) : backlog'[i] = backlog[i]
        /\ backlog' \in Seq(Connects)
    BY <1>1, <2>1, <2>2, Adding
  <2>7. backlog' # <<>> /\ Len(backlog') <= g BY <1>1, <2>2, <2>6 DEF BacklogInv
  <2>8. \A i \in 1 .. Len(backlog') : backlog'[i] = g - Len(backlog') + i
    <3> TAKE i \in 1 .. Len(backlog')
    <3>1. CASE i \in 1 .. Len(backlog)
      <4>1. backlog'[i] = dev.connect - Len(backlog) + i BY <1>1, <2>6, <3>1 DEF BacklogInv
      <4>2. dev.connect \in Int /\ Len(backlog) \in Int /\ i \in Int /\ g = dev.connect + 1
            /\ Len(backlog') = Len(backlog) + 1
        BY <1>1, <2>2, <2>6, <3>1
      <4> QED BY <4>1, <4>2
    <3>2. CASE i = Len(backlog) + 1 BY <1>1, <2>2, <2>6, <3>2
    <3> QED BY <1>1, <2>6, <3>1, <3>2
  <2>9. BacklogInv' BY <2>4, <2>5, <2>7, <2>8 DEF BacklogInv, Now
  <2>10. LoopInv' BY <2>1 DEF LoopInv
  <2> QED BY <2>9, <2>10 DEF AcceptInv
<1>8. CASE Disconnect
  <2>1. /\ main.at = "usb" /\ UNCHANGED backlog
        /\ dev' = [dev EXCEPT !.here = FALSE, !.rx = 0, !.stop = dev.reads]
        /\ main' = [main EXCEPT !.at = IF dev.reads THEN "joinReader" ELSE "stopWriter"]
    BY <1>8 DEF Disconnect
  <2>2. main'.at \in {"joinReader", "stopWriter"} BY <1>1, <2>1 DEF Main
  <2>3. dev'.connect = dev.connect /\ dev'.rx = 0 /\ dev'.here = FALSE
    BY <1>1, <2>1 DEF Device
  <2>4. BacklogInv' BY <1>1, <2>1, <2>3 DEF BacklogInv
  <2>5. LoopInv' BY <2>2 DEF LoopInv
  <2> QED BY <2>4, <2>5 DEF AcceptInv
<1>9. CASE JoinReader \/ StopWriter \/ WakeWriter \/ JoinWriter
  <2>1. /\ UNCHANGED <<dev, sock, backlog>>
        /\ \E a \in Closing \cup {"undefined"} : main' = [main EXCEPT !.at = a] \/ main' = At0(a)
    BY <1>9 DEF JoinReader, StopWriter, WakeWriter, JoinWriter, rvars, Closing
  <2>2. main'.at \in Closing \cup {"undefined"} BY <1>1, <2>1 DEF At0, Main
  <2> QED BY <2>1, <2>2, AcceptFrame DEF Closing
<1>10. CASE Close
  <2>1. /\ main.at = "close" /\ UNCHANGED backlog /\ main' = At0("usb")
        /\ \E manual \in BOOLEAN :
             dev' = [dev EXCEPT !.open = FALSE, !.reads = FALSE, !.freed = manual]
    BY <1>10 DEF Close
  <2>2. main'.at = "usb" /\ ~dev.here BY <2>1 DEF At0, PortInv, Closing
  <2>3. dev'.connect = dev.connect /\ dev'.rx = dev.rx /\ dev'.here = dev.here
    BY <1>1, <2>1 DEF Device
  <2> QED BY <2>1, <2>2, <2>3, AcceptFrame
<1>11. CASE \/ Send \/ SendUndefined \/ Writer \/ UNCHANGED vars
            \/ \E e \in Elements : SendCompletes(e)
  <2>1. /\ UNCHANGED <<dev, sock, backlog>>
        /\ main' = main \/ main' = At0("undefined")
    BY <1>11 DEF Send, SendUndefined, Writer, SendCompletes, rvars, vars
  <2>2. BacklogInv' BY <1>1, <2>1 DEF BacklogInv, Now
  <2>3. CASE main' = main
    <3>1. LoopInv' BY <1>1, <2>1, <2>3 DEF LoopInv
    <3> QED BY <2>2, <3>1 DEF AcceptInv
  <2>4. CASE main' = At0("undefined")
    <3>1. main'.at = "undefined" BY <2>4 DEF At0
    <3>2. LoopInv' BY <3>1 DEF LoopInv
    <3> QED BY <2>2, <3>2 DEF AcceptInv
  <2> QED BY <2>1, <2>3, <2>4
<1> QED
  BY <1>3, <1>4, <1>5, <1>6, <1>7, <1>8, <1>9, <1>10, <1>11 DEF Next, MainLoop, Usb

-----------------------------------------------------------------------------
(***************************************************************************)
(* The handshake of the read thread with the main loop.                    *)
(***************************************************************************)

\* The thread waits for the main loop with a transfer that is over, and while the
\* device is connected a byte of its pair is under way or what it read is handled.
HandshakeInv ==
  /\ rx.event => rx.transfer \in {"done", "failed"}
  /\ dev.here /\ reader.at = "ended" => rx.transfer = "failed" /\ Now.toMain = 0
  /\ reader.at = "told" => rx.transfer \in {"done", "failed"}
  /\ main.at = "handling" => reader.at = "told" /\ rx.transfer = "done"
  /\ reader.at = "told" /\ dev.here /\ rx.transfer = "done"
       /\ main.at \notin {"undefined", "handling"} => ~Quiet(dev.connect)

\* What the last transfer brought is in rx.buffer and nobody has handled it.
Unhandled ==
  /\ rx.transfer = "done"
  /\ \/ reader.at = "waiting"
     \/ main.at = "handling"
     \/ reader.at = "told" /\ Now.toMain = 1

DataInv ==
  /\ \A i \in 1 .. Len(handled) : handled[i] <= rx.read /\ (Unhandled => handled[i] < rx.read)
  /\ \A i, j \in 1 .. Len(handled) : i < j => handled[i] < handled[j]

ReadInv == HandshakeInv /\ DataInv

\* The steps that move neither the read thread nor its bytes.
LEMMA ReadFrame ==
  ASSUME PortInv, BytesInv, ReadInv, UNCHANGED <<reader, rx, handled>>,
         dev'.connect = dev.connect, dev'.here => dev.here,
         \A s \in Connects : sock'[s].toMain = sock[s].toMain /\ sock'[s].toThread = sock[s].toThread,
         main'.at = "handling" => main.at = "handling",
         main.at \in {"handling", "undefined"} => main'.at \in {main.at, "undefined"}
  PROVE  ReadInv'
<1> DEFINE c == dev.connect
<1>1. c \in 0..MaxConnects /\ reader.of = c /\ MaxConnects \in Nat
  BY TransferAssumption DEF PortInv, Device, BytesInv
<1>2. dev.here \/ reader.at # "ended" => c \in Connects
  BY <1>1 DEF PortInv, BytesInv, Connects
<1>3. c \in Connects => sock'[c].toMain = sock[c].toMain /\ sock'[c].toThread = sock[c].toThread
  OBVIOUS
<1>4. HandshakeInv' BY <1>2, <1>3 DEF ReadInv, HandshakeInv, Quiet, Now
<1>5. Unhandled' => Unhandled BY <1>2, <1>3 DEF Unhandled, Now
<1>6. DataInv' BY <1>5 DEF ReadInv, DataInv
<1> QED BY <1>4, <1>6 DEF ReadInv

\* The read thread and its transfer.
LEMMA ReaderReads ==
  ASSUME PortInv, BytesInv, AcceptInv, ReadInv, Reader \/ ReadCompletes
  PROVE  ReadInv'
<1> DEFINE c == dev.connect
<1>1. /\ MaxConnects \in Nat \ {0} /\ MaxReads \in Nat /\ rx.read \in 0..MaxReads
      /\ reader.of = c /\ main.fd \in 0..MaxConnects /\ c \in 0..MaxConnects
      /\ sock \in [Connects -> Pair] /\ rx \in Transfer /\ reader \in Thread /\ dev \in Device
      /\ handled \in Seq(1..MaxReads) /\ HandshakeInv /\ DataInv
  BY TransferAssumption DEF BytesInv, Transfer, PortInv, Main, Device, ReadInv
<1>2. /\ UNCHANGED <<main, backlog, handled>>
      /\ dev' = dev \/ dev' = [dev EXCEPT !.stop = FALSE]
  BY DEF Reader, StartRead, ReaderWakes, ReaderAnswered, ReadCompletes
<1>3. dev'.connect = c /\ dev'.here = dev.here BY <1>1, <1>2 DEF Device
<1>4. dev.here \/ reader.at # "ended" => c \in Connects
  BY <1>1 DEF PortInv, BytesInv, Connects
<1>5. \A i \in 1 .. Len(handled) : handled[i] \in Nat /\ handled[i] <= rx.read
  BY <1>1 DEF DataInv
<1>6. dev.here => sock[c].main # "closed" BY DEF AcceptInv, BacklogInv, Now
<1>7. main.at = "handling" => reader.at = "told" /\ rx.transfer = "done" /\ dev.here
                              /\ sock[c].toMain = 0 /\ sock[c].toThread = 0
  BY <1>1 DEF HandshakeInv, AcceptInv, LoopInv, BytesInv, Quiet
<1>8. CASE ReadCompletes
  <2>1. UNCHANGED <<dev, sock, reader>> /\ rx.transfer = "pending" BY <1>8 DEF ReadCompletes
  <2>2. reader.at # "told" /\ main.at # "handling" /\ ~(dev.here /\ reader.at = "ended")
    BY <1>1, <2>1 DEF HandshakeInv
  <2>3. CASE rx.read < MaxReads /\ rx' = [rx EXCEPT !.transfer = "done", !.event = TRUE, !.read = @ + 1]
    <3> DEFINE n == rx.read + 1
    <3>1. rx' = [rx EXCEPT !.transfer = "done", !.event = TRUE, !.read = n] BY <2>3
    <3>2. n \in 0..MaxReads /\ \A i \in 1 .. Len(handled) : handled[i] < n /\ handled[i] <= n
      BY <1>1, <1>5, <2>3
    <3> HIDE DEF n
    <3>3. rx'.transfer = "done" /\ rx'.read = n BY <1>1, <3>1, <3>2 DEF Transfer
    <3>4. HandshakeInv' BY <1>2, <2>1, <2>2, <3>3 DEF HandshakeInv
    <3>5. DataInv' BY <1>1, <1>2, <3>2, <3>3 DEF DataInv
    <3> QED BY <3>4, <3>5 DEF ReadInv
  <2>4. CASE rx' = [rx EXCEPT !.transfer = "failed", !.event = TRUE]
    <3>1. rx'.transfer = "failed" /\ rx'.read = rx.read BY <1>1, <2>4 DEF Transfer
    <3>2. HandshakeInv' BY <1>2, <2>1, <2>2, <3>1 DEF HandshakeInv
    <3>3. ~Unhandled' BY <3>1 DEF Unhandled
    <3>4. DataInv' BY <1>1, <1>2, <3>1, <3>3 DEF DataInv
    <3> QED BY <3>2, <3>4 DEF ReadInv
  <2> QED BY <1>8, <2>3, <2>4 DEF ReadCompletes
<1>9. CASE StartRead
  <2>1. reader.at = "starting" /\ UNCHANGED <<dev, sock>> BY <1>9 DEF StartRead
  <2>2. c \in Connects /\ sock[c].toMain = 0 /\ main.at # "handling"
    BY <1>1, <1>4, <1>7, <2>1 DEF BytesInv, Quiet
  <2>3. CASE /\ rx.read < MaxReads
             /\ rx' = [rx EXCEPT !.transfer = "done", !.event = TRUE, !.size = TRUE, !.read = @ + 1]
             /\ reader' = [reader EXCEPT !.at = "waiting"]
    <3> DEFINE n == rx.read + 1
    <3>1. rx' = [rx EXCEPT !.transfer = "done", !.event = TRUE, !.size = TRUE, !.read = n]
      BY <2>3
    <3>2. n \in 0..MaxReads /\ \A i \in 1 .. Len(handled) : handled[i] < n /\ handled[i] <= n
      BY <1>1, <1>5, <2>3
    <3> HIDE DEF n
    <3>3. rx'.transfer = "done" /\ rx'.read = n BY <1>1, <3>1, <3>2 DEF Transfer
    <3>4. reader'.at = "waiting" BY <1>1, <2>3 DEF Thread
    <3>5. HandshakeInv' BY <1>2, <2>1, <2>2, <3>3, <3>4 DEF HandshakeInv
    <3>6. DataInv' BY <1>1, <1>2, <3>2, <3>3 DEF DataInv
    <3> QED BY <3>5, <3>6 DEF ReadInv
  <2>4. /\ NewRead \in Transfer /\ NewRead.transfer = "pending" /\ NewRead.event = FALSE
        /\ NewRead.read = rx.read
    BY <1>1 DEF Transfer, NewRead
  <2>5. CASE rx' = NewRead /\ reader' = [reader EXCEPT !.at = "waiting"]
    <3>1. reader'.at = "waiting" BY <1>1, <2>5 DEF Thread
    <3>2. HandshakeInv' BY <1>2, <2>1, <2>2, <2>4, <2>5, <3>1 DEF HandshakeInv
    <3>3. ~Unhandled' BY <2>4, <2>5 DEF Unhandled
    <3>4. DataInv' BY <1>1, <1>2, <2>4, <2>5, <3>3 DEF DataInv
    <3> QED BY <3>2, <3>4 DEF ReadInv
  <2>6. CASE rx' = [NewRead EXCEPT !.transfer = "failed"] /\ reader' = [reader EXCEPT !.at = "ended"]
    <3>1. reader'.at = "ended" BY <1>1, <2>6 DEF Thread
    <3>2. rx'.transfer = "failed" /\ rx'.event = FALSE /\ rx'.read = rx.read
      BY <2>4, <2>6 DEF Transfer
    <3>3. HandshakeInv' BY <1>2, <2>1, <2>2, <3>1, <3>2 DEF HandshakeInv, Now
    <3>4. ~Unhandled' BY <3>2 DEF Unhandled
    <3>5. DataInv' BY <1>1, <1>2, <3>2, <3>4 DEF DataInv
    <3> QED BY <3>3, <3>5 DEF ReadInv
  <2> QED BY <1>9, <2>3, <2>5, <2>6 DEF StartRead
<1>10. CASE ReaderWakes
  <2>1. reader.at = "waiting" /\ (rx' = rx \/ rx' = [rx EXCEPT !.event = FALSE])
    BY <1>10 DEF ReaderWakes
  <2>2. rx'.read = rx.read /\ rx'.transfer = rx.transfer /\ (rx'.event => rx.event)
    BY <1>1, <2>1 DEF Transfer
  <2>3. c \in Connects /\ dev.open /\ sock[c].toMain = 0 /\ sock[c].toThread = 0
        /\ main.at # "handling" /\ sock[c] \in Pair
    BY <1>1, <1>4, <1>7, <2>1 DEF BytesInv, Quiet
  <2>4. CASE reader' = [reader EXCEPT !.at = "ended"] /\ ~dev.here
    <3>1. reader'.at = "ended" BY <1>1, <2>4 DEF Thread
    <3>2. HandshakeInv' BY <1>1, <1>2, <1>3, <2>2, <2>3, <2>4, <3>1 DEF HandshakeInv
    <3>3. ~Unhandled' BY <1>2, <2>3, <3>1 DEF Unhandled
    <3>4. DataInv' BY <1>1, <1>2, <2>2, <3>3 DEF DataInv
    <3> QED BY <3>2, <3>4 DEF ReadInv
  <2>5. CASE /\ rx.event /\ reader' = [reader EXCEPT !.at = Told]
             /\ sock' = [sock EXCEPT ![c].toMain = @ + 1]
    <3>1. reader'.at = "told" BY <1>1, <2>5 DEF Thread, Told
    <3>2. sock'[c].toMain = 1 BY <1>1, <2>3, <2>5 DEF Pair
    <3>3. rx.transfer \in {"done", "failed"} BY <1>1, <2>5 DEF HandshakeInv
    <3>4. HandshakeInv'
      BY <1>1, <1>2, <1>3, <2>2, <2>3, <3>1, <3>2, <3>3 DEF HandshakeInv, Quiet, Now
    <3>5. Unhandled' => Unhandled BY <2>1, <2>2 DEF Unhandled
    <3>6. DataInv' BY <1>1, <1>2, <2>2, <3>5 DEF DataInv
    <3> QED BY <3>4, <3>6 DEF ReadInv
  <2>6. \/ reader' = [reader EXCEPT !.at = "ended"] /\ (dev.stop \/ sock[c].main = "closed")
        \/ /\ rx.event /\ reader' = [reader EXCEPT !.at = Told]
           /\ sock' = [sock EXCEPT ![c].toMain = @ + 1]
    BY <1>1, <1>10 DEF ReaderWakes, PeerClosed
  <2>7. dev.here => ~dev.stop BY DEF PortInv
  <2> QED BY <1>6, <2>4, <2>5, <2>6, <2>7
<1>11. CASE ReaderAnswered
  <2>1. reader.at = "told" /\ UNCHANGED <<dev, rx>> BY <1>11 DEF ReaderAnswered
  <2>2. c \in Connects /\ dev.open /\ sock[c] \in Pair BY <1>1, <1>4, <2>1 DEF BytesInv
  <2>3. CASE /\ sock[c].toThread > 0 /\ sock' = [sock EXCEPT ![c].toThread = @ - 1]
             /\ reader' = [reader EXCEPT !.at = "starting"]
    <3>1. reader'.at = "starting" BY <1>1, <2>3 DEF Thread
    <3>2. main.at # "handling" BY <1>7, <2>3
    <3>3. HandshakeInv' BY <1>1, <1>2, <2>1, <3>1, <3>2 DEF HandshakeInv
    <3>4. ~Unhandled' BY <1>2, <3>1, <3>2 DEF Unhandled
    <3>5. DataInv' BY <1>1, <1>2, <2>1, <3>4 DEF DataInv
    <3> QED BY <3>3, <3>5 DEF ReadInv
  <2>4. CASE reader' = [reader EXCEPT !.at = "ended"] /\ sock[c].main = "closed"
    <3>1. reader'.at = "ended" /\ ~dev.here BY <1>1, <1>6, <2>4 DEF Thread
    <3>2. main.at # "handling" BY <1>7, <3>1
    <3>3. HandshakeInv' BY <1>1, <1>2, <2>1, <3>1, <3>2 DEF HandshakeInv
    <3>4. ~Unhandled' BY <1>2, <3>1, <3>2 DEF Unhandled
    <3>5. DataInv' BY <1>1, <1>2, <2>1, <3>4 DEF DataInv
    <3> QED BY <3>3, <3>5 DEF ReadInv
  <2> QED BY <1>1, <1>11, <2>3, <2>4 DEF ReaderAnswered, PeerClosed
<1> QED BY <1>8, <1>9, <1>10, <1>11 DEF Reader

\* Every step keeps the handshake.
LEMMA ReadStep == Room /\ PortInv /\ BytesInv /\ AcceptInv /\ ReadInv /\ [Next]_vars => ReadInv'
<1> SUFFICES ASSUME Room, PortInv, BytesInv, AcceptInv, ReadInv, [Next]_vars PROVE ReadInv'
  OBVIOUS
<1> DEFINE c == dev.connect
<1>1. /\ MaxConnects \in Nat \ {0} /\ MaxReads \in Nat /\ rx.read \in 0..MaxReads
      /\ reader.of = c /\ main.fd \in 0..MaxConnects /\ c \in 0..MaxConnects
      /\ dev.rx \in 0..MaxConnects /\ backlog \in Seq(Connects)
      /\ sock \in [Connects -> Pair] /\ rx \in Transfer /\ reader \in Thread /\ dev \in Device
      /\ main \in Main /\ handled \in Seq(1..MaxReads) /\ HandshakeInv /\ DataInv
  BY TransferAssumption DEF BytesInv, Transfer, PortInv, Main, Device, ReadInv
<1>2. dev.here \/ reader.at # "ended" => c \in Connects
  BY <1>1 DEF PortInv, BytesInv, Connects
<1>3. CASE Select
  <2>1. /\ UNCHANGED <<dev, sock, reader, rx, handled>> /\ main.at = "usb"
        /\ main' = [main EXCEPT !.at = "accept", !.listen = backlog # <<>>,
                          !.fd = IF Readable(dev.rx) THEN dev.rx ELSE 0]
    BY <1>3 DEF Select, rvars
  <2>2. main'.at = "accept" BY <1>1, <2>1 DEF Main
  <2> QED BY <2>1, <2>2, ReadFrame
<1>4. CASE DeviceAcceptSocket
  <2>1. main.at = "accept" /\ UNCHANGED <<reader, rx, handled>> BY <1>4 DEF DeviceAcceptSocket
  <2>2. CASE ~main.listen
    <3>1. main' = ToSockets(dev.rx) /\ UNCHANGED <<dev, sock>>
      BY <1>4, <2>2 DEF DeviceAcceptSocket
    <3>2. main'.at \in {"recv", "usb"} BY <1>1, <3>1, ToSocketsType
    <3> QED BY <2>1, <3>1, <3>2, ReadFrame
  <2>3. CASE main.listen
    <3> DEFINE s == Head(backlog)
    <3>1. s \in Connects BY <1>1, <2>1, <2>3, Taking DEF PortInv
    <3>2. s \in 0..MaxConnects BY <1>1, <3>1 DEF Connects
    <3>3. /\ \/ dev' = dev /\ main' = ToSockets(dev.rx)
             \/ dev' = [dev EXCEPT !.rx = s] /\ main' = ToSockets(s)
          /\ \E a \in {"none", "backlog", "open", "closed"} : sock' = [sock EXCEPT ![s].main = a]
      BY <1>4, <2>3 DEF DeviceAcceptSocket
    <3> HIDE DEF s
    <3>4. main'.at \in {"recv", "usb"} BY <1>1, <3>2, <3>3, ToSocketsType
    <3>5. dev'.connect = dev.connect /\ dev'.here = dev.here BY <1>1, <3>2, <3>3 DEF Device
    <3>6. \A g \in Connects : sock'[g].toMain = sock[g].toMain
                              /\ sock'[g].toThread = sock[g].toThread
      BY <1>1, <3>1, <3>3, EndOfPair
    <3> QED BY <2>1, <3>4, <3>5, <3>6, ReadFrame
  <2> QED BY <1>1, <2>2, <2>3 DEF Main
<1>5. CASE ReadResult
  <2>1. /\ main.at = "recv" /\ UNCHANGED <<dev, reader, handled>> /\ main.fd = c /\ dev.here
        /\ c \in Connects
    BY <1>2, <1>5 DEF ReadResult, AcceptInv, LoopInv
  <2>2. CASE sock[c].toMain = 0
    <3>1. main' = At0("usb") /\ UNCHANGED <<sock, rx>> BY <1>5, <2>1, <2>2 DEF ReadResult
    <3>2. main'.at = "usb" BY <3>1 DEF At0
    <3> QED BY <2>1, <3>1, <3>2, ReadFrame
  <2>3. CASE sock[c].toMain # 0
    <3>1. sock[c] \in Pair /\ sock[c].toMain = 1 /\ sock[c].toThread = 0
      <4>1. sock[c] \in Pair BY <1>1, <2>1
      <4>2. sock[c].toMain \in 0..1 BY <4>1 DEF Pair
      <4>3. sock[c].toMain = 0 \/ sock[c].toThread = 0 BY <2>1 DEF BytesInv
      <4> QED BY <2>3, <4>1, <4>2, <4>3
    <3>2. reader.at = "told"
      <4>1. reader.at \notin {"starting", "waiting"} BY <1>1, <3>1 DEF BytesInv, Quiet
      <4>2. reader.at # "ended" BY <1>1, <2>1, <3>1 DEF HandshakeInv, Now
      <4> QED BY <1>1, <4>1, <4>2 DEF Thread
    <3>3. sock' = [sock EXCEPT ![c].toMain = @ - 1] BY <1>5, <2>1, <2>3 DEF ReadResult
    <3>4. sock'[c].toMain = 0 BY <1>1, <2>1, <3>1, <3>3 DEF Pair
    <3>5. CASE rx' = [rx EXCEPT !.size = TRUE] /\ main' = [main EXCEPT !.at = "handling"]
               /\ (rx.size \/ rx.transfer = "done")
      <4>1. rx.transfer = "done" BY <3>5 DEF BytesInv
      <4>2. main'.at = "handling" BY <1>1, <3>5 DEF Main
      <4>3. rx'.transfer = "done" /\ rx'.read = rx.read BY <1>1, <3>5, <4>1 DEF Transfer
      <4>4. HandshakeInv' BY <2>1, <3>2, <4>2, <4>3 DEF HandshakeInv
      <4>5. Unhandled BY <3>1, <3>2, <4>1 DEF Unhandled, Now
      <4>6. DataInv' BY <1>1, <2>1, <4>3, <4>5 DEF DataInv
      <4> QED BY <4>4, <4>6 DEF ReadInv
    <3>6. CASE rx' = rx /\ main' = At0("usb") /\ rx.transfer # "done"
      <4>1. main'.at = "usb" BY <3>6 DEF At0
      <4>2. HandshakeInv' BY <1>1, <2>1, <3>2, <3>6, <4>1 DEF HandshakeInv
      <4>3. ~Unhandled' BY <3>6 DEF Unhandled
      <4>4. DataInv' BY <1>1, <2>1, <3>6, <4>3 DEF DataInv
      <4> QED BY <4>2, <4>4 DEF ReadInv
    <3> QED BY <1>5, <2>1, <2>3, <3>5, <3>6 DEF ReadResult
  <2> QED BY <2>2, <2>3
<1>6. CASE Handle
  <2>1. /\ main.at = "handling" /\ UNCHANGED <<dev, reader, rx>> /\ main' = At0("usb")
        /\ handled' = Append(handled, rx.read)
        /\ sock' = [sock EXCEPT ![main.fd].toThread = @ + 1]
    BY <1>6 DEF Handle, Answer
  <2>2. /\ main.fd = c /\ dev.here /\ reader.at = "told" /\ rx.transfer = "done" /\ rx.read > 0
        /\ sock[c].toMain = 0 /\ sock[c].toThread = 0 /\ c \in Connects /\ main'.at = "usb"
    BY <1>1, <1>2, <2>1 DEF AcceptInv, LoopInv, HandshakeInv, BytesInv, Quiet, At0
  <2>3. sock'[c].toMain = 0 /\ sock'[c].toThread = 1
    <3>1. sock[c] \in Pair BY <1>1, <2>2
    <3> QED BY <1>1, <2>1, <2>2, <3>1 DEF Pair
  <2>4. HandshakeInv' BY <1>1, <2>1, <2>2, <2>3 DEF HandshakeInv, Quiet
  <2>5. ~Unhandled' BY <2>1, <2>2, <2>3 DEF Unhandled, Now
  <2> DEFINE r == rx.read
             n == Len(handled)
  <2>6. Unhandled BY <2>1, <2>2 DEF Unhandled
  <2>7. /\ n \in Nat /\ Len(handled') = n + 1 /\ handled'[n + 1] = r /\ r \in Int
        /\ \A i \in 1 .. n : handled'[i] = handled[i] /\ handled[i] \in Int
    <3>1. r \in 1..MaxReads BY <1>1, <2>2
    <3> QED BY <1>1, <2>1, <3>1, Adding
  <2>8. /\ \A i \in 1 .. n : handled[i] < r
        /\ \A i, j \in 1 .. n : i < j => handled[i] < handled[j]
    BY <1>1, <2>6 DEF DataInv
  <2> HIDE DEF n, r
  <2>9. \A i \in 1 .. n + 1 : i \in 1 .. n \/ i = n + 1 BY <2>7
  <2>10. \A i \in 1 .. n + 1 : handled'[i] <= r BY <2>7, <2>8, <2>9
  <2>11. \A i, j \in 1 .. n + 1 : i < j => handled'[i] < handled'[j]
    <3> SUFFICES ASSUME NEW i \in 1 .. n + 1, NEW j \in 1 .. n + 1, i < j
                 PROVE  handled'[i] < handled'[j]
      OBVIOUS
    <3>1. i \in 1 .. n BY <2>7
    <3>2. CASE j \in 1 .. n BY <2>7, <2>8, <3>1, <3>2
    <3>3. CASE j = n + 1 BY <2>7, <2>8, <3>1, <3>3
    <3> QED BY <2>9, <3>2, <3>3
  <2>12. DataInv'
    <3>1. rx'.read = r BY <2>1 DEF r
    <3> QED BY <2>5, <2>7, <2>10, <2>11, <3>1 DEF DataInv
  <2> QED BY <2>4, <2>12 DEF ReadInv
<1>7. CASE Connect
  <2> DEFINE g == dev.connect + 1
  <2>1. /\ main.at = "usb" /\ UNCHANGED <<main, rx, handled>>
        /\ reader' = [at |-> "starting", of |-> g]
    BY <1>7 DEF Connect
  <2>2. reader'.at = "starting" BY <2>1
  <2>3. HandshakeInv' BY <1>1, <2>1, <2>2 DEF HandshakeInv
  <2>4. ~Unhandled' BY <2>1, <2>2 DEF Unhandled
  <2>5. DataInv' BY <1>1, <2>1, <2>4 DEF DataInv
  <2> QED BY <2>3, <2>5 DEF ReadInv
<1>8. CASE Disconnect
  <2>1. /\ main.at = "usb" /\ UNCHANGED <<reader, rx, handled>>
        /\ dev' = [dev EXCEPT !.here = FALSE, !.rx = 0, !.stop = dev.reads]
        /\ sock' = IF dev.rx = 0 THEN sock ELSE [sock EXCEPT ![dev.rx].main = "closed"]
        /\ main' = [main EXCEPT !.at = IF dev.reads THEN "joinReader" ELSE "stopWriter"]
    BY <1>8 DEF Disconnect
  <2>2. main'.at \in {"joinReader", "stopWriter"} BY <1>1, <2>1 DEF Main
  <2>3. dev'.connect = dev.connect /\ dev'.here = FALSE BY <1>1, <2>1 DEF Device
  <2>4. \A s \in Connects : sock'[s].toMain = sock[s].toMain /\ sock'[s].toThread = sock[s].toThread
    <3>1. CASE dev.rx = 0 BY <2>1, <3>1
    <3>2. CASE dev.rx # 0
      <4>1. \E a \in {"none", "backlog", "open", "closed"} : sock' = [sock EXCEPT ![dev.rx].main = a]
        BY <2>1, <3>2
      <4>2. dev.rx \in Connects BY <1>1, <3>2 DEF Connects
      <4> QED BY <1>1, <4>1, <4>2, EndOfPair
    <3> QED BY <3>1, <3>2
  <2> QED BY <2>1, <2>2, <2>3, <2>4, ReadFrame
<1>9. CASE JoinReader
  <2>1. /\ main.at = "joinReader" /\ UNCHANGED <<dev, sock, rx, handled>>
        /\ main' = [main EXCEPT !.at = "stopWriter"] /\ reader' = [reader EXCEPT !.at = "ended"]
    BY <1>9 DEF JoinReader
  <2>2. main'.at = "stopWriter" /\ reader'.at = "ended" BY <1>1, <2>1 DEF Main, Thread
  <2>3. ~dev.here BY <2>1 DEF PortInv, Closing
  <2>4. HandshakeInv' BY <1>1, <2>1, <2>2, <2>3 DEF HandshakeInv
  <2>5. ~Unhandled' BY <2>2 DEF Unhandled
  <2>6. DataInv' BY <1>1, <2>1, <2>5 DEF DataInv
  <2> QED BY <2>4, <2>6 DEF ReadInv
<1>10. CASE StopWriter \/ WakeWriter \/ JoinWriter
  <2>1. /\ UNCHANGED <<dev, sock, reader, rx, handled>> /\ main.at \in {"stopWriter", "wakeWriter", "joinWriter"}
        /\ \E a \in Closing \cup {"undefined"} : main' = [main EXCEPT !.at = a] \/ main' = At0(a)
    BY <1>10 DEF StopWriter, WakeWriter, JoinWriter, rvars, Closing
  <2>2. main'.at \in Closing \cup {"undefined"} BY <1>1, <2>1 DEF At0, Main
  <2> QED BY <2>1, <2>2, ReadFrame DEF Closing
<1>11. CASE Close
  <2>1. /\ main.at = "close" /\ UNCHANGED <<reader, handled>> /\ main' = At0("usb")
        /\ rx' = IF rx.transfer = "pending"
                 THEN [rx EXCEPT !.transfer = "failed", !.event = TRUE] ELSE rx
        /\ \E manual \in BOOLEAN :
             dev' = [dev EXCEPT !.open = FALSE, !.reads = FALSE, !.freed = manual]
    BY <1>11 DEF Close
  <2>2. main'.at = "usb" /\ dev.here = FALSE /\ reader.at = "ended"
    BY <1>1, <2>1 DEF At0, PortInv, Closing, BytesInv, Device
  <2>3. dev'.here = FALSE BY <1>1, <2>1, <2>2 DEF Device
  <2>4. rx'.read = rx.read /\ (rx'.event => rx'.transfer \in {"done", "failed"})
    <3>1. CASE rx.transfer = "pending"
      <4>1. rx' = [rx EXCEPT !.transfer = "failed", !.event = TRUE] BY <2>1, <3>1
      <4> QED BY <1>1, <4>1 DEF Transfer
    <3>2. CASE rx.transfer # "pending" BY <1>1, <2>1, <3>2 DEF HandshakeInv
    <3> QED BY <3>1, <3>2
  <2>5. HandshakeInv' BY <2>1, <2>2, <2>3, <2>4 DEF HandshakeInv
  <2>6. ~Unhandled' BY <2>1, <2>2 DEF Unhandled
  <2>7. DataInv' BY <1>1, <2>1, <2>4, <2>6 DEF DataInv
  <2> QED BY <2>5, <2>7 DEF ReadInv
<1>12. CASE SendUndefined
  <2>1. /\ UNCHANGED <<dev, sock, reader, rx, handled>> /\ main'.at = "undefined"
    BY <1>12 DEF SendUndefined, rvars, At0
  <2> QED BY <2>1, ReadFrame
<1>13. CASE Send \/ Writer \/ UNCHANGED vars \/ \E e \in Elements : SendCompletes(e)
  <2>1. UNCHANGED <<main, dev, sock, reader, rx, handled>>
    BY <1>13 DEF Send, Writer, SendCompletes, rvars, vars
  <2> QED BY <2>1, ReadFrame
<1> QED
  BY <1>3, <1>4, <1>5, <1>6, <1>7, <1>8, <1>9, <1>10, <1>11, <1>12, <1>13, ReaderReads
  DEF Next, MainLoop, Usb

\* There is no read thread at first.
LEMMA ReadInit == Init => AcceptInv /\ ReadInv
<1> SUFFICES ASSUME Init PROVE AcceptInv /\ ReadInv
  OBVIOUS
<1>1. Len(backlog) = 0 /\ Len(handled) = 0 /\ 0 <= 0 BY DEF Init
<1>2. BacklogInv BY <1>1 DEF Init, BacklogInv
<1>3. LoopInv BY DEF Init, LoopInv
<1>4. HandshakeInv BY DEF Init, HandshakeInv
<1>5. DataInv BY <1>1 DEF DataInv
<1> QED BY <1>2, <1>3, <1>4, <1>5 DEF AcceptInv, ReadInv

TransferInv == PortInv /\ WriteInv /\ BytesInv /\ AcceptInv /\ ReadInv

\* The whole inductive invariant of the transfers, where there is room for the pair
\* of every connect; without it the last pair is refused and the earlier one stays.
THEOREM TransferInvCorrect == ASSUME Room PROVE Spec => []TransferInv
<1>1. Init => TransferInv BY WriteInit, BytesInit, ReadInit DEF TransferInv
<1>2. TransferInv /\ [Next]_vars => TransferInv'
  BY PortStep, WriteStep, BytesStep, AcceptStep, ReadStep DEF TransferInv
<1> QED BY <1>1, <1>2, PTL DEF Spec

\* What one read transfer brought is handled once and in order, over any number of
\* connects (device.cpp:437-464, usb-mce.cpp:971-987).
THEOREM HandledCorrect == ASSUME Room PROVE Spec => []HandledOnceInOrder
<1>1. TransferInv => HandledOnceInOrder
  <2>1. TransferInv => DOMAIN handled = 1 .. Len(handled) BY DEF TransferInv, BytesInv
  <2> QED BY <2>1 DEF TransferInv, ReadInv, DataInv, HandledOnceInOrder
<1> QED BY <1>1, TransferInvCorrect, PTL

\* The main loop handles rx.buffer for the thread of the open port only, and while no
\* transfer is under way into it (usbmuxd.cpp:448-465, device.cpp:376-419).
THEOREM OwnTransferCorrect == ASSUME Room PROVE Spec => []HandlesOwnTransfer
<1>1. TransferInv => HandlesOwnTransfer
  BY DEF TransferInv, AcceptInv, LoopInv, ReadInv, HandshakeInv, HandlesOwnTransfer
<1> QED BY <1>1, TransferInvCorrect, PTL

\* A read thread that told the main loop of data has its byte on the way or is being
\* answered.  Only one whose transfer failed may have lost its byte
\* (device.cpp:437-494, usb-mce.cpp:960-987).
THEOREM HandshakeCorrect == ASSUME Room PROVE Spec => []HandshakeAlive
<1>1. TransferInv => HandshakeAlive
  <2> SUFFICES ASSUME TransferInv, reader.at = "told", dev.here, rx.transfer # "failed",
                      main.at # "undefined", main.at # "handling"
               PROVE  sock[reader.of].toMain + sock[reader.of].toThread = 1
    <3>1. TransferInv /\ main.at = "handling" => main.fd = reader.of
      BY DEF TransferInv, AcceptInv, LoopInv, BytesInv
    <3> QED BY <3>1 DEF HandshakeAlive, ByteUnderWay
  <2>1. reader.of = dev.connect /\ dev.connect \in Connects /\ sock \in [Connects -> Pair]
    BY TransferAssumption DEF TransferInv, BytesInv, PortInv, Device, Connects
  <2>2. sock[dev.connect].toMain \in 0..1 /\ sock[dev.connect].toThread \in 0..1
    BY <2>1 DEF Pair
  <2>3. ~Quiet(dev.connect) BY DEF TransferInv, ReadInv, HandshakeInv
  <2>4. sock[dev.connect].toMain = 0 \/ sock[dev.connect].toThread = 0
    BY <2>1 DEF TransferInv, BytesInv
  <2> QED BY <2>1, <2>2, <2>3, <2>4 DEF Quiet
<1> QED BY <1>1, TransferInvCorrect, PTL

-----------------------------------------------------------------------------
(***************************************************************************)
(* The transfers implement ReadSlot: each step of a thread is one step of  *)
(* the buffer, or none.                                                    *)
(***************************************************************************)

\* A transfer under way belongs to a port that is open, whose thread waits for it and
\* starts no other.
PendingInv == rx.transfer = "pending" => dev.open /\ reader.at # "starting"

LEMMA PendingStep == TransferInv /\ PendingInv /\ [Next]_vars => PendingInv'
<1> SUFFICES ASSUME TransferInv, PendingInv, [Next]_vars PROVE PendingInv'
  OBVIOUS
<1>1. /\ rx \in Transfer /\ reader \in Thread /\ dev \in Device /\ HandshakeInv /\ PortInv
      /\ dev.connect \in 0..MaxConnects /\ MaxConnects \in Nat
  BY TransferAssumption DEF TransferInv, BytesInv, PortInv, ReadInv, Device
<1>2. reader.at # "ended" => dev.open BY DEF TransferInv, BytesInv
<1>3. CASE Reader
  <2>1. dev'.open = dev.open BY <1>1, <1>3 DEF Reader, StartRead, ReaderWakes, ReaderAnswered, Device
  <2>2. CASE StartRead
    <3>1. reader'.at # "starting" /\ dev.open BY <1>1, <1>2, <2>2 DEF StartRead, Thread
    <3> QED BY <2>1, <3>1 DEF PendingInv
  <2>3. CASE ReaderWakes
    <3>1. rx'.transfer = rx.transfer /\ reader'.at # "starting"
      BY <1>1, <2>3 DEF ReaderWakes, Transfer, Thread, Told
    <3> QED BY <2>1, <3>1 DEF PendingInv
  <2>4. CASE ReaderAnswered
    <3>1. rx' = rx /\ rx.transfer # "pending" BY <1>1, <2>4 DEF ReaderAnswered, HandshakeInv
    <3> QED BY <3>1 DEF PendingInv
  <2> QED BY <1>3, <2>2, <2>3, <2>4 DEF Reader
<1>4. CASE ReadCompletes
  <2>1. rx'.transfer # "pending" BY <1>1, <1>4 DEF ReadCompletes, Transfer
  <2> QED BY <2>1 DEF PendingInv
<1>5. CASE Connect
  <2>1. UNCHANGED rx /\ ~dev.open BY <1>5 DEF Connect
  <2> QED BY <2>1 DEF PendingInv
<1>6. CASE Close
  <2>1. rx'.transfer # "pending" BY <1>1, <1>6 DEF Close, Transfer
  <2> QED BY <2>1 DEF PendingInv
<1>7. CASE JoinReader
  <2>1. UNCHANGED <<rx, dev>> /\ reader'.at = "ended" BY <1>1, <1>7 DEF JoinReader, Thread
  <2> QED BY <2>1 DEF PendingInv
<1>8. CASE \/ MainLoop \/ Disconnect \/ StopWriter \/ WakeWriter \/ JoinWriter \/ Send \/ SendUndefined
           \/ Writer \/ UNCHANGED vars \/ \E e \in Elements : SendCompletes(e)
  <2>1. UNCHANGED reader /\ dev'.open = dev.open /\ rx'.transfer = rx.transfer
    BY <1>1, <1>8 DEF MainLoop, Select, DeviceAcceptSocket, ReadResult, Handle, Disconnect,
         StopWriter, WakeWriter, JoinWriter, Send, SendUndefined, Writer, SendCompletes, rvars, vars, Device,
         Transfer
  <2> QED BY <2>1 DEF PendingInv
<1> QED BY <1>3, <1>4, <1>5, <1>6, <1>7, <1>8 DEF Next, Usb

\* A step that moves neither the read thread nor its transfer leaves the buffer alone.
LEMMA SlotFrame ==
  ASSUME PortInv, BytesInv, UNCHANGED <<reader, rx, handled>>, dev'.here = dev.here,
         \A s \in Connects : sock'[s].toThread = sock[s].toThread
  PROVE  UNCHANGED Slot!vars
<1>1. reader.at = "told" => reader.of \in Connects
  BY TransferAssumption DEF BytesInv, PortInv, Device, Connects, Thread
<1>2. Brought' = Brought BY <1>1 DEF Brought
<1> QED BY <1>2 DEF Slot!vars

\* The read thread and its transfers.
LEMMA ReaderSlot ==
  ASSUME TransferInv, PendingInv, Reader \/ ReadCompletes
  PROVE  Slot!Next \/ UNCHANGED Slot!vars
<1> DEFINE c == dev.connect
<1>1. /\ reader.of = c /\ sock \in [Connects -> Pair] /\ rx \in Transfer /\ reader \in Thread
      /\ dev \in Device /\ HandshakeInv /\ rx.read \in Nat
      /\ PortInv /\ BytesInv /\ AcceptInv
      /\ dev.here => c \in Connects
      /\ reader.at # "ended" => c \in Connects
  BY TransferAssumption DEF TransferInv, ReadInv, BytesInv, PortInv, Device, Connects, Transfer
<1>2. dev.here => sock[c].main # "closed" BY <1>1 DEF AcceptInv, BacklogInv, Now
<1>3. UNCHANGED handled /\ dev'.here = dev.here
  BY <1>1 DEF Reader, StartRead, ReaderWakes, ReaderAnswered, ReadCompletes, Device
<1>4. ASSUME Brought = 0, rx'.read = rx.read + 1,
             Brought' = IF dev.here THEN rx'.read ELSE 0
      PROVE  Slot!Next
  BY <1>3, <1>4 DEF Slot!Next, Slot!Bring
<1>5. ASSUME Brought' = Brought, rx'.read = rx.read PROVE UNCHANGED Slot!vars
  BY <1>3, <1>5 DEF Slot!vars
<1>6. CASE StartRead
  <2>1. reader.at = "starting" /\ Brought = 0 BY <1>6 DEF StartRead, Brought
  <2>2. \/ rx' = [rx EXCEPT !.transfer = "done", !.event = TRUE, !.size = TRUE, !.read = @ + 1]
           /\ reader'.at = "waiting"
        \/ rx' = NewRead \/ rx' = [NewRead EXCEPT !.transfer = "failed"]
    BY <1>1, <1>6 DEF StartRead, Thread
  <2>3. CASE rx' = [rx EXCEPT !.transfer = "done", !.event = TRUE, !.size = TRUE, !.read = @ + 1]
             /\ reader'.at = "waiting"
    <3>1. rx'.transfer = "done" /\ rx'.read = rx.read + 1 BY <1>1, <2>3 DEF Transfer
    <3>2. Brought' = IF dev.here THEN rx'.read ELSE 0 BY <1>3, <2>3, <3>1 DEF Brought
    <3> QED BY <1>4, <2>1, <3>1, <3>2
  <2>4. CASE rx' = NewRead \/ rx' = [NewRead EXCEPT !.transfer = "failed"]
    <3>1. rx'.transfer # "done" /\ rx'.read = rx.read BY <1>1, <2>4 DEF NewRead, Transfer
    <3>2. Brought' = 0 BY <3>1 DEF Brought
    <3> QED BY <1>5, <2>1, <3>1, <3>2
  <2> QED BY <2>2, <2>3, <2>4
<1>7. CASE ReadCompletes
  <2>1. rx.transfer = "pending" /\ UNCHANGED <<reader, sock>> /\ Brought = 0
    BY <1>7 DEF ReadCompletes, Brought
  <2>2. dev.here => reader.at \in {"starting", "waiting"}
    BY <1>1, <2>1 DEF HandshakeInv, Thread
  <2>3. dev.here => reader.at = "waiting" BY <2>1, <2>2 DEF PendingInv
  <2>4. \/ rx'.transfer = "done" /\ rx'.read = rx.read + 1
        \/ rx'.transfer = "failed" /\ rx'.read = rx.read
    BY <1>1, <1>7 DEF ReadCompletes, Transfer
  <2>5. CASE rx'.transfer = "done" /\ rx'.read = rx.read + 1
    <3>1. Brought' = IF dev.here THEN rx'.read ELSE 0 BY <1>3, <2>1, <2>3, <2>5 DEF Brought
    <3> QED BY <1>4, <2>1, <2>5, <3>1
  <2>6. CASE rx'.transfer = "failed" /\ rx'.read = rx.read
    <3>1. Brought' = 0 BY <2>6 DEF Brought
    <3> QED BY <1>5, <2>1, <2>6, <3>1
  <2> QED BY <2>4, <2>5, <2>6
<1>8. CASE ReaderWakes
  <2>1. reader.at = "waiting" /\ sock[c].toThread = 0 /\ rx'.transfer = rx.transfer
        /\ rx'.read = rx.read
    BY <1>1, <1>8 DEF ReaderWakes, BytesInv, Quiet, Transfer
  <2>2. dev.here => /\ reader' = [reader EXCEPT !.at = "told"]
                    /\ sock' = [sock EXCEPT ![c].toMain = @ + 1]
    BY <1>1, <1>2, <1>8 DEF ReaderWakes, PortInv, PeerClosed, Told
  <2>3. dev.here => reader'.at = "told" /\ reader'.of = c /\ sock'[c].toThread = 0
    BY <1>1, <2>1, <2>2 DEF Thread, Pair
  <2>4. Brought' = Brought BY <1>3, <2>1, <2>3 DEF Brought
  <2> QED BY <1>5, <2>1, <2>4
<1>9. CASE ReaderAnswered
  <2>1. UNCHANGED rx /\ reader.at = "told" BY <1>9 DEF ReaderAnswered
  <2>2. dev.here => sock[c].toThread > 0 /\ reader'.at = "starting"
    BY <1>1, <1>2, <1>9 DEF ReaderAnswered, PeerClosed, Thread
  <2>3. Brought = 0 /\ Brought' = 0 BY <1>1, <1>3, <2>1, <2>2 DEF Brought, Pair
  <2> QED BY <1>5, <2>1, <2>3
<1> QED BY <1>6, <1>7, <1>8, <1>9 DEF Reader

\* Every step.
LEMMA SlotStep == TransferInv /\ PendingInv /\ [Next]_vars => [Slot!Next]_Slot!vars
<1> SUFFICES ASSUME TransferInv, PendingInv, [Next]_vars
             PROVE  Slot!Next \/ UNCHANGED Slot!vars
  BY DEF Slot!vars
<1> DEFINE c == dev.connect
<1>1. /\ reader.of = c /\ sock \in [Connects -> Pair] /\ rx \in Transfer /\ reader \in Thread
      /\ dev \in Device /\ HandshakeInv /\ rx.read \in Nat /\ c \in 0..MaxConnects
      /\ PortInv /\ BytesInv /\ LoopInv /\ main.fd \in 0..MaxConnects /\ MaxConnects \in Nat
  BY TransferAssumption
  DEF TransferInv, ReadInv, AcceptInv, BytesInv, PortInv, Device, Transfer, Main
<1>2. reader.at # "ended" => c \in Connects BY <1>1 DEF PortInv, BytesInv, Connects
<1>3. CASE Reader \/ ReadCompletes BY <1>3, ReaderSlot
<1>4. CASE \/ Select \/ DeviceAcceptSocket \/ StopWriter \/ WakeWriter \/ JoinWriter \/ Send \/ SendUndefined
           \/ Writer \/ UNCHANGED vars \/ \E e \in Elements : SendCompletes(e)
  <2>1. /\ UNCHANGED <<reader, rx, handled>>
        /\ dev' = dev \/ \E s \in Connects : dev' = [dev EXCEPT !.rx = s]
        /\ sock' = sock \/ \E s \in Connects, m \in {"open", "closed"} :
                             sock' = [sock EXCEPT ![s].main = m]
    <3>1. CASE DeviceAcceptSocket
      <4>1. /\ UNCHANGED <<reader, rx, handled>>
            /\ \/ UNCHANGED <<dev, sock>>
               \/ LET s == Head(backlog)
                  IN /\ main.listen
                     /\ dev' = dev \/ dev' = [dev EXCEPT !.rx = s]
                     /\ sock' = [sock EXCEPT ![s].main = "open"]
                          \/ sock' = [sock EXCEPT ![s].main = "closed"]
        BY <3>1 DEF DeviceAcceptSocket
      <4>2. main.at = "accept" BY <3>1 DEF DeviceAcceptSocket
      <4>3. main.listen => Head(backlog) \in Connects
        BY <1>1, <4>2, Taking DEF PortInv
      <4> QED BY <4>1, <4>3
    <3>2. CASE ~DeviceAcceptSocket
      BY <1>4, <3>2 DEF Select, StopWriter, WakeWriter, JoinWriter, Send, SendUndefined, Writer,
           SendCompletes, rvars, vars
    <3> QED BY <3>1, <3>2
  <2>2. dev'.here = dev.here BY <1>1, <2>1 DEF Device
  <2>3. \A s \in Connects : sock'[s].toThread = sock[s].toThread BY <1>1, <2>1 DEF Pair
  <2> QED BY <1>1, <2>1, <2>2, <2>3, SlotFrame
<1>5. CASE ReadResult
  <2>1. /\ UNCHANGED <<dev, reader, handled>>
        /\ rx' = rx \/ rx' = [rx EXCEPT !.size = TRUE]
        /\ sock' = sock \/ sock' = [sock EXCEPT ![main.fd].toMain = @ - 1]
    BY <1>5 DEF ReadResult
  <2>2. \A s \in Connects : sock'[s].toThread = sock[s].toThread BY <1>1, <2>1 DEF Pair
  <2>3. rx'.transfer = rx.transfer /\ rx'.read = rx.read BY <1>1, <2>1 DEF Transfer
  <2>4. Brought' = Brought BY <1>1, <1>2, <2>1, <2>2, <2>3 DEF Brought
  <2> QED BY <2>1, <2>3, <2>4 DEF Slot!vars
<1>6. CASE Handle
  <2>1. /\ main.at = "handling" /\ handled' = Append(handled, rx.read)
        /\ sock' = [sock EXCEPT ![main.fd].toThread = @ + 1]
        /\ UNCHANGED <<dev, reader, rx>>
    BY <1>6 DEF Handle, Answer
  <2>2. /\ dev.here /\ main.fd = c /\ reader.at = "told" /\ rx.transfer = "done" /\ rx.read > 0
        /\ c \in Connects /\ sock[c].toThread = 0
    BY <1>1, <1>2, <2>1 DEF LoopInv, HandshakeInv, BytesInv, Quiet
  <2>3. Brought = rx.read /\ rx.read # 0 BY <1>1, <2>2 DEF Brought
  <2>4. sock'[c].toThread = 1 BY <1>1, <2>1, <2>2 DEF Pair
  <2>5. Brought' = 0 BY <1>1, <2>1, <2>2, <2>4 DEF Brought
  <2> QED BY <2>1, <2>3, <2>5 DEF Slot!Next, Slot!Handle
<1>7. CASE Connect
  <2>1. /\ UNCHANGED <<rx, handled>> /\ reader'.at = "starting" /\ ~dev.open
        /\ dev' = [dev EXCEPT !.connect = c + 1, !.open = TRUE, !.here = TRUE, !.reads = TRUE,
                              !.stop = FALSE]
    BY <1>7 DEF Connect, ThreadStop
  <2>2. ~dev.here /\ dev'.here = TRUE /\ dev.here = FALSE BY <1>1, <2>1 DEF PortInv, Device
  <2>3. Brought = 0 /\ Brought' = 0 BY <2>1, <2>2 DEF Brought
  <2> QED BY <2>1, <2>2, <2>3 DEF Slot!Next, Slot!Connect
<1>8. CASE Disconnect
  <2>1. /\ UNCHANGED <<rx, handled>> /\ main.at = "usb" /\ dev.open
        /\ dev' = [dev EXCEPT !.here = FALSE, !.rx = 0, !.stop = dev.reads]
    BY <1>8 DEF Disconnect
  <2>2. dev.here = TRUE /\ dev'.here = FALSE BY <1>1, <2>1 DEF PortInv, Device, InLoop
  <2>3. Brought' = 0 BY <2>2 DEF Brought
  <2> QED BY <2>1, <2>2, <2>3 DEF Slot!Next, Slot!Remove
<1>9. CASE JoinReader \/ Close
  <2>1. main.at \in Closing /\ UNCHANGED handled BY <1>9 DEF JoinReader, Close, Closing
  <2>2. dev'.here = dev.here BY <1>1, <1>9 DEF JoinReader, Close, Device
  <2>3. rx'.read = rx.read BY <1>1, <1>9 DEF JoinReader, Close, Transfer
  <2>4. ~dev.here BY <1>1, <2>1 DEF PortInv
  <2>5. Brought = 0 /\ Brought' = 0 BY <2>2, <2>4 DEF Brought
  <2> QED BY <2>1, <2>2, <2>3, <2>5 DEF Slot!vars
<1> QED BY <1>3, <1>4, <1>5, <1>6, <1>7, <1>8, <1>9 DEF Next, MainLoop, Usb

\* The read thread, its socket and the main loop are a buffer for one transfer: none is
\* lost, overwritten or handled again while the device is connected
\* (usb-mce.cpp:955-987, device.cpp:437-464).
THEOREM ReadSpecCorrect == ASSUME Room PROVE Spec => ReadSpec
<1>1. Init => Slot!Init /\ PendingInv
  BY DEF Init, Slot!Init, Brought, PendingInv
<1>2. TransferInv /\ PendingInv /\ [Next]_vars => PendingInv' /\ [Slot!Next]_Slot!vars
  BY PendingStep, SlotStep
<1> QED BY <1>1, <1>2, TransferInvCorrect, PTL DEF Spec, ReadSpec, Slot!Spec

=============================================================================
