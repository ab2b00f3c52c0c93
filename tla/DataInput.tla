------------------------------ MODULE DataInput ------------------------------
(***************************************************************************)
(* How device_data_input finds the packets of a device in what the USB     *)
(* transfers bring (device.cpp 444-460 and 893-999).                       *)
(*                                                                         *)
(* The bytes of a device have numbers, and a buffer is an interval of      *)
(* them: the main loop has bytes from .. to - 1 of a transfer before it,   *)
(* and pktbuf holds the pktlen bytes before those.  One transfer is under  *)
(* way at a time, and each is handled once: that is what UsbTransfer is    *)
(* shown to do (ReadSpec).                                                 *)
(***************************************************************************)
EXTENDS Integers, Sequences

CONSTANTS
  UsbMru,       \* USB_MRU: how much of a longer packet one transfer has
  DevMru,       \* DEV_MRU: the size of pktbuf
  MaxPackets    \* how many packets the device sends

ASSUME InputAssumption ==
  UsbMru \in Nat \ {0} /\ DevMru \in Nat /\ DevMru >= UsbMru /\ MaxPackets \in Nat

VARIABLES
  turn,     \* who has the transfer: the "device" fills it, the "program" handles it
  sent,     \* history: the packets the device has begun to send
  split,    \* the last of them is sent in part
  from,     \* the bytes in the transfer, or left of it
  to,
  pktlen,   \* mux_device.pktlen
  given     \* history: the packets handed on, and where their payload ended

vars == <<turn, sent, split, from, to, pktlen, given>>

None == -1

\* A packet: its first byte, the length its header says, whether device_data_input knows
\* its protocol, and the first byte of the transfer it ends in.
End(n) == sent[n].first + sent[n].length
Complete(n) == sent[n].in # None

-----------------------------------------------------------------------------
(***************************************************************************)
(* The device.                                                             *)
(***************************************************************************)

\* A transfer with the end of a packet and another packet after it.  The program has no
\* way to handle it, and what it makes of those that follow is not described here.
Mixed ==
  \E n, m \in DOMAIN sent :
    /\ n < m /\ Complete(n) /\ sent[m].in = sent[n].in
    /\ sent[n].first < sent[n].in

MaySend == turn = "device" /\ ~split /\ Len(sent) < MaxPackets

\* A whole packet, alone or after others that the transfer has already.
PutWhole(size, known) ==
  /\ MaySend /\ to + size - from <= DevMru
  /\ from = to => ~Mixed
  /\ sent' = Append(sent, [first |-> to, length |-> size, known |-> known, in |-> from])
  /\ to' = to + size
  /\ UNCHANGED <<turn, split, from, pktlen, given>>

\* The first part of a longer packet.
PutFirst(size, known) ==
  /\ MaySend /\ from = to /\ ~Mixed /\ size > UsbMru
  /\ sent' = Append(sent, [first |-> to, length |-> size, known |-> known, in |-> None])
  /\ to' = to + UsbMru
  /\ split' = TRUE
  /\ UNCHANGED <<turn, from, pktlen, given>>

\* The next part of it.
PutNext ==
  /\ turn = "device" /\ split /\ from = to
  /\ LET n == Len(sent)
     IN IF End(n) > to + UsbMru
        THEN to' = to + UsbMru /\ UNCHANGED <<sent, split>>
        ELSE /\ to' = End(n)
             /\ sent' = [sent EXCEPT ![n].in = from]
             /\ split' = FALSE
  /\ UNCHANGED <<turn, from, pktlen, given>>

Deliver ==
  /\ turn = "device" /\ from < to
  /\ turn' = "program"
  /\ UNCHANGED <<sent, split, from, to, pktlen, given>>

Lengths == 1..DevMru
Device ==
  \/ \E size \in Lengths, known \in BOOLEAN : PutWhole(size, known) \/ PutFirst(size, known)
  \/ PutNext \/ Deliver

-----------------------------------------------------------------------------
(***************************************************************************)
(* The program.                                                            *)
(***************************************************************************)

\* device_process_sockets adds what a call returns to data_processed, until that has
\* reached the size of the transfer; then the thread is answered, and reads again.
Processed(returned) ==
  LET next == IF from + returned < to THEN from + returned ELSE to
  IN from' = next /\ turn' = IF next = to THEN "device" ELSE "program"

\* A buffer begins with the headers of a packet.
HeaderAt(byte) == CHOOSE n \in DOMAIN sent : sent[n].first = byte

\* What is left of the transfer, and the same with what pktbuf holds before it.
length == to - from
Buffer == from - pktlen
BufferLength == length + pktlen
HeaderLength == sent[HeaderAt(Buffer)].length

\* The first part of a packet that is longer than a transfer.
FirstPart == length = UsbMru /\ length < HeaderLength

\* The last part: a short transfer, or one that completes the packet.
BugLastPart == length < UsbMru
LastPart == length < UsbMru \/ HeaderLength = BufferLength

\* A buffer that begins with a whole packet.  What is handed on as its payload is
\* all that follows the headers in the buffer; only the length returned is the packet's,
\* and that counts what pktbuf held.  One of an unknown protocol is left with all
\* that follows it.
Dispatch ==
  LET n == HeaderAt(Buffer)
      fits == HeaderLength <= BufferLength
  IN /\ pktlen' = 0
     /\ IF fits /\ sent[n].known
        THEN /\ given' = Append(given, [packet |-> n, upto |-> to])
             /\ Processed(HeaderLength)
        ELSE /\ UNCHANGED given
             /\ Processed(BufferLength)

BugTooLarge == FALSE
TooLarge == BufferLength > DevMru

\* One call of device_data_input.
DeviceDataInput ==
  /\ turn = "program"
  /\ IF length > DevMru
     THEN Processed(length) /\ UNCHANGED <<pktlen, given>>
     ELSE IF pktlen # 0 /\ TooLarge
     THEN Processed(length) /\ pktlen' = 0 /\ UNCHANGED given
     ELSE IF (pktlen # 0 /\ ~LastPart) \/ (pktlen = 0 /\ FirstPart)
     THEN Processed(length) /\ pktlen' = BufferLength /\ UNCHANGED given
     ELSE Dispatch
  /\ UNCHANGED <<sent, split, to>>

\* The device is unplugged and comes back: device_add makes a new mux_device.  A packet
\* sent in part is not continued.
DeviceAdd ==
  /\ turn = "device" /\ from = to
  /\ split' = FALSE
  /\ pktlen' = 0
  /\ UNCHANGED <<turn, sent, from, to, given>>

-----------------------------------------------------------------------------

Init ==
  /\ turn = "device" /\ sent = <<>> /\ split = FALSE
  /\ from = 0 /\ to = 0 /\ pktlen = 0 /\ given = <<>>

Next == Device \/ DeviceDataInput \/ DeviceAdd

Spec == Init /\ [][Next]_vars

-----------------------------------------------------------------------------
(***************************************************************************)
(* Properties.                                                             *)
(***************************************************************************)

\* Every variable keeps its type, and what pktbuf holds fits into it, whatever the
\* device sends (device.cpp:921-927).
TypeOK ==
  /\ turn \in {"device", "program"} /\ split \in BOOLEAN
  /\ sent \in Seq([first : Nat, length : Lengths, known : BOOLEAN, in : Nat \cup {None}])
  /\ from \in Nat /\ to \in Nat /\ from <= to
  /\ pktlen \in 0..DevMru
  /\ given \in Seq([packet : 1..MaxPackets, upto : Nat])

\* A packet of a known protocol that is complete, unless one of an unknown protocol came
\* before it in the same transfer.
Due(n) ==
  /\ sent[n].known /\ Complete(n)
  /\ \A m \in DOMAIN sent : m < n /\ sent[m].in = sent[n].in => sent[m].known

Handed(n) == \E i \in DOMAIN given : given[i].packet = n

\* Packets cut into transfers, and whole packets in one transfer, are handed on once
\* each, in their order: when a transfer is processed, all that it completed, up to one
\* of an unknown protocol, and none that was cut short when the device was unplugged.
\* One that ends its transfer has its own payload and no more (device.cpp:444-449,
\* 893-999, 1016).  That is not so where the end of a cut packet is followed by another,
\* see NoneLost, and of the payload of one that is followed by others, see PayloadsOwn.
Reassembled ==
  from = to /\ ~Mixed =>
    /\ \A i, j \in DOMAIN given : i < j => given[i].packet < given[j].packet
    /\ \A n \in DOMAIN sent : Handed(n) <=> Due(n)
    /\ \A i \in DOMAIN given :
         \/ given[i].upto = End(given[i].packet)
         \/ \E m \in DOMAIN sent : m > given[i].packet /\ sent[m].in = sent[given[i].packet].in

\* device_data_input allows for a buffer that "contains more than one packet"
\* (device.cpp:994): each then has its own payload.
PayloadsOwn == \A i \in DOMAIN given : given[i].upto = End(given[i].packet)

\* And the caller goes on with what the call has left (device.cpp:444-449): if all are of
\* a known protocol, none that is complete is lost, unless it is in pktbuf.
NoneLost ==
  from = to /\ pktlen = 0 /\ (\A n \in DOMAIN sent : sent[n].known) =>
    \A n \in DOMAIN sent : Complete(n) => Handed(n)
=============================================================================
