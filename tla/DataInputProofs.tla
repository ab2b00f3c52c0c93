--------------------------- MODULE DataInputProofs ---------------------------
(***************************************************************************)
(* Packets are handed on once each and in their order, for any sizes of    *)
(* transfers and of pktbuf and any packets.  The proof needs to know where *)
(* the packets lie in the bytes of the device (Shape), which of them a     *)
(* transfer and pktbuf hold (Fill), and what was handed on of those before *)
(* (GivenInv).                                                             *)
(***************************************************************************)
EXTENDS DataInput, SequenceTheorems, TLAPS

PacketType == [first : Nat, length : Lengths, known : BOOLEAN, in : Nat \cup {None}]
GivenType == [packet : 1..MaxPackets, upto : Nat]

\* Packets lie one after the other, and only one that was cut short ends beyond the
\* beginning of the next.
Shape ==
  /\ Len(sent) <= MaxPackets
  /\ \A n, m \in DOMAIN sent :
       n < m => /\ sent[n].first < sent[m].first
                /\ Complete(n) => End(n) <= sent[m].first
  /\ \A n \in DOMAIN sent :
       /\ sent[n].first < to
       /\ Complete(n) => End(n) <= to /\ sent[n].in < to

\* The packets from h on fill what is left of a transfer, after the part of the first
\* that pktbuf holds.
Tiles(h) ==
  /\ h \in DOMAIN sent /\ sent[h].first = Buffer
  /\ \A n \in DOMAIN sent : n >= h <=> Complete(n) /\ End(n) > from
  /\ \A n \in h .. Len(sent) - 1 : sent[n + 1].first = End(n)
  /\ End(Len(sent)) = to
  /\ \A n \in h .. Len(sent) : sent[n].in = sent[h].in
  /\ sent[h].in <= from
  /\ turn = "device" => sent[h].in = from
  /\ pktlen # 0 => sent[h].in = from /\ sent[h].length > UsbMru
  /\ \A n \in DOMAIN sent : n < h /\ sent[n].in = sent[h].in => sent[n].known

\* A packet that is sent in part is the last: pktbuf and the transfer have all of it that
\* was sent.
Parted ==
  /\ Len(sent) \in DOMAIN sent /\ ~Complete(Len(sent))
  /\ sent[Len(sent)].first = Buffer /\ sent[Len(sent)].length > UsbMru
  /\ to < End(Len(sent)) /\ (from = to \/ to - from = UsbMru)

Fill ==
  /\ split => Parted
  /\ split \/ from = to => \A n \in DOMAIN sent : Complete(n) => End(n) <= from
  /\ ~split /\ from = to /\ ~Mixed => pktlen = 0
  /\ ~split /\ from < to => \E h \in DOMAIN sent : Tiles(h)
  /\ turn = "program" => from < to
  /\ to - from <= DevMru

\* What was handed on of the packets before.
GivenInv ==
  /\ \A i, j \in DOMAIN given : i < j => given[i].packet < given[j].packet
  /\ \A n \in DOMAIN sent : Handed(n) <=> Due(n) /\ End(n) <= from
  /\ \A i \in DOMAIN given :
       /\ given[i].packet \in DOMAIN sent
       /\ \/ given[i].upto = End(given[i].packet)
          \/ \E m \in DOMAIN sent : m > given[i].packet /\ sent[m].in = sent[given[i].packet].in

InputInv == TypeOK /\ Shape /\ Fill /\ (~Mixed => GivenInv)

\* The types in a form the steps use.
LEMMA Types ==
  ASSUME TypeOK
  PROVE  /\ sent \in Seq(PacketType) /\ given \in Seq(GivenType)
         /\ Len(sent) \in Nat /\ DOMAIN sent = 1..Len(sent)
         /\ \A n \in DOMAIN sent :
              /\ sent[n].first \in Nat /\ sent[n].length \in Nat /\ sent[n].length >= 1
              /\ sent[n].length <= DevMru /\ sent[n].known \in BOOLEAN
              /\ sent[n].in \in Nat \cup {None} /\ End(n) \in Nat /\ End(n) > sent[n].first
              /\ (Complete(n) <=> sent[n].in \in Nat)
         /\ from \in Nat /\ to \in Nat /\ pktlen \in Nat /\ pktlen <= DevMru
         /\ UsbMru \in Nat /\ UsbMru >= 1 /\ DevMru \in Nat /\ MaxPackets \in Nat
<1>1. sent \in Seq(PacketType) /\ given \in Seq(GivenType) BY DEF TypeOK, PacketType, GivenType
<1>2. DevMru \in Nat /\ UsbMru \in Nat /\ UsbMru >= 1 /\ MaxPackets \in Nat BY InputAssumption
<1>3. Len(sent) \in Nat /\ DOMAIN sent = 1..Len(sent) BY <1>1
<1>4. ASSUME NEW n \in DOMAIN sent
      PROVE  /\ sent[n].first \in Nat /\ sent[n].length \in Nat /\ sent[n].length >= 1
             /\ sent[n].length <= DevMru /\ sent[n].known \in BOOLEAN
             /\ sent[n].in \in Nat \cup {None} /\ End(n) \in Nat /\ End(n) > sent[n].first
             /\ (Complete(n) <=> sent[n].in \in Nat)
  <2>1. sent[n] \in PacketType BY <1>1, <1>3
  <2>2. /\ sent[n].first \in Nat /\ sent[n].length \in 1..DevMru /\ sent[n].known \in BOOLEAN
        /\ sent[n].in \in Nat \cup {None}
    BY <2>1 DEF PacketType, Lengths
  <2> QED BY <1>2, <2>2 DEF End, Complete, None
<1> QED BY <1>1, <1>2, <1>3, <1>4 DEF TypeOK

\* The headers at the beginning of a packet are its own.
LEMMA HeaderIs ==
  ASSUME TypeOK, Shape, NEW h \in DOMAIN sent
  PROVE  HeaderAt(sent[h].first) = h
<1>1. ASSUME NEW n \in DOMAIN sent, n # h PROVE sent[n].first # sent[h].first
  <2>1. n < h \/ h < n BY <1>1, Types
  <2>2. sent[n].first \in Nat /\ sent[h].first \in Nat BY Types
  <2> QED BY <2>1, <2>2 DEF Shape
<1> QED BY <1>1 DEF HeaderAt

\* A packet that follows the end of one cut into transfers makes the transfer a mixed one.
LEMMA MixedAfter ==
  ASSUME TypeOK, NEW h, Tiles(h), pktlen # 0, h # Len(sent)
  PROVE  Mixed
<1>1. h \in 1 .. Len(sent) /\ h + 1 \in DOMAIN sent /\ h + 1 \in h .. Len(sent)
  BY Types DEF Tiles
<1>2. /\ from \in Nat /\ pktlen \in Nat /\ h \in DOMAIN sent /\ h >= h /\ h < h + 1
  BY <1>1, Types DEF Tiles
<1>3. sent[h + 1].in = sent[h].in /\ Complete(h) BY <1>1, <1>2 DEF Tiles
<1>4. sent[h].first < sent[h].in BY <1>2 DEF Tiles, Buffer
<1> QED BY <1>1, <1>2, <1>3, <1>4 DEF Mixed

\* The packets of the device are only added to, and completed.
LEMMA Growing ==
  ASSUME TypeOK, NEW x \in PacketType, sent' = Append(sent, x)
  PROVE  /\ sent' \in Seq(PacketType) /\ Len(sent') = Len(sent) + 1
         /\ DOMAIN sent' = 1 .. Len(sent) + 1
         /\ sent'[Len(sent) + 1] = x /\ \A n \in DOMAIN sent : sent'[n] = sent[n]
<1>1. sent \in Seq(PacketType) /\ DOMAIN sent = 1..Len(sent) /\ Len(sent) \in Nat BY Types
<1> QED BY <1>1, AppendProperties

LEMMA MixedStays ==
  ASSUME TypeOK,
         DOMAIN sent \subseteq DOMAIN sent',
         \A n \in DOMAIN sent : Complete(n) => sent'[n] = sent[n]
  PROVE  Mixed => Mixed'
<1> SUFFICES ASSUME Mixed PROVE Mixed'
  OBVIOUS
<1>1. PICK n \in DOMAIN sent, m \in DOMAIN sent :
        n < m /\ Complete(n) /\ sent[m].in = sent[n].in /\ sent[n].first < sent[n].in
  BY DEF Mixed
<1>2. Complete(m) BY <1>1 DEF Complete
<1>3. sent'[n] = sent[n] /\ sent'[m] = sent[m] /\ n \in DOMAIN sent' /\ m \in DOMAIN sent'
  BY <1>1, <1>2
<1> QED BY <1>1, <1>3 DEF Mixed, Complete

\* While the device fills a transfer, what was handed on stays as it is.
LEMMA GivenStays ==
  ASSUME TypeOK, GivenInv, UNCHANGED <<given, from>>,
         DOMAIN sent \subseteq DOMAIN sent', DOMAIN sent' = 1 .. Len(sent'), Len(sent') \in Nat,
         \A n \in DOMAIN sent : Complete(n) => sent'[n] = sent[n],
         \A n \in DOMAIN sent : ~Complete(n) =>
           sent'[n] = sent[n] \/ (n = Len(sent) /\ ~(sent'[n].first + sent'[n].length <= from)),
         \A n \in DOMAIN sent' \ DOMAIN sent :
           ~(sent'[n].first + sent'[n].length <= from)
  PROVE  GivenInv'
<1>1. Len(sent) \in Nat /\ DOMAIN sent = 1..Len(sent) BY Types
<1>2. \A i \in DOMAIN given : given[i].packet \in DOMAIN sent /\ Complete(given[i].packet)
  <2> SUFFICES ASSUME NEW i \in DOMAIN given PROVE Complete(given[i].packet)
    BY DEF GivenInv
  <2>1. given[i].packet \in DOMAIN sent /\ Handed(given[i].packet) BY DEF GivenInv, Handed
  <2> QED BY <2>1 DEF GivenInv, Due
<1>3. ASSUME NEW n \in DOMAIN sent'
      PROVE  Handed(n)' <=> Due(n)' /\ End(n)' <= from
  <2>1. Handed(n)' <=> Handed(n) BY DEF Handed
  <2>2. CASE n \in DOMAIN sent /\ sent'[n] = sent[n]
    <3>2. ASSUME NEW m \in DOMAIN sent', m < n PROVE m \in DOMAIN sent /\ sent'[m] = sent[m]
      <4>1. m \in DOMAIN sent /\ m # Len(sent) BY <1>1, <2>2, <3>2
      <4> QED BY <4>1
    <3>3. \A m \in DOMAIN sent : m < n => m \in DOMAIN sent' /\ sent'[m] = sent[m]
      BY <3>2
    <3>4. Due(n)' <=> Due(n) BY <2>2, <3>2, <3>3 DEF Due, Complete
    <3>5. End(n)' = End(n) BY <2>2 DEF End
    <3> QED BY <2>1, <2>2, <3>4, <3>5 DEF GivenInv
  <2>3. CASE ~(n \in DOMAIN sent /\ sent'[n] = sent[n])
    <3>1. ~(End(n)' <= from) BY <2>3 DEF End
    <3>2. ~Handed(n) BY <1>2, <2>3 DEF Handed
    <3> QED BY <2>1, <3>1, <3>2
  <2> QED BY <2>2, <2>3
<1>4. ASSUME NEW i \in DOMAIN given
      PROVE  /\ given[i].packet \in DOMAIN sent'
             /\ \/ given[i].upto = End(given[i].packet)'
                \/ \E m \in DOMAIN sent' :
                     m > given[i].packet /\ sent'[m].in = sent'[given[i].packet].in
  <2>1. given[i].packet \in DOMAIN sent /\ sent'[given[i].packet] = sent[given[i].packet]
    BY <1>2
  <2>2. CASE given[i].upto = End(given[i].packet) BY <2>1, <2>2 DEF End
  <2>3. ASSUME NEW m \in DOMAIN sent, m > given[i].packet, sent[m].in = sent[given[i].packet].in
        PROVE  sent'[m].in = sent'[given[i].packet].in
    <3>1. Complete(m) BY <1>2, <2>3 DEF Complete
    <3> QED BY <2>1, <2>3, <3>1
  <2> QED BY <2>1, <2>2, <2>3 DEF GivenInv
<1> QED BY <1>3, <1>4 DEF GivenInv

\* A whole packet is put into the transfer.
LEMMA PutWholeStep ==
  ASSUME InputInv, NEW size \in Lengths, NEW known \in BOOLEAN, PutWhole(size, known)
  PROVE  InputInv'
<1>0. PICK k : k = Len(sent) + 1 OBVIOUS
<1> DEFINE x == [first |-> to, length |-> size, known |-> known, in |-> from]
<1>1. TypeOK /\ Shape /\ Fill BY DEF InputInv
<1>2. /\ turn = "device" /\ ~split /\ Len(sent) < MaxPackets
      /\ from = to => ~Mixed
      /\ to + size - from <= DevMru
      /\ sent' = Append(sent, x) /\ to' = to + size
      /\ UNCHANGED <<turn, split, from, pktlen, given>>
  BY DEF PutWhole, MaySend
<1>3. size \in Nat /\ size >= 1 /\ from \in Nat /\ to \in Nat /\ Len(sent) \in Nat /\ from <= to
      /\ DOMAIN sent = 1..Len(sent) /\ k \in Nat /\ pktlen \in Nat
      /\ k = Len(sent) + 1
  BY <1>0, <1>1, Types DEF Lengths, TypeOK
<1>4. x \in PacketType BY <1>3 DEF PacketType
<1>5. /\ sent' \in Seq(PacketType) /\ Len(sent') = k /\ DOMAIN sent' = 1..k
      /\ sent'[k] = x /\ \A n \in DOMAIN sent : sent'[n] = sent[n]
  BY <1>0, <1>1, <1>2, <1>4, Growing
<1>6. x.first = to /\ x.length = size /\ x.known = known /\ x.in = from OBVIOUS
<1> HIDE DEF x
<1>7. \A n \in 1..k : n \in DOMAIN sent \/ n = k BY <1>3
<1>8. k \notin DOMAIN sent /\ DOMAIN sent \subseteq 1..k /\ k \in 1..k BY <1>3
<1>9. \A n \in DOMAIN sent :
        /\ sent[n].first \in Nat /\ sent[n].length \in Nat /\ End(n) = sent[n].first + sent[n].length
        /\ sent[n].first < to /\ sent[n].in \in Nat \cup {None}
        /\ Complete(n) => End(n) <= to /\ sent[n].in < to
  BY <1>1, Types DEF Shape, End
<1>10. TypeOK'
  BY <1>1, <1>2, <1>3, <1>5 DEF TypeOK, PacketType
<1>11. Shape'
  <2>1. Len(sent') <= MaxPackets
    <3>1. k <= MaxPackets BY <1>2, <1>3, Types, <1>1
    <3> QED BY <1>5, <3>1
  <2>2. ASSUME NEW n \in DOMAIN sent', NEW m \in DOMAIN sent', n < m
        PROVE  /\ sent'[n].first < sent'[m].first
               /\ sent'[n].in # None => sent'[n].first + sent'[n].length <= sent'[m].first
    <3>1. n \in DOMAIN sent BY <1>3, <1>5, <2>2
    <3>2. CASE m \in DOMAIN sent
      BY <1>1, <1>5, <2>2, <3>1, <3>2 DEF Shape, Complete, End
    <3>3. CASE m = k
      BY <1>5, <1>6, <1>9, <3>1, <3>3 DEF Complete
    <3> QED BY <1>5, <1>7, <3>2, <3>3
  <2>3. ASSUME NEW n \in DOMAIN sent'
        PROVE  /\ sent'[n].first < to'
               /\ sent'[n].in # None => /\ sent'[n].first + sent'[n].length <= to' /\ sent'[n].in < to'
    <3>1. CASE n \in DOMAIN sent
      <4>1. sent'[n] = sent[n] BY <1>5, <3>1
      <4> QED BY <1>2, <1>3, <1>9, <3>1, <4>1 DEF Complete, None
    <3>2. CASE n = k
      BY <1>2, <1>3, <1>5, <1>6, <3>2
    <3> QED BY <1>5, <1>7, <3>1, <3>2
  <2> QED BY <2>1, <2>2, <2>3 DEF Shape, Complete, End
<1>12. Mixed => Mixed'
  BY <1>1, <1>5, <1>8, MixedStays
<1>13. \E h \in DOMAIN sent' : Tiles(h)'
  <2>1. ASSUME from = to PROVE \E h \in DOMAIN sent' : Tiles(h)'
    <3>1. pktlen = 0 /\ \A n \in DOMAIN sent : Complete(n) => End(n) <= from
      BY <1>1, <1>2, <2>1 DEF Fill
    <3>2. Tiles(k)'
      <4>1. sent'[k].first = Buffer' BY <1>2, <1>3, <1>5, <1>6, <2>1, <3>1 DEF Buffer
      <4>2. ASSUME NEW n \in DOMAIN sent'
            PROVE  n >= k <=> sent'[n].in # None /\ sent'[n].first + sent'[n].length > from'
        <5>1. CASE n \in DOMAIN sent
          <6>1. ~(n >= k) BY <1>3, <5>1
          <6>2. sent'[n] = sent[n] BY <1>5, <5>1
          <6> QED BY <1>2, <1>3, <1>9, <3>1, <5>1, <6>1, <6>2 DEF Complete
        <5>2. CASE n = k BY <1>2, <1>3, <1>5, <1>6, <2>1, <5>2 DEF None
        <5> QED BY <1>5, <1>7, <5>1, <5>2
      <4>3. k .. Len(sent') - 1 = {} /\ k .. Len(sent') = {k} BY <1>3, <1>5
      <4>4. ASSUME NEW n \in DOMAIN sent', n < k, sent'[n].in = sent'[k].in PROVE FALSE
        <5>1. n \in DOMAIN sent BY <1>3, <1>5, <4>4
        <5>2. sent[n].in = from BY <1>5, <1>6, <4>4, <5>1
        <5> QED BY <1>3, <1>9, <2>1, <5>1, <5>2 DEF Complete, None
      <4>5. sent'[k].first + sent'[k].length = to' BY <1>2, <1>5, <1>6
      <4> QED
        BY <1>2, <1>3, <1>5, <1>6, <1>8, <3>1, <4>1, <4>2, <4>3, <4>4, <4>5
        DEF Tiles, Complete, End
    <3> QED BY <1>5, <1>8, <3>2
  <2>2. ASSUME from # to PROVE \E h \in DOMAIN sent' : Tiles(h)'
    <3>1. PICK h \in DOMAIN sent : Tiles(h) BY <1>1, <1>2, <1>3, <2>2 DEF Fill
    <3>2. h \in 1..k /\ h # k /\ h < k /\ h \in Nat BY <1>3, <3>1
    <3>3. sent[h].in = from BY <1>2, <3>1 DEF Tiles
    <3>4. Buffer' = Buffer /\ sent'[h] = sent[h] BY <1>2, <1>5 DEF Buffer
    <3>5. ASSUME NEW n \in DOMAIN sent'
          PROVE  n >= h <=> sent'[n].in # None /\ sent'[n].first + sent'[n].length > from'
      <4>1. CASE n \in DOMAIN sent
        <5>1. sent'[n] = sent[n] BY <1>5, <4>1
        <5> QED BY <1>2, <3>1, <4>1, <5>1 DEF Tiles, Complete, End
      <4>2. CASE n = k BY <1>2, <1>3, <1>5, <1>6, <3>2, <4>2 DEF None
      <4> QED BY <1>5, <1>7, <4>1, <4>2
    <3>6. ASSUME NEW n \in h .. Len(sent') - 1
          PROVE  sent'[n + 1].first = sent'[n].first + sent'[n].length
      <4>0. n \in Int /\ n >= h /\ n <= Len(sent) /\ h >= 1 BY <1>3, <1>5, <3>2
      <4>1. n \in DOMAIN sent BY <1>3, <4>0
      <4>2. CASE n = Len(sent)
        <5>1. End(n) = to /\ n + 1 = k BY <1>3, <3>1, <4>2 DEF Tiles
        <5> QED BY <1>5, <1>6, <4>1, <5>1 DEF End
      <4>3. CASE n # Len(sent)
        <5>1. Len(sent) \in Nat BY <1>3
        <5>2. h \in Nat BY <3>2
        <5>3. n < Len(sent) BY <4>0, <4>3, <5>1
        <5>4. n \in h .. Len(sent) - 1 BY <4>0, <5>1, <5>2, <5>3
        <5>5. n + 1 \in 1 .. Len(sent) BY <4>0, <5>1, <5>2, <5>3
        <5> QED BY <1>3, <1>5, <3>1, <4>1, <5>4, <5>5 DEF Tiles, End
      <4> QED BY <4>2, <4>3
    <3>7. ASSUME NEW n \in h .. Len(sent') PROVE sent'[n].in = sent'[h].in
      <4>1. n = k \/ (n \in h .. Len(sent) /\ n \in DOMAIN sent) BY <1>3, <1>5, <3>2
      <4> QED BY <1>5, <1>6, <3>1, <3>3, <3>4, <4>1 DEF Tiles
    <3>8. ASSUME NEW n \in DOMAIN sent', n < h, sent'[n].in = sent'[h].in PROVE sent'[n].known
      <4>1. n \in DOMAIN sent BY <1>3, <1>5, <1>7, <3>2, <3>8
      <4> QED BY <1>5, <3>1, <3>8, <4>1 DEF Tiles
    <3>9. sent'[Len(sent')].first + sent'[Len(sent')].length = to' BY <1>2, <1>5, <1>6
    <3>10. Tiles(h)'
      BY <1>2, <1>5, <3>1, <3>2, <3>3, <3>4, <3>5, <3>6, <3>7, <3>8, <3>9
      DEF Tiles, Complete, End
    <3> QED BY <1>5, <3>2, <3>10
  <2> QED BY <2>1, <2>2
<1>14. from' < to' /\ to' - from' <= DevMru BY <1>2, <1>3
<1>15. Fill' BY <1>2, <1>3, <1>13, <1>14 DEF Fill
<1>16. ~Mixed' => GivenInv'
  <2> SUFFICES ASSUME ~Mixed' PROVE GivenInv'
    OBVIOUS
  <2>1. GivenInv BY <1>12 DEF InputInv
  <2>2. ~(sent'[k].first + sent'[k].length <= from) BY <1>3, <1>5, <1>6
  <2>3. Len(sent') \in Nat /\ DOMAIN sent' = 1 .. Len(sent') /\ DOMAIN sent \subseteq DOMAIN sent'
    BY <1>3, <1>5, <1>8
  <2>4. \A n \in DOMAIN sent' \ DOMAIN sent : ~(sent'[n].first + sent'[n].length <= from)
    BY <1>5, <1>7, <2>2
  <2> QED BY <1>1, <1>2, <1>5, <2>1, <2>3, <2>4, GivenStays
<1> QED BY <1>10, <1>11, <1>15, <1>16 DEF InputInv

\* The first part of a longer packet is put into the transfer.
LEMMA PutFirstStep ==
  ASSUME InputInv, NEW size \in Lengths, NEW known \in BOOLEAN, PutFirst(size, known)
  PROVE  InputInv'
<1>0. PICK k : k = Len(sent) + 1 OBVIOUS
<1> DEFINE x == [first |-> to, length |-> size, known |-> known, in |-> None]
<1>1. TypeOK /\ Shape /\ Fill BY DEF InputInv
<1>2. /\ turn = "device" /\ ~split /\ Len(sent) < MaxPackets /\ from = to /\ ~Mixed
      /\ size > UsbMru
      /\ sent' = Append(sent, x) /\ to' = to + UsbMru /\ split' = TRUE
      /\ UNCHANGED <<turn, from, pktlen, given>>
  BY DEF PutFirst, MaySend
<1>3. size \in Nat /\ size >= 1 /\ from \in Nat /\ to \in Nat /\ Len(sent) \in Nat /\ from <= to
      /\ DOMAIN sent = 1..Len(sent) /\ k \in Nat /\ pktlen \in Nat /\ k = Len(sent) + 1
      /\ UsbMru \in Nat /\ UsbMru >= 1 /\ MaxPackets \in Nat
  BY <1>0, <1>1, Types DEF Lengths, TypeOK
<1>4. x \in PacketType BY <1>3 DEF PacketType
<1>5. /\ sent' \in Seq(PacketType) /\ Len(sent') = k /\ DOMAIN sent' = 1..k
      /\ sent'[k] = x /\ \A n \in DOMAIN sent : sent'[n] = sent[n]
  BY <1>0, <1>1, <1>2, <1>4, Growing
<1>6. x.first = to /\ x.length = size /\ x.known = known /\ x.in = None OBVIOUS
<1> HIDE DEF x
<1>7. \A n \in 1..k : n \in DOMAIN sent \/ n = k BY <1>3
<1>8. k \notin DOMAIN sent /\ DOMAIN sent \subseteq 1..k /\ k \in 1..k BY <1>3
<1>9. \A n \in DOMAIN sent :
        /\ sent[n].first \in Nat /\ sent[n].length \in Nat /\ End(n) = sent[n].first + sent[n].length
        /\ sent[n].first < to /\ sent[n].in \in Nat \cup {None}
        /\ Complete(n) => End(n) <= to /\ sent[n].in < to
  BY <1>1, Types DEF Shape, End
<1>10. TypeOK'
  BY <1>1, <1>2, <1>3, <1>5 DEF TypeOK, PacketType
<1>11. Shape'
  <2>1. ASSUME NEW n \in DOMAIN sent', NEW m \in DOMAIN sent', n < m
        PROVE  /\ sent'[n].first < sent'[m].first
               /\ sent'[n].in # None => sent'[n].first + sent'[n].length <= sent'[m].first
    <3>1. n \in DOMAIN sent BY <1>3, <1>5, <2>1
    <3>2. CASE m \in DOMAIN sent
      BY <1>1, <1>5, <2>1, <3>1, <3>2 DEF Shape, Complete, End
    <3>3. CASE m = k
      BY <1>5, <1>6, <1>9, <3>1, <3>3 DEF Complete
    <3> QED BY <1>5, <1>7, <3>2, <3>3
  <2>2. ASSUME NEW n \in DOMAIN sent'
        PROVE  /\ sent'[n].first < to'
               /\ sent'[n].in # None => /\ sent'[n].first + sent'[n].length <= to' /\ sent'[n].in < to'
    <3>1. CASE n \in DOMAIN sent
      <4>1. sent'[n] = sent[n] BY <1>5, <3>1
      <4>2. sent[n].first < to /\ to' >= to /\ sent[n].first \in Nat /\ to' \in Nat
        BY <1>2, <1>3, <1>9, <3>1
      <4>3. sent[n].in # None => /\ sent[n].first + sent[n].length <= to
                                /\ sent[n].in \in Nat /\ sent[n].in < to
        BY <1>9, <3>1 DEF Complete
      <4>4. sent[n].length \in Nat BY <1>9, <3>1
      <4> QED BY <1>3, <4>1, <4>2, <4>3, <4>4
    <3>2. CASE n = k
      <4>1. sent'[n].first = to /\ sent'[n].in = None BY <1>5, <1>6, <3>2
      <4> QED BY <1>2, <1>3, <4>1
    <3> QED BY <1>5, <1>7, <3>1, <3>2
  <2>3. Len(sent') <= MaxPackets BY <1>2, <1>3, <1>5
  <2> QED BY <2>1, <2>2, <2>3 DEF Shape, Complete, End
<1>12. pktlen = 0 /\ \A n \in DOMAIN sent : Complete(n) => End(n) <= from
  BY <1>1, <1>2 DEF Fill
<1>13. Parted'
  <2>1. sent'[k].first = Buffer' BY <1>2, <1>3, <1>5, <1>6, <1>12 DEF Buffer
  <2>2. to' < sent'[k].first + sent'[k].length BY <1>2, <1>3, <1>5, <1>6
  <2>3. to' - from' = UsbMru BY <1>2, <1>3
  <2> QED BY <1>2, <1>5, <1>6, <1>8, <2>1, <2>2, <2>3 DEF Parted, Complete, End
<1>14. \A n \in DOMAIN sent' : sent'[n].in # None => sent'[n].first + sent'[n].length <= from'
  <2> TAKE n \in DOMAIN sent'
  <2>1. CASE n \in DOMAIN sent BY <1>2, <1>5, <1>12, <2>1 DEF Complete, End
  <2>2. CASE n = k BY <1>5, <1>6, <2>2
  <2> QED BY <1>5, <1>7, <2>1, <2>2
<1>15. Fill'
  <2>1. to' - from' <= DevMru
    <3>1. to' - from' = UsbMru BY <1>2, <1>3
    <3> QED BY <3>1, InputAssumption
  <2> QED BY <1>2, <1>13, <1>14, <2>1 DEF Fill, Complete, End
<1>16. GivenInv'
  <2>1. GivenInv BY <1>2 DEF InputInv
  <2>2. ~(sent'[k].first + sent'[k].length <= from) BY <1>2, <1>3, <1>5, <1>6
  <2>3. Len(sent') \in Nat /\ DOMAIN sent' = 1 .. Len(sent') /\ DOMAIN sent \subseteq DOMAIN sent'
    BY <1>3, <1>5, <1>8
  <2>4. \A n \in DOMAIN sent' \ DOMAIN sent : ~(sent'[n].first + sent'[n].length <= from)
    BY <1>5, <1>7, <2>2
  <2> QED BY <1>1, <1>2, <1>5, <2>1, <2>3, <2>4, GivenStays
<1> QED BY <1>10, <1>11, <1>15, <1>16 DEF InputInv

\* The next part of it is.
LEMMA PutNextStep ==
  ASSUME InputInv, PutNext
  PROVE  InputInv'
<1>0. PICK k : k = Len(sent) OBVIOUS
<1>1. TypeOK /\ Shape /\ Fill BY DEF InputInv
<1>2. turn = "device" /\ split /\ from = to /\ UNCHANGED <<turn, from, pktlen, given>>
  BY DEF PutNext
<1>3. /\ from \in Nat /\ to \in Nat /\ DOMAIN sent = 1..k /\ k \in Nat /\ pktlen \in Nat
      /\ UsbMru \in Nat /\ UsbMru >= 1 /\ sent \in Seq(PacketType) /\ Len(sent) = k
  BY <1>0, <1>1, Types
<1>4. /\ k \in DOMAIN sent /\ ~Complete(k) /\ sent[k].first = Buffer /\ sent[k].length > UsbMru
      /\ to < End(k)
  BY <1>0, <1>1, <1>2 DEF Fill, Parted
<1>5. \A n \in DOMAIN sent :
        /\ sent[n].first \in Nat /\ sent[n].length \in Nat /\ End(n) = sent[n].first + sent[n].length
        /\ sent[n].first < to /\ sent[n].in \in Nat \cup {None} /\ End(n) \in Nat
        /\ Complete(n) => End(n) <= to /\ sent[n].in < to
  BY <1>1, Types DEF Shape, End
<1>6. \A n \in DOMAIN sent : Complete(n) => End(n) <= from BY <1>1, <1>2 DEF Fill
<1>7. CASE End(k) > to + UsbMru
  <2>1. to' = to + UsbMru /\ UNCHANGED <<sent, split>> BY <1>0, <1>7 DEF PutNext
  <2>2. TypeOK'
    <3>1. to' \in Nat /\ from' \in Nat /\ from' <= to' BY <1>2, <1>3, <2>1
    <3> QED BY <1>1, <1>2, <2>1, <3>1 DEF TypeOK
  <2>3. Shape'
    <3>1. \A n \in DOMAIN sent : /\ sent[n].first < to'
                                 /\ Complete(n) => End(n) <= to' /\ sent[n].in < to'
      BY <1>3, <1>5, <2>1 DEF Complete, None
    <3> QED BY <1>1, <2>1, <3>1 DEF Shape, Complete, End
  <2>4. Parted'
    <3>1. to' < End(k) /\ to' - from' = UsbMru /\ Buffer' = Buffer
      BY <1>2, <1>3, <1>5, <1>7, <2>1 DEF Buffer
    <3> QED BY <1>0, <1>4, <2>1, <3>1 DEF Parted, Complete, End
  <2>5. Fill'
    <3>1. to' - from' <= DevMru
      <4>1. to' - from' = UsbMru BY <1>2, <1>3, <2>1
      <4> QED BY <4>1, InputAssumption
    <3> QED BY <1>2, <1>6, <2>1, <2>4, <3>1 DEF Fill, Complete, End
  <2>6. ~Mixed' => GivenInv'
    BY <1>2, <2>1 DEF InputInv, Mixed, GivenInv, Handed, Due, Complete, End
  <2> QED BY <2>2, <2>3, <2>5, <2>6 DEF InputInv
<1>8. CASE ~(End(k) > to + UsbMru)
  <2> DEFINE x == [sent[k] EXCEPT !.in = from]
  <2>1. to' = End(k) /\ sent' = [sent EXCEPT ![k] = x] /\ split' = FALSE
    BY <1>0, <1>8 DEF PutNext
  <2>2. sent[k] \in PacketType BY <1>3, <1>4
  <2>3. /\ x \in PacketType /\ x.first = sent[k].first /\ x.length = sent[k].length
        /\ x.known = sent[k].known /\ x.in = from
    BY <1>3, <2>2 DEF PacketType
  <2> HIDE DEF x
  <2>4. /\ sent' \in Seq(PacketType) /\ Len(sent') = k /\ DOMAIN sent' = DOMAIN sent
        /\ sent'[k] = x /\ \A n \in DOMAIN sent : n # k => sent'[n] = sent[n]
    BY <1>3, <1>4, <2>1, <2>3
  <2>5. sent'[k].first + sent'[k].length = to' /\ to' > to /\ to' \in Nat
    BY <1>3, <1>4, <1>5, <2>1, <2>3, <2>4
  <2>6. TypeOK'
    <3>1. from' \in Nat /\ to' \in Nat /\ from' <= to'
      <4>1. from' = to BY <1>2
      <4> QED BY <1>3, <2>5, <4>1
    <3>2. split' \in BOOLEAN BY <2>1
    <3> QED BY <1>1, <1>2, <2>4, <3>1, <3>2 DEF TypeOK, PacketType
  <2>7. \A n \in DOMAIN sent : Complete(n) => n # k /\ sent'[n] = sent[n]
    BY <1>4, <2>4
  <2>8. Shape'
    <3>1. ASSUME NEW n \in DOMAIN sent', NEW m \in DOMAIN sent', n < m
          PROVE  /\ sent'[n].first < sent'[m].first
                 /\ sent'[n].in # None => sent'[n].first + sent'[n].length <= sent'[m].first
      <4>1. n \in DOMAIN sent /\ m \in DOMAIN sent /\ n # k BY <1>3, <2>4, <3>1
      <4>2. sent'[n] = sent[n] /\ sent'[m].first = sent[m].first BY <2>3, <2>4, <4>1
      <4> QED BY <1>1, <3>1, <4>1, <4>2 DEF Shape, Complete, End
    <3>2. ASSUME NEW n \in DOMAIN sent'
          PROVE  /\ sent'[n].first < to'
                 /\ sent'[n].in # None => /\ sent'[n].first + sent'[n].length <= to' /\ sent'[n].in < to'
      <4>1. CASE n = k BY <1>2, <1>3, <1>4, <1>5, <2>3, <2>4, <2>5, <4>1
      <4>2. CASE n # k
        <5>1. sent'[n] = sent[n] BY <2>4, <4>2
        <5> QED BY <1>3, <1>5, <2>4, <2>5, <5>1 DEF Complete, None
      <4> QED BY <4>1, <4>2
    <3>3. Len(sent') <= MaxPackets BY <1>1, <1>3, <2>4 DEF Shape
    <3> QED BY <3>1, <3>2, <3>3 DEF Shape, Complete, End
  <2>9. Tiles(k)'
    <3>1. Buffer' = Buffer BY <1>2 DEF Buffer
    <3>2. ASSUME NEW n \in DOMAIN sent'
          PROVE  n >= k <=> sent'[n].in # None /\ sent'[n].first + sent'[n].length > from'
      <4>1. CASE n = k BY <1>2, <1>3, <2>3, <2>4, <2>5, <4>1 DEF None
      <4>2. CASE n # k
        <5>1. ~(n >= k) /\ sent'[n] = sent[n] BY <1>3, <2>4, <4>2
        <5> QED BY <1>2, <1>3, <1>5, <1>6, <2>4, <5>1 DEF Complete
      <4> QED BY <4>1, <4>2
    <3>3. k .. Len(sent') - 1 = {} /\ k .. Len(sent') = {k} BY <1>3, <2>4
    <3>4. ASSUME NEW n \in DOMAIN sent', n < k, sent'[n].in = sent'[k].in PROVE FALSE
      <4>1. n # k /\ sent[n].in = from BY <1>3, <2>3, <2>4, <3>4
      <4> QED BY <1>2, <1>3, <1>5, <2>4, <4>1 DEF Complete, None
    <3> QED
      BY <1>2, <1>3, <1>4, <2>3, <2>4, <2>5, <3>1, <3>2, <3>3, <3>4
      DEF Tiles, Complete, End
  <2>10. Fill'
    <3>1. to' - from' <= DevMru
      <4>1. from' = to /\ to' <= to + UsbMru BY <1>2, <1>3, <1>5, <1>4, <1>8, <2>1
      <4>2. to' - from' <= UsbMru BY <1>3, <2>5, <4>1
      <4>3. to' - from' \in Int BY <1>3, <2>5, <4>1
      <4> QED BY <4>2, <4>3, InputAssumption
    <3> QED BY <1>2, <1>3, <1>4, <2>1, <2>4, <2>5, <2>9, <3>1 DEF Fill
  <2>11. ~Mixed' => GivenInv'
    <3> SUFFICES ASSUME ~Mixed' PROVE GivenInv'
      OBVIOUS
    <3>1. ~Mixed
      <4>1. DOMAIN sent \subseteq DOMAIN sent' BY <2>4
      <4> QED BY <1>1, <2>7, <4>1, MixedStays
    <3>2. GivenInv BY <3>1 DEF InputInv
    <3>3. ~(sent'[k].first + sent'[k].length <= from) BY <1>2, <1>3, <2>5
    <3>4. /\ Len(sent') \in Nat /\ DOMAIN sent' = 1 .. Len(sent') /\ DOMAIN sent \subseteq DOMAIN sent'
          /\ DOMAIN sent' \ DOMAIN sent = {}
      BY <1>3, <2>4
    <3> QED BY <1>1, <1>2, <1>3, <2>4, <2>7, <3>2, <3>3, <3>4, GivenStays
  <2> QED BY <2>6, <2>8, <2>10, <2>11 DEF InputInv
<1> QED BY <1>7, <1>8

\* The transfer is delivered, and the device replaced.
LEMMA HandOverStep ==
  ASSUME InputInv, Deliver \/ DeviceAdd
  PROVE  InputInv'
<1>1. TypeOK /\ Shape /\ Fill /\ UNCHANGED <<sent, from, to, given>> /\ turn = "device"
  BY DEF InputInv, Deliver, DeviceAdd
<1>2. Shape' BY <1>1 DEF Shape, Complete, End
<1>3. ~Mixed' => GivenInv'
  BY <1>1 DEF InputInv, Mixed, GivenInv, Handed, Due, Complete, End
<1>4. CASE Deliver
  <2>1. from < to /\ turn' = "program" /\ UNCHANGED <<split, pktlen>> BY <1>4 DEF Deliver
  <2>2. TypeOK' BY <1>1, <2>1 DEF TypeOK
  <2>3. Parted => Parted' BY <1>1, <2>1 DEF Parted, Complete, End, Buffer
  <2>4. \A h : Tiles(h) => Tiles(h)' BY <1>1, <2>1 DEF Tiles, Complete, End, Buffer
  <2>5. Fill' BY <1>1, <2>1, <2>3, <2>4 DEF Fill, Mixed, Complete, End
  <2> QED BY <1>2, <1>3, <2>2, <2>5 DEF InputInv
<1>5. CASE DeviceAdd
  <2>1. from = to /\ split' = FALSE /\ pktlen' = 0 /\ UNCHANGED turn BY <1>5 DEF DeviceAdd
  <2>2. 0 \in 0..DevMru BY <1>1, Types
  <2>3. TypeOK' BY <1>1, <2>1, <2>2 DEF TypeOK
  <2>4. ~(from < to) BY <1>1, <2>1, Types
  <2>5. Fill' BY <1>1, <2>1, <2>4 DEF Fill, Complete, End
  <2> QED BY <1>2, <1>3, <2>3, <2>5 DEF InputInv
<1> QED BY <1>4, <1>5

-----------------------------------------------------------------------------
\* How far a call brings the main loop in the transfer.
LEMMA Processes ==
  ASSUME TypeOK, from < to, NEW r \in Nat, Processed(r)
  PROVE  /\ from' \in Nat /\ from <= from' /\ from' <= to /\ turn' \in {"device", "program"}
         /\ turn' = "program" => from' < to
         /\ r >= to - from => from' = to /\ turn' = "device"
         /\ r < to - from => from' = from + r /\ turn' = "program"
<1>1. from \in Nat /\ to \in Nat BY Types
<1>2. CASE from + r < to
  <2>1. from' = from + r /\ turn' = "program" BY <1>1, <1>2 DEF Processed
  <2> QED BY <1>1, <1>2, <2>1
<1>3. CASE ~(from + r < to)
  <2>1. from' = to /\ turn' = "device" BY <1>3 DEF Processed
  <2> QED BY <1>1, <1>3, <2>1
<1> QED BY <1>2, <1>3

\* What a call can do to pktbuf and to what is handed on, when the buffer begins with h.
LEMMA Calls ==
  ASSUME TypeOK, Shape, Fill, NEW h \in DOMAIN sent, sent[h].first = Buffer, DeviceDataInput
  PROVE  \/ /\ from' = to /\ turn' = "device" /\ given' = given
            /\ pktlen' \in {0, BufferLength} /\ pktlen' <= DevMru
            /\ \/ pktlen # 0 /\ BufferLength > DevMru
               \/ pktlen # 0 /\ ~LastPart /\ pktlen' = BufferLength
               \/ pktlen = 0 /\ FirstPart /\ pktlen' = BufferLength
               \/ pktlen' = 0 /\ ~(sent[h].known /\ sent[h].length <= BufferLength)
         \/ /\ pktlen' = 0 /\ sent[h].known /\ sent[h].length <= BufferLength
            /\ pktlen # 0 => LastPart
            /\ given' = Append(given, [packet |-> h, upto |-> to])
            /\ Processed(sent[h].length)
<1>1. /\ from \in Nat /\ to \in Nat /\ pktlen \in Nat /\ pktlen <= DevMru /\ DevMru \in Nat
      /\ sent[h].length \in Nat
  BY Types
<1>2. from < to /\ length <= DevMru /\ length \in Nat /\ length = to - from
  BY <1>1 DEF DeviceDataInput, Fill, length
<1>3. BufferLength \in Nat /\ BufferLength >= to - from BY <1>1, <1>2 DEF BufferLength
<1>4. HeaderAt(Buffer) = h BY HeaderIs
<1>5. ASSUME NEW r \in Nat, r >= to - from, Processed(r) PROVE from' = to /\ turn' = "device"
  BY <1>2, <1>5, Processes
<1>6. ~(length > DevMru) BY <1>1, <1>2
<1>7. CASE pktlen # 0 /\ TooLarge
  <2>1. Processed(length) /\ pktlen' = 0 /\ UNCHANGED given
    BY <1>6, <1>7 DEF DeviceDataInput
  <2>2. from' = to /\ turn' = "device" BY <1>1, <1>2, <1>5, <2>1
  <2> QED BY <1>1, <1>7, <2>1, <2>2 DEF TooLarge
<1>8. CASE ~(pktlen # 0 /\ TooLarge) /\ ((pktlen # 0 /\ ~LastPart) \/ (pktlen = 0 /\ FirstPart))
  <2>1. Processed(length) /\ pktlen' = BufferLength /\ UNCHANGED given
    BY <1>6, <1>8 DEF DeviceDataInput
  <2>2. from' = to /\ turn' = "device" BY <1>1, <1>2, <1>5, <2>1
  <2>3. BufferLength <= DevMru BY <1>1, <1>2, <1>8 DEF TooLarge, BufferLength
  <2> QED BY <1>8, <2>1, <2>2, <2>3
<1>9. CASE /\ ~(pktlen # 0 /\ TooLarge)
           /\ ~((pktlen # 0 /\ ~LastPart) \/ (pktlen = 0 /\ FirstPart))
  <2>1. Dispatch BY <1>6, <1>9 DEF DeviceDataInput
  <2>2. pktlen' = 0 BY <2>1 DEF Dispatch
  <2>3. CASE sent[h].length <= BufferLength /\ sent[h].known
    <3>1. /\ given' = Append(given, [packet |-> h, upto |-> to])
          /\ Processed(sent[h].length)
      BY <1>4, <2>1, <2>3 DEF Dispatch, HeaderLength
    <3> QED BY <1>9, <2>2, <2>3, <3>1
  <2>4. CASE ~(sent[h].length <= BufferLength /\ sent[h].known)
    <3>1. given' = given /\ Processed(BufferLength)
      BY <1>4, <2>1, <2>4 DEF Dispatch, HeaderLength
    <3>2. from' = to /\ turn' = "device" BY <1>3, <1>5, <3>1
    <3> QED BY <1>1, <2>2, <2>4, <3>1, <3>2
  <2> QED BY <2>3, <2>4
<1> QED BY <1>7, <1>8, <1>9

\* How much the buffer of a call has.
LEMMA Lengthy ==
  ASSUME TypeOK, from < to
  PROVE  /\ length \in Nat /\ length = to - from /\ length >= 1
         /\ BufferLength \in Nat /\ BufferLength = length + pktlen /\ length <= BufferLength
         /\ from = Buffer + pktlen /\ to = Buffer + BufferLength /\ Buffer \in Int
         /\ (pktlen = 0 => Buffer = from /\ BufferLength = length)
<1>1. from \in Nat /\ to \in Nat /\ pktlen \in Nat BY Types
<1> QED BY <1>1 DEF length, BufferLength, Buffer

\* What every call keeps.
LEMMA CallKeeps ==
  ASSUME TypeOK, Shape, Fill, NEW h \in DOMAIN sent, sent[h].first = Buffer, DeviceDataInput
  PROVE  /\ TypeOK' /\ Shape' /\ UNCHANGED <<sent, split, to>>
         /\ from <= from' /\ from' <= to /\ from' \in Nat
         /\ turn' = "program" => from' < to
         /\ to' - from' <= DevMru
<1>1. UNCHANGED <<sent, split, to>> /\ turn = "program" BY DEF DeviceDataInput
<1>2. /\ from \in Nat /\ to \in Nat /\ pktlen \in Nat /\ DevMru \in Nat /\ sent[h].length \in Nat
      /\ h \in 1..Len(sent) /\ Len(sent) \in Nat /\ MaxPackets \in Nat /\ given \in Seq(GivenType)
  BY Types
<1>3. from < to /\ to - from <= DevMru BY <1>1 DEF Fill
<1>4. BufferLength \in Nat BY <1>3, Lengthy
<1>5. [packet |-> h, upto |-> to] \in GivenType
  <2>1. h \in 1..MaxPackets BY <1>2 DEF Shape
  <2> QED BY <1>2, <2>1 DEF GivenType
<1>6. /\ from' \in Nat /\ from <= from' /\ from' <= to /\ turn' \in {"device", "program"}
      /\ turn' = "program" => from' < to
  <2>1. CASE from' = to /\ turn' = "device" BY <1>2, <1>3, <2>1
  <2>2. CASE Processed(sent[h].length) BY <1>2, <1>3, <2>2, Processes
  <2>3. (from' = to /\ turn' = "device") \/ Processed(sent[h].length) BY Calls
  <2> QED BY <2>1, <2>2, <2>3
<1>7. pktlen' \in 0..DevMru
  <2>1. pktlen' = 0 \/ (pktlen' = BufferLength /\ pktlen' <= DevMru) BY Calls
  <2> QED BY <1>2, <1>4, <2>1
<1>8. given' \in Seq(GivenType)
  <2>1. given' = given \/ given' = Append(given, [packet |-> h, upto |-> to]) BY Calls
  <2> QED BY <1>2, <1>5, <2>1
<1>9. TypeOK' BY <1>1, <1>6, <1>7, <1>8 DEF TypeOK, GivenType
<1>10. Shape' BY <1>1 DEF Shape, Complete, End
<1>11. to' - from' <= DevMru
  <2>1. to' = to /\ from <= from' /\ from' \in Nat BY <1>1, <1>6
  <2>2. to \in Nat /\ from \in Nat /\ DevMru \in Nat BY <1>2
  <2>3. ASSUME NEW f \in Nat, from <= f PROVE to - f <= DevMru BY <1>3, <2>2, <2>3
  <2> QED BY <2>1, <2>3
<1> QED BY <1>1, <1>6, <1>9, <1>10, <1>11

\* The part of a packet that is not complete goes to pktbuf.
LEMMA CallParted ==
  ASSUME InputInv, DeviceDataInput, split
  PROVE  InputInv'
<1>0. PICK h : h = Len(sent) OBVIOUS
<1>1. TypeOK /\ Shape /\ Fill BY DEF InputInv
<1>2. Parted /\ turn = "program" /\ from < to BY <1>1 DEF Fill, DeviceDataInput
<1>3. /\ h \in DOMAIN sent /\ ~Complete(h) /\ sent[h].first = Buffer /\ sent[h].length > UsbMru
      /\ to < End(h) /\ to - from = UsbMru
  BY <1>0, <1>1, <1>2, Types DEF Parted
<1>4. /\ from \in Nat /\ to \in Nat /\ pktlen \in Nat /\ DevMru \in Nat /\ UsbMru \in Nat
      /\ sent[h].length \in Nat /\ sent[h].length <= DevMru /\ End(h) = sent[h].first + sent[h].length
  BY <1>1, <1>3, Types DEF End
<1>5. length = UsbMru /\ BufferLength \in Nat /\ length <= BufferLength
      /\ BufferLength < sent[h].length
      /\ (pktlen = 0 => BufferLength = length) /\ to = Buffer + BufferLength
  BY <1>1, <1>2, <1>3, <1>4, Lengthy
<1>6. HeaderLength = sent[h].length BY <1>1, <1>3, HeaderIs DEF HeaderLength
<1>7. BufferLength <= DevMru /\ ~LastPart
  <2>1. ~(length < UsbMru) /\ HeaderLength # BufferLength BY <1>4, <1>5, <1>6
  <2>2. BufferLength <= DevMru BY <1>4, <1>5
  <2> QED BY <2>1, <2>2 DEF LastPart
<1>8. pktlen = 0 => FirstPart BY <1>4, <1>5, <1>6 DEF FirstPart
<1>9. from' = to /\ turn' = "device" /\ given' = given /\ pktlen' = BufferLength
  <2>1. DeviceDataInput /\ length \in Nat /\ ~(length > DevMru)
    <3>1. length \in Nat /\ length <= DevMru BY <1>1, <1>2, <1>4 DEF Fill, length
    <3> QED BY <1>4, <3>1
  <2>2. ~TooLarge
    <3>1. BufferLength \in Nat /\ DevMru \in Nat BY <1>4, <1>5
    <3> QED BY <1>7, <3>1 DEF TooLarge
  <2>3. Processed(length) /\ pktlen' = BufferLength /\ UNCHANGED given
    BY <1>7, <1>8, <2>1, <2>2 DEF DeviceDataInput
  <2>4. from' = to /\ turn' = "device" BY <1>1, <1>2, <1>4, <2>1, <2>3, Processes DEF length
  <2> QED BY <2>3, <2>4
<1>10. TypeOK' /\ Shape' /\ UNCHANGED <<sent, split, to>> /\ to' - from' <= DevMru
  BY <1>1, <1>3, CallKeeps
<1>11. Parted'
  <2>1. Buffer' = Buffer BY <1>4, <1>5, <1>9 DEF Buffer
  <2> QED BY <1>2, <1>9, <1>10, <2>1 DEF Parted, Complete, End
<1>12. \A n \in DOMAIN sent : Complete(n) => End(n) <= from /\ End(n) <= to
  BY <1>1, Types DEF Fill, Shape
<1>13. Fill' BY <1>9, <1>10, <1>11, <1>12 DEF Fill, Complete, End
<1>14. ~Mixed' => GivenInv'
  <2> SUFFICES ASSUME ~Mixed' PROVE GivenInv'
    OBVIOUS
  <2>1. GivenInv BY <1>10 DEF InputInv, Mixed, Complete
  <2>2. ASSUME NEW n \in DOMAIN sent PROVE Handed(n) <=> Due(n) /\ End(n) <= to
    BY <1>12, <2>1 DEF GivenInv, Due
  <2> QED BY <1>9, <1>10, <2>1, <2>2 DEF GivenInv, Handed, Due, Complete, End
<1> QED BY <1>10, <1>13, <1>14 DEF InputInv

\* The last part of a packet, or a whole one, is handed on if its protocol is known.
LEMMA CallGives ==
  ASSUME TypeOK, Shape, Fill, DeviceDataInput, NEW h, Tiles(h), pktlen = 0 \/ h = Len(sent)
  PROVE  /\ pktlen' = 0
         /\ sent[h].known => /\ given' = Append(given, [packet |-> h, upto |-> to])
                             /\ from' = End(h)
         /\ ~sent[h].known => given' = given /\ from' = to
<1>1. h \in DOMAIN sent /\ sent[h].first = Buffer /\ turn = "program" BY DEF Tiles, DeviceDataInput
<1>2. /\ from \in Nat /\ to \in Nat /\ pktlen \in Nat /\ DevMru \in Nat /\ UsbMru \in Nat
      /\ sent[h].length \in Nat /\ sent[h].length <= DevMru /\ End(h) = sent[h].first + sent[h].length
      /\ h \in 1..Len(sent) /\ Len(sent) \in Nat /\ DOMAIN sent = 1..Len(sent)
  BY <1>1, Types DEF End
<1>3. from < to BY <1>1 DEF Fill
<1>4. End(h) <= to /\ End(h) > from
  <2>1. Complete(h) /\ End(h) > from BY <1>1, <1>2 DEF Tiles
  <2> QED BY <1>1, <2>1 DEF Shape
<1>5. h = Len(sent) => End(h) = to BY DEF Tiles
<1>6. /\ length \in Nat /\ BufferLength \in Nat /\ length <= BufferLength
      /\ length = to - from /\ to = Buffer + BufferLength /\ Buffer \in Int
      /\ (pktlen = 0 => Buffer = from /\ BufferLength = length)
  BY <1>3, Lengthy
<1>7. sent[h].length <= BufferLength BY <1>1, <1>2, <1>4, <1>6
<1>8. h = Len(sent) => sent[h].length = BufferLength BY <1>1, <1>2, <1>5, <1>6
<1>9. pktlen # 0 => LastPart /\ BufferLength <= DevMru
  BY <1>1, <1>2, <1>8, HeaderIs DEF LastPart, HeaderLength
<1>10. pktlen = 0 => ~FirstPart
  <2>1. HeaderLength = sent[h].length BY <1>1, HeaderIs DEF HeaderLength
  <2>2. pktlen = 0 => sent[h].length <= length BY <1>6, <1>7
  <2> QED BY <1>2, <1>6, <2>1, <2>2 DEF FirstPart
<1>11. ~(pktlen # 0 /\ BufferLength > DevMru)
  <2>1. BufferLength \in Nat /\ DevMru \in Nat BY <1>2, <1>6
  <2> QED BY <1>9, <2>1
<1>12. Processed(sent[h].length) => from' = End(h)
  <2> SUFFICES ASSUME Processed(sent[h].length) PROVE from' = End(h)
    OBVIOUS
  <2>1. CASE pktlen = 0
    <3>1. End(h) = from + sent[h].length BY <1>1, <1>2, <1>6, <2>1
    <3>2. CASE sent[h].length < to - from BY <1>2, <1>3, <3>1, <3>2, Processes
    <3>3. CASE ~(sent[h].length < to - from)
      <4>1. sent[h].length >= to - from
        <5>1. sent[h].length \in Nat /\ to \in Nat /\ from \in Nat BY <1>2
        <5> QED BY <3>3, <5>1
      <4>2. End(h) = to
        <5>1. sent[h].length \in Nat /\ to \in Nat /\ from \in Nat BY <1>2
        <5> QED BY <1>4, <3>1, <4>1, <5>1
      <4> QED BY <1>2, <1>3, <4>1, <4>2, Processes
    <3> QED BY <3>2, <3>3
  <2>2. CASE h = Len(sent)
    <3>1. sent[h].length >= to - from BY <1>2, <1>6, <1>8, <2>2
    <3> QED BY <1>2, <1>3, <1>5, <2>2, <3>1, Processes
  <2> QED BY <2>1, <2>2
<1> QED BY <1>1, <1>7, <1>9, <1>10, <1>11, <1>12, Calls

\* The packets of a transfer are gone through, each with the call for it.
LEMMA CallTiles ==
  ASSUME InputInv, DeviceDataInput, ~split
  PROVE  InputInv'
<1>1. TypeOK /\ Shape /\ Fill /\ turn = "program" BY DEF InputInv, DeviceDataInput
<1>2. from < to BY <1>1 DEF Fill
<1>3. PICK h \in DOMAIN sent : Tiles(h) BY <1>1, <1>2 DEF Fill
<1>4. sent[h].first = Buffer /\ sent[h].known \in BOOLEAN BY <1>1, <1>3, Types DEF Tiles
<1>5. /\ TypeOK' /\ Shape' /\ UNCHANGED <<sent, split, to>> /\ to' - from' <= DevMru
      /\ from <= from' /\ from' <= to /\ from' \in Nat
      /\ turn' = "program" => from' < to
  BY <1>1, <1>4, CallKeeps
<1>6. /\ from \in Nat /\ to \in Nat /\ DOMAIN sent = 1..Len(sent) /\ Len(sent) \in Nat
      /\ given \in Seq(GivenType)
  BY <1>1, Types
<1>7. h \in Nat /\ h >= 1 /\ h <= Len(sent) BY <1>3, <1>6
<1>8. \A n \in DOMAIN sent : /\ Complete(n) => End(n) <= to
                             /\ End(n) \in Nat /\ sent[n].first \in Nat /\ End(n) > sent[n].first
  BY <1>1, Types DEF Shape
<1>9. \A n \in DOMAIN sent : n >= h <=> Complete(n) /\ End(n) > from BY <1>3 DEF Tiles
<1>10. Complete(h) /\ End(h) > from BY <1>3, <1>7, <1>9
<1>11. \A n \in DOMAIN sent : n > h => Complete(n) /\ End(n) > End(h) /\ sent[n].in = sent[h].in
  <2> SUFFICES ASSUME NEW n \in DOMAIN sent, n > h
               PROVE  Complete(n) /\ End(n) > End(h) /\ sent[n].in = sent[h].in
    OBVIOUS
  <2>1. n \in h .. Len(sent) BY <1>6, <1>7
  <2>2. sent[n].in = sent[h].in BY <1>3, <2>1 DEF Tiles
  <2>3. End(h) <= sent[n].first BY <1>1, <1>3, <1>7, <1>10, <2>1 DEF Shape
  <2> QED BY <1>3, <1>8, <1>10, <2>2, <2>3 DEF Complete
<1>12. h = Len(sent) => End(h) = to BY <1>3 DEF Tiles
<1>13. CASE pktlen # 0 /\ h # Len(sent)
  <2>1. Mixed BY <1>1, <1>3, <1>13, MixedAfter
  <2>2. Mixed' BY <1>5, <2>1 DEF Mixed, Complete
  <2>3. from' = to /\ turn' = "device"
    <3>1. CASE from' = to /\ turn' = "device" BY <3>1
    <3>2. CASE LastPart /\ Processed(sent[h].length)
      <4>1. sent[h].length > UsbMru /\ sent[h].length \in Nat /\ UsbMru \in Nat
        BY <1>1, <1>3, <1>13, Types DEF Tiles
      <4>2. HeaderLength = sent[h].length BY <1>1, <1>4, HeaderIs DEF HeaderLength
      <4>3. length \in Nat /\ BufferLength \in Nat /\ length <= BufferLength /\ length = to - from
        BY <1>1, <1>2, Lengthy
      <4>4. sent[h].length >= length BY <3>2, <4>1, <4>2, <4>3 DEF LastPart
      <4> QED BY <1>1, <1>2, <3>2, <4>1, <4>3, <4>4, Processes
    <3> QED BY <1>1, <1>4, <1>13, <3>1, <3>2, Calls
  <2>4. Fill' BY <1>5, <1>6, <1>8, <1>13, <2>2, <2>3 DEF Fill, Complete, End
  <2> QED BY <1>5, <2>2, <2>4 DEF InputInv
<1>14. CASE pktlen = 0 \/ h = Len(sent)
  <2>1. /\ pktlen' = 0
        /\ sent[h].known => /\ given' = Append(given, [packet |-> h, upto |-> to])
                            /\ from' = End(h)
        /\ ~sent[h].known => given' = given /\ from' = to
    BY <1>1, <1>3, <1>14, CallGives
  <2>2. ~(from' = to) => Tiles(h + 1)' /\ h + 1 \in DOMAIN sent
    <3> SUFFICES ASSUME from' # to PROVE Tiles(h + 1)' /\ h + 1 \in DOMAIN sent
      OBVIOUS
    <3>1. sent[h].known /\ from' = End(h) /\ h # Len(sent) BY <1>4, <1>12, <2>1
    <3>2. h + 1 \in DOMAIN sent /\ h \in h .. Len(sent) - 1 BY <1>6, <1>7, <3>1
    <3>3. sent[h + 1].first = End(h) BY <1>3, <3>2 DEF Tiles
    <3>4. Buffer' = End(h)
      <4>1. End(h) \in Nat BY <1>3, <1>8
      <4> QED BY <2>1, <3>1, <4>1 DEF Buffer
    <3>5. ASSUME NEW n \in DOMAIN sent PROVE n >= h + 1 <=> Complete(n) /\ End(n) > End(h)
      <4>1. n \in Nat /\ (n >= h + 1 <=> n > h) BY <1>6, <1>7
      <4>2. n > h => Complete(n) /\ End(n) > End(h) BY <1>11
      <4>3. ASSUME Complete(n), End(n) > End(h) PROVE n > h
        <5>1. End(n) > from /\ n # h BY <1>3, <1>6, <1>8, <1>10, <4>3
        <5>2. n >= h BY <1>9, <4>3, <5>1
        <5> QED BY <1>7, <4>1, <5>1, <5>2
      <4> QED BY <4>1, <4>2, <4>3
    <3>6. ASSUME NEW n \in h + 1 .. Len(sent) - 1 PROVE sent[n + 1].first = End(n)
      <4>1. n \in h .. Len(sent) - 1 BY <1>6, <1>7
      <4> QED BY <1>3, <4>1 DEF Tiles
    <3>7. sent[h + 1].in = sent[h].in
      <4>1. h + 1 > h BY <1>7
      <4> QED BY <1>11, <3>2, <4>1
    <3>8. ASSUME NEW n \in h + 1 .. Len(sent) PROVE sent[n].in = sent[h + 1].in
      <4>1. n \in h .. Len(sent) BY <1>6, <1>7
      <4> QED BY <1>3, <3>7, <4>1 DEF Tiles
    <3>9. ASSUME NEW n \in DOMAIN sent, n < h + 1, sent[n].in = sent[h + 1].in
          PROVE  sent[n].known
      <4>1. n = h \/ n < h BY <1>6, <1>7, <3>9
      <4> QED BY <1>3, <3>1, <3>7, <3>9, <4>1 DEF Tiles
    <3>10. sent[h + 1].in <= from'
      <4>1. sent[h].in <= from BY <1>3 DEF Tiles
      <4>2. sent[h].in \in Nat BY <1>1, <1>3, <1>10, Types
      <4> QED BY <1>5, <1>6, <3>7, <4>1, <4>2
    <3>11. turn' # "device"
      <4>1. DOMAIN sent = DOMAIN sent /\ sent[h].length \in Nat /\ End(h) = sent[h].first + sent[h].length
        BY <1>1, <1>3, Types DEF End
      <4>2. pktlen = 0 BY <1>14, <3>1
      <4>3. Processed(sent[h].length)
        BY <1>1, <1>4, <3>1, Calls
      <4> QED BY <1>1, <1>2, <3>1, <4>1, <4>3, <1>6, Processes
    <3>12. End(Len(sent)) = to BY <1>3 DEF Tiles
    <3> QED
      BY <1>5, <2>1, <3>1, <3>2, <3>3, <3>4, <3>5, <3>6, <3>7, <3>8, <3>9, <3>10, <3>11, <3>12
      DEF Tiles, Complete, End
  <2>3. Fill'
    <3>1. from' = to \/ from' < to BY <1>5, <1>6
    <3> QED BY <1>5, <1>6, <1>8, <2>1, <2>2, <3>1 DEF Fill, Complete, End
  <2>4. ~Mixed' => GivenInv'
    <3> SUFFICES ASSUME ~Mixed' PROVE GivenInv'
      OBVIOUS
    <3>1. GivenInv BY <1>5 DEF InputInv, Mixed, Complete
    <3>2. \A i \in DOMAIN given : given[i].packet < h
      <4> SUFFICES ASSUME NEW i \in DOMAIN given PROVE given[i].packet < h
        OBVIOUS
      <4>1. given[i].packet \in DOMAIN sent /\ Handed(given[i].packet) BY <3>1 DEF GivenInv, Handed
      <4>2. End(given[i].packet) <= from BY <3>1, <4>1 DEF GivenInv
      <4>3. ~(given[i].packet >= h) BY <1>6, <1>8, <1>9, <4>1, <4>2
      <4> QED BY <1>6, <1>7, <4>1, <4>3
    <3>3. \A n \in DOMAIN sent : n < h /\ Complete(n) => End(n) <= from
      BY <1>6, <1>7, <1>8, <1>9
    <3>4. CASE sent[h].known
      <4>1. /\ given' = Append(given, [packet |-> h, upto |-> to]) /\ from' = End(h)
        BY <2>1, <3>4
      <4>2. PICK k : k = Len(given) + 1 OBVIOUS
      <4>3. /\ DOMAIN given = 1 .. k - 1 /\ DOMAIN given' = 1 .. k /\ k \in Nat /\ k >= 1
            /\ given'[k] = [packet |-> h, upto |-> to]
            /\ \A i \in DOMAIN given : given'[i] = given[i]
        BY <1>6, <4>1, <4>2
      <4>4. given'[k].packet = h /\ given'[k].upto = to BY <4>3
      <4>5. \A i \in DOMAIN given' : i \in DOMAIN given \/ i = k BY <4>3
      <4>6. \A i, j \in DOMAIN given' : i < j => given'[i].packet < given'[j].packet
        <5> SUFFICES ASSUME NEW i \in DOMAIN given', NEW j \in DOMAIN given', i < j
                     PROVE  given'[i].packet < given'[j].packet
          OBVIOUS
        <5>1. i \in DOMAIN given BY <4>3
        <5>2. CASE j \in DOMAIN given BY <3>1, <4>3, <5>1, <5>2 DEF GivenInv
        <5>3. CASE j = k BY <3>2, <4>3, <4>4, <5>1, <5>3
        <5> QED BY <4>5, <5>2, <5>3
      <4>7. ASSUME NEW n \in DOMAIN sent
            PROVE  (\E i \in DOMAIN given' : given'[i].packet = n) <=> Due(n) /\ End(n) <= End(h)
        <5>1. (\E i \in DOMAIN given' : given'[i].packet = n) <=> Handed(n) \/ n = h
          <6>1. k \in DOMAIN given' /\ \A i \in DOMAIN given : i \in DOMAIN given' BY <4>3
          <6> QED BY <4>3, <4>4, <4>5, <6>1 DEF Handed
        <5>2. CASE n < h
          <6>1. Complete(n) => End(n) <= from /\ End(n) <= End(h)
            BY <1>3, <1>6, <1>8, <1>10, <3>3, <5>2
          <6>2. n # h BY <1>6, <1>7, <5>2
          <6> QED BY <3>1, <5>1, <6>1, <6>2 DEF GivenInv, Due
        <5>3. CASE n = h
          <6>1. \A m \in DOMAIN sent : m < h /\ sent[m].in = sent[h].in => sent[m].known
            BY <1>3 DEF Tiles
          <6>2. End(h) <= End(h) BY <1>3, <1>8
          <6> QED BY <1>10, <3>4, <5>1, <5>3, <6>1, <6>2 DEF Due
        <5>4. CASE n > h
          <6>1. ~(End(n) <= End(h)) /\ ~(End(n) <= from)
            <7>1. End(n) > End(h) BY <1>11, <5>4
            <7> QED BY <1>3, <1>6, <1>8, <1>10, <7>1
          <6>2. n # h BY <1>6, <1>7, <5>4
          <6> QED BY <3>1, <5>1, <6>1, <6>2 DEF GivenInv
        <5> QED BY <1>6, <1>7, <5>2, <5>3, <5>4
      <4>8. ASSUME NEW i \in DOMAIN given'
            PROVE  /\ given'[i].packet \in DOMAIN sent
                   /\ \/ given'[i].upto = End(given'[i].packet)
                      \/ \E m \in DOMAIN sent :
                           m > given'[i].packet /\ sent[m].in = sent[given'[i].packet].in
        <5>1. CASE i \in DOMAIN given BY <3>1, <4>3, <5>1 DEF GivenInv
        <5>2. CASE i = k
          <6>1. CASE h = Len(sent) BY <1>3, <1>12, <4>4, <5>2, <6>1
          <6>2. CASE h # Len(sent)
            <7>1. h + 1 \in DOMAIN sent /\ h + 1 > h BY <1>6, <1>7, <6>2
            <7>2. sent[h + 1].in = sent[h].in BY <1>11, <7>1
            <7> QED BY <1>3, <4>4, <5>2, <7>1, <7>2
          <6> QED BY <6>1, <6>2
        <5> QED BY <4>5, <5>1, <5>2
      <4> QED BY <1>5, <4>1, <4>6, <4>7, <4>8 DEF GivenInv, Handed, Due, Complete, End
    <3>5. CASE ~sent[h].known
      <4>1. given' = given /\ from' = to BY <2>1, <3>5
      <4>2. ASSUME NEW n \in DOMAIN sent PROVE Handed(n) <=> Due(n) /\ End(n) <= to
        <5>1. CASE n < h
          <6>1. Complete(n) => End(n) <= from /\ End(n) <= to BY <1>8, <3>3, <5>1
          <6> QED BY <3>1, <6>1 DEF GivenInv, Due
        <5>2. CASE ~(n < h)
          <6>1. ~(End(n) <= from)
            <7>1. End(n) > from BY <1>6, <1>7, <1>9, <5>2
            <7> QED BY <1>6, <1>8, <7>1
          <6>2. ~Due(n)
            <7>1. CASE n = h BY <3>5, <7>1 DEF Due
            <7>2. CASE n # h
              <8>1. n > h /\ h < n BY <1>6, <1>7, <5>2, <7>2
              <8>2. sent[h].in = sent[n].in BY <1>11, <8>1
              <8> QED BY <1>3, <3>5, <8>1, <8>2 DEF Due
            <7> QED BY <7>1, <7>2
          <6> QED BY <3>1, <6>1, <6>2 DEF GivenInv
        <5> QED BY <5>1, <5>2
      <4> QED BY <1>5, <3>1, <4>1, <4>2 DEF GivenInv, Handed, Due, Complete, End
    <3> QED BY <1>4, <3>4, <3>5
  <2> QED BY <1>5, <2>3, <2>4 DEF InputInv
<1> QED BY <1>13, <1>14

-----------------------------------------------------------------------------
LEMMA InputInit ==
  ASSUME Init
  PROVE  InputInv
<1>1. /\ turn = "device" /\ sent = <<>> /\ split = FALSE
      /\ from = 0 /\ to = 0 /\ pktlen = 0 /\ given = <<>>
  BY DEF Init
<1>2. UsbMru \in Nat /\ DevMru \in Nat /\ MaxPackets \in Nat BY InputAssumption
<1>3. DOMAIN sent = {} /\ DOMAIN given = {} /\ Len(sent) = 0 BY <1>1
<1>4. TypeOK
  <2>1. pktlen \in 0..DevMru /\ from \in Nat /\ to \in Nat /\ from <= to BY <1>1, <1>2
  <2>2. sent \in Seq(PacketType) /\ given \in Seq(GivenType) BY <1>1
  <2>3. turn \in {"device", "program"} /\ split \in BOOLEAN BY <1>1
  <2> QED BY <2>1, <2>2, <2>3 DEF TypeOK, PacketType, GivenType
<1>5. Shape BY <1>2, <1>3 DEF Shape
<1>6. ~Mixed BY <1>3 DEF Mixed
<1>7. Fill BY <1>1, <1>2, <1>3 DEF Fill
<1>8. GivenInv BY <1>3 DEF GivenInv
<1> QED BY <1>4, <1>5, <1>7, <1>8 DEF InputInv

LEMMA InputStep ==
  ASSUME InputInv, [Next]_vars
  PROVE  InputInv'
<1>1. CASE \E size \in Lengths, known \in BOOLEAN : PutWhole(size, known)
  BY <1>1, PutWholeStep
<1>2. CASE \E size \in Lengths, known \in BOOLEAN : PutFirst(size, known)
  BY <1>2, PutFirstStep
<1>3. CASE PutNext BY <1>3, PutNextStep
<1>4. CASE Deliver \/ DeviceAdd BY <1>4, HandOverStep
<1>5. CASE DeviceDataInput
  <2>1. split \/ ~split OBVIOUS
  <2> QED BY <1>5, <2>1, CallParted, CallTiles
<1>6. CASE UNCHANGED vars
  <2>1. UNCHANGED <<turn, sent, split, from, to, pktlen, given>> BY <1>6 DEF vars
  <2>2. TypeOK' /\ Shape' /\ (Parted => Parted') /\ Mixed' = Mixed
    BY <2>1 DEF InputInv, TypeOK, Shape, Parted, Mixed, Complete, End, Buffer
  <2>3. \A h : Tiles(h) => Tiles(h)' BY <2>1 DEF Tiles, Complete, End, Buffer
  <2>4. Fill' BY <2>1, <2>2, <2>3 DEF InputInv, Fill, Complete, End
  <2>5. ~Mixed' => GivenInv'
    BY <2>1, <2>2 DEF InputInv, GivenInv, Handed, Due, Complete, End
  <2> QED BY <2>2, <2>4, <2>5 DEF InputInv
<1> QED BY <1>1, <1>2, <1>3, <1>4, <1>5, <1>6 DEF Next, Device

\* When a transfer is processed, what its calls have handed on is what it completed.
LEMMA InputReassembled ==
  ASSUME InputInv
  PROVE  Reassembled
<1> SUFFICES ASSUME from = to, ~Mixed
             PROVE  /\ \A i, j \in DOMAIN given : i < j => given[i].packet < given[j].packet
                    /\ \A n \in DOMAIN sent : Handed(n) <=> Due(n)
                    /\ \A i \in DOMAIN given :
                         \/ given[i].upto = End(given[i].packet)
                         \/ \E m \in DOMAIN sent :
                              m > given[i].packet /\ sent[m].in = sent[given[i].packet].in
  BY DEF Reassembled
<1>1. GivenInv /\ \A n \in DOMAIN sent : Complete(n) => End(n) <= from
  BY DEF InputInv, Fill
<1> QED BY <1>1 DEF GivenInv, Due

\* Whatever the device sends and however it cuts it, for any sizes of transfers and of
\* pktbuf: what pktbuf holds never exceeds it, and lengths stay in their range
\* (device.cpp:921-935).
THEOREM InputTypes == Spec => []TypeOK
<1>1. InputInv => TypeOK BY DEF InputInv
<1> QED BY <1>1, InputInit, InputStep, PTL DEF Spec

\* For any sizes of transfers and of pktbuf and any packets, cut as a device cuts them or
\* several to a transfer: those that are complete are handed on once each and in their
\* order, up to one of an unknown protocol in the same transfer, and one that ends its
\* transfer with its own payload (device.cpp:444-449 and 893-999).  It does not speak of
\* the two things NoneLost and PayloadsOwn show to go wrong.
THEOREM ReassembledCorrect == Spec => []Reassembled
<1> QED BY InputInit, InputStep, InputReassembled, PTL DEF Spec
=============================================================================
