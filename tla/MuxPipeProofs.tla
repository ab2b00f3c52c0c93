---------------------------- MODULE MuxPipeProofs ----------------------------
(***************************************************************************)
(* MuxConnection implements BytePipe for every size of the buffers,        *)
(* packets and sequence space: under the mapping of MCMuxConnection each   *)
(* step of a handler is a step of the pair of bounded pipes, or none.  The *)
(* bound of a pipe is what Flow says of the arc its bytes lie on, so the   *)
(* payloads on their way are first shown to add up to a part of that arc.  *)
(***************************************************************************)
EXTENDS MuxConnectionProofs, MCMuxConnection, FiniteSetTheorems

-----------------------------------------------------------------------------
(***************************************************************************)
(* Induction, without an operator as a parameter.                          *)
(***************************************************************************)

\* What is good for a finite set if it is good for each set whose proper subsets are
\* all good.
LEMMA SubsetInduction ==
  ASSUME NEW A, IsFiniteSet(A), NEW Good,
         \A T \in SUBSET A : (\A U \in SUBSET T : U # T => U \in Good) => T \in Good
  PROVE  A \in Good
<1> DEFINE Bad == {T \in SUBSET A : T \notin Good}
<1> SUFFICES ASSUME Bad # {} PROVE FALSE
  OBVIOUS
<1>1. Bad \subseteq FiniteSubsetsOf(A) BY FS_FiniteSubsetsOfFinite
<1>2. PICK x \in Bad : \A y \in Bad : ~ (<<y, x>> \in StrictSubsetOrdering(A))
  <2> HIDE DEF Bad
  <2> QED BY <1>1, FS_StrictSubsetOrderingWellFounded, WFMin
<1>3. \A y \in Bad : ~(y \subseteq x /\ y # x)
  BY <1>2 DEF StrictSubsetOrdering
<1> QED BY <1>3

\* The natural numbers by induction, for a set of them.
LEMMA NatSet ==
  ASSUME NEW S, 0 \in S, \A k \in Nat : k \in S => k + 1 \in S, NEW n \in Nat
  PROVE  n \in S
<1> DEFINE Good == {T \in SUBSET (1..n) : \A m \in Nat : T = 1..m => m \in S}
<1>0. IsFiniteSet(1..n) BY FS_Interval
<1>1. ASSUME NEW T \in SUBSET (1..n), \A U \in SUBSET T : U # T => U \in Good
      PROVE  T \in Good
  <2>1. ASSUME NEW m \in Nat, T = 1..m PROVE m \in S
    <3>1. CASE m = 0 BY <3>1
    <3>2. CASE m # 0
      <4>1. PICK k \in Nat : m = k + 1
        <5>1. m - 1 \in Nat /\ m = (m - 1) + 1 BY <3>2
        <5> QED BY <5>1
      <4>2. 1..k \in SUBSET T /\ 1..k # T
        <5>1. m \in T /\ m \notin 1..k BY <2>1, <4>1
        <5>2. 1..k \subseteq 1..m BY <4>1
        <5> QED BY <2>1, <5>1, <5>2
      <4>3. 1..k \in Good BY <1>1, <4>2
      <4>4. k \in S BY <4>3
      <4> QED BY <4>1, <4>4
    <3> QED BY <3>1, <3>2
  <2> QED BY <2>1
<1>2. 1..n \in Good
  <2>1. \A T \in SUBSET (1..n) : (\A U \in SUBSET T : U # T => U \in Good) => T \in Good
    BY <1>1
  <2> DEFINE A == 1..n
  <2>2. IsFiniteSet(A) /\ \A T \in SUBSET A : (\A U \in SUBSET T : U # T => U \in Good) => T \in Good
    BY <1>0, <2>1
  <2> HIDE DEF Good, A
  <2>3. A \in Good BY <2>2, SubsetInduction
  <2> QED BY <2>3 DEF A
<1> QED BY <1>2

-----------------------------------------------------------------------------
(***************************************************************************)
(* The payload of a channel.                                               *)
(***************************************************************************)

\* f[i] is what the first i packets carry.
Sums(chan, f) ==
  /\ f = [i \in 0 .. Len(chan) |-> f[i]]
  /\ f[0] = 0
  /\ \A i \in 1 .. Len(chan) : f[i] = f[i - 1] + chan[i].len

\* The function in Payload exists.
LEMMA SumsExist ==
  ASSUME NEW chan \in Seq(Packet)
  PROVE  \E f : Sums(chan, f)
<1> DEFINE n == Len(chan)
           S == {k \in Nat : \E f \in [0 .. k -> Nat] :
                    f[0] = 0 /\ \A i \in 1 .. k : i <= n => f[i] = f[i - 1] + chan[i].len}
<1>1. n \in Nat OBVIOUS
<1>2. 0 \in S
  <2> DEFINE z == [i \in 0 .. 0 |-> 0]
  <2>1. z \in [0 .. 0 -> Nat] /\ z[0] = 0 OBVIOUS
  <2>2. \A i \in 1 .. 0 : i <= n => z[i] = z[i - 1] + chan[i].len OBVIOUS
  <2> HIDE DEF z
  <2> QED BY <2>1, <2>2
<1>3. ASSUME NEW k \in Nat, k \in S PROVE k + 1 \in S
  <2>1. PICK f \in [0 .. k -> Nat] :
           f[0] = 0 /\ \A i \in 1 .. k : i <= n => f[i] = f[i - 1] + chan[i].len
    BY <1>3
  <2> DEFINE g == [i \in 0 .. k + 1 |->
                     IF i <= k THEN f[i] ELSE IF k + 1 <= n THEN f[k] + chan[k + 1].len ELSE 0]
  <2>2. k + 1 <= n => chan[k + 1].len \in Nat
    BY <1>1, Elements
  <2>3. g \in [0 .. k + 1 -> Nat]
    <3>1. ASSUME NEW i \in 0 .. k + 1 PROVE g[i] \in Nat
      <4>1. CASE i <= k
        <5>1. i \in 0 .. k BY <4>1
        <5> QED BY <2>1, <4>1, <5>1
      <4>2. CASE ~(i <= k) BY <2>1, <2>2, <4>2
      <4> QED BY <4>1, <4>2
    <3> QED BY <3>1
  <2>4. g[0] = 0 BY <2>1
  <2>5. ASSUME NEW i \in 1 .. k + 1, i <= n PROVE g[i] = g[i - 1] + chan[i].len
    <3>1. CASE i <= k
      <4>1. i \in 1 .. k /\ i - 1 \in 0 .. k + 1 /\ i - 1 <= k /\ i \in 0 .. k + 1 BY <3>1
      <4>2. g[i] = f[i] /\ g[i - 1] = f[i - 1] BY <3>1, <4>1
      <4> QED BY <2>1, <2>5, <4>1, <4>2
    <3>2. CASE i = k + 1
      <4>1. g[i] = f[k] + chan[k + 1].len /\ g[i - 1] = f[k] BY <2>5, <3>2
      <4> QED BY <3>2, <4>1
    <3> QED BY <3>1, <3>2
  <2> HIDE DEF g
  <2>6. \A i \in 1 .. k + 1 : i <= n => g[i] = g[i - 1] + chan[i].len BY <2>5
  <2>7. \E h \in [0 .. k + 1 -> Nat] :
          h[0] = 0 /\ \A i \in 1 .. k + 1 : i <= n => h[i] = h[i - 1] + chan[i].len
    BY <2>3, <2>4, <2>6
  <2>8. k + 1 \in Nat OBVIOUS
  <2> QED BY <2>7, <2>8, Zenon
<1>4. n \in S
  <2> HIDE DEF S
  <2> QED BY <1>1, <1>2, <1>3, NatSet
<1>5. PICK f \in [0 .. n -> Nat] :
        f[0] = 0 /\ \A i \in 1 .. n : i <= n => f[i] = f[i - 1] + chan[i].len
  BY <1>4
<1>6. Sums(chan, f) BY <1>1, <1>5 DEF Sums
<1> QED BY <1>6

\* Its values are natural numbers.
LEMMA SumsType ==
  ASSUME NEW chan \in Seq(Packet), NEW f, Sums(chan, f), NEW n \in 0 .. Len(chan)
  PROVE  f[n] \in Nat
<1> DEFINE S == {k \in Nat : k <= Len(chan) => f[k] \in Nat}
<1>1. 0 \in S BY DEF Sums
<1>2. ASSUME NEW k \in Nat, k \in S PROVE k + 1 \in S
  <2>1. CASE k + 1 <= Len(chan)
    <3>1. k + 1 \in 1 .. Len(chan) /\ (k + 1) - 1 = k /\ f[k] \in Nat BY <1>2, <2>1
    <3>2. f[k + 1] = f[(k + 1) - 1] + chan[k + 1].len BY <3>1 DEF Sums
    <3>3. chan[k + 1].len \in Nat BY <3>1, Elements
    <3>4. f[k + 1] \in Nat BY <3>1, <3>2, <3>3
    <3> QED BY <3>4
  <2>2. CASE ~(k + 1 <= Len(chan)) BY <2>2
  <2> QED BY <2>1, <2>2
<1>3. n \in Nat /\ n <= Len(chan) OBVIOUS
<1>4. n \in S
  <2> HIDE DEF S
  <2> QED BY <1>1, <1>2, <1>3, NatSet
<1> QED BY <1>3, <1>4

\* The payload is the last sum, whichever way the sums are found.
LEMMA PayloadIs ==
  ASSUME NEW chan \in Seq(Packet), NEW f, Sums(chan, f)
  PROVE  Payload(chan) = f[Len(chan)]
<1> DEFINE n == Len(chan)
           R(g) == g = [i \in 0 .. n |-> IF i = 0 THEN 0 ELSE g[i - 1] + chan[i].len]
           c == CHOOSE g : R(g)
<1>1. n \in Nat OBVIOUS
<1>2. ASSUME NEW g PROVE R(g) <=> Sums(chan, g)
  <2>1. R(g) => Sums(chan, g)
    <3> SUFFICES ASSUME R(g) PROVE Sums(chan, g) OBVIOUS
    <3>1. \A i \in 0 .. n : g[i] = IF i = 0 THEN 0 ELSE g[i - 1] + chan[i].len OBVIOUS
    <3>2. g = [i \in 0 .. n |-> g[i]] OBVIOUS
    <3> HIDE DEF R
    <3>3. g[0] = 0 BY <1>1, <3>1
    <3>4. \A i \in 1 .. n : g[i] = g[i - 1] + chan[i].len BY <1>1, <3>1
    <3> QED BY <3>2, <3>3, <3>4, Zenon DEF Sums
  <2>2. Sums(chan, g) => R(g)
    <3> SUFFICES ASSUME Sums(chan, g) PROVE R(g) OBVIOUS
    <3>1. \A i \in 0 .. n : g[i] = IF i = 0 THEN 0 ELSE g[i - 1] + chan[i].len
      BY <1>1 DEF Sums
    <3>2. g = [i \in 0 .. n |-> g[i]] BY DEF Sums
    <3> QED BY <3>1, <3>2
  <2> QED BY <2>1, <2>2
<1>3. R(c)
  <2>1. \E g : R(g) BY <1>2
  <2> HIDE DEF R
  <2> QED BY <2>1
<1>4. Sums(chan, c) BY <1>2, <1>3
<1>5. Payload(chan) = c[n] BY DEF Payload
<1> HIDE DEF c
<1> DEFINE S == {k \in Nat : k <= n => f[k] = c[k]}
<1>6. 0 \in S BY <1>4 DEF Sums
<1>7. ASSUME NEW k \in Nat, k \in S PROVE k + 1 \in S
  <2>1. CASE k + 1 <= n
    <3>1. k + 1 \in 1 .. n /\ f[k] = c[k] /\ (k + 1) - 1 = k BY <1>1, <1>7, <2>1
    <3>2. f[k + 1] = f[(k + 1) - 1] + chan[k + 1].len BY <3>1 DEF Sums
    <3>3. c[k + 1] = c[(k + 1) - 1] + chan[k + 1].len BY <1>4, <3>1 DEF Sums
    <3> QED BY <3>1, <3>2, <3>3
  <2>2. CASE ~(k + 1 <= n) BY <2>2
  <2> QED BY <2>1, <2>2
<1>8. n \in S
  <2> HIDE DEF S
  <2> QED BY <1>1, <1>6, <1>7, NatSet
<1> QED BY <1>1, <1>5, <1>8

\* No packet, no byte.
LEMMA PayloadEmpty == Payload(<<>>) = 0
<1> DEFINE e == <<>>
           f == [i \in 0 .. 0 |-> 0]
<1>1. e \in Seq(Packet) /\ Len(e) = 0 OBVIOUS
<1>2. Sums(e, f)
  <2>1. f = [i \in 0 .. 0 |-> f[i]] /\ f[0] = 0 OBVIOUS
  <2> HIDE DEF e, f
  <2> QED BY <1>1, <2>1 DEF Sums
<1>3. Payload(e) = f[Len(e)]
  <2> HIDE DEF e, f
  <2> QED BY <1>1, <1>2, PayloadIs
<1> QED BY <1>3

\* A packet that is sent adds its bytes to those under way.
LEMMA PayloadAdd ==
  ASSUME NEW chan \in Seq(Packet), NEW q \in Packet
  PROVE  Payload(Append(chan, q)) = Payload(chan) + q.len
<1> DEFINE n == Len(chan)
           a == Append(chan, q)
<1>1. PICK f : Sums(chan, f) BY SumsExist
<1> DEFINE g == [i \in 0 .. n + 1 |-> IF i <= n THEN f[i] ELSE f[n] + q.len]
<1>2. /\ n \in Nat /\ a \in Seq(Packet) /\ Len(a) = n + 1 /\ a[n + 1] = q
      /\ \A i \in 1 .. n : a[i] = chan[i]
  BY Added
<1>3. Sums(a, g)
  <2>1. g = [i \in 0 .. n + 1 |-> g[i]] OBVIOUS
  <2>2. g[0] = 0 BY <1>1, <1>2 DEF Sums
  <2>3. ASSUME NEW i \in 1 .. n + 1 PROVE g[i] = g[i - 1] + a[i].len
    <3>1. CASE i <= n
      <4>1. i \in 1 .. n /\ i - 1 \in 0 .. n + 1 /\ i - 1 <= n BY <1>2, <3>1
      <4>2. g[i] = f[i] /\ g[i - 1] = f[i - 1] /\ a[i] = chan[i] BY <1>2, <3>1, <4>1
      <4>3. f[i] = f[i - 1] + chan[i].len BY <1>1, <4>1 DEF Sums
      <4> QED BY <4>2, <4>3
    <3>2. CASE i = n + 1
      <4>1. i - 1 = n /\ n \in 0 .. n + 1 /\ n + 1 \in 0 .. n + 1 /\ ~(n + 1 <= n) BY <1>2, <3>2
      <4>2. g[i] = f[n] + q.len /\ g[i - 1] = f[n] BY <1>2, <3>2, <4>1
      <4> QED BY <1>2, <3>2, <4>2
    <3> QED BY <1>2, <3>1, <3>2
  <2> HIDE DEF g, a, n
  <2> QED BY <1>2, <2>1, <2>2, <2>3 DEF Sums
<1>4. Payload(chan) = f[n] BY <1>1, PayloadIs
<1>5. Payload(a) = g[n + 1]
  <2> HIDE DEF g, a, n
  <2> QED BY <1>2, <1>3, PayloadIs
<1>6. g[n + 1] = f[n] + q.len BY <1>2
<1> QED BY <1>4, <1>5, <1>6

\* A packet that is taken takes its bytes with it.
LEMMA PayloadTake ==
  ASSUME NEW chan \in Seq(Packet), chan # <<>>
  PROVE  Payload(Tail(chan)) = Payload(chan) - Head(chan).len
<1> DEFINE n == Len(chan)
           t == Tail(chan)
           p == Head(chan)
<1>1. PICK f : Sums(chan, f) BY SumsExist
<1> DEFINE g == [i \in 0 .. n - 1 |-> f[i + 1] - p.len]
<1>2. /\ n \in Nat \ {0} /\ t \in Seq(Packet) /\ Len(t) = n - 1 /\ p = chan[1] /\ p \in Packet
      /\ \A i \in 1 .. n - 1 : t[i] = chan[i + 1] /\ i + 1 \in 1 .. n
  BY Took
<1>3. p.len \in Nat BY <1>2, BufferAssumption DEF Packet, SeqNum
<1>4. f[1] = p.len
  <2>1. 1 \in 1 .. n /\ 1 - 1 = 0 BY <1>2
  <2>2. f[1] = f[1 - 1] + chan[1].len BY <1>1, <2>1 DEF Sums
  <2>3. f[1] = 0 + p.len BY <1>1, <1>2, <2>1, <2>2 DEF Sums
  <2> QED BY <1>3, <2>3
<1>5. \A k \in 0 .. n : f[k] \in Nat BY <1>1, SumsType
<1>6. Sums(t, g)
  <2>1. g = [i \in 0 .. n - 1 |-> g[i]] OBVIOUS
  <2>2. g[0] = 0
    <3>1. 0 \in 0 .. n - 1 /\ 0 + 1 = 1 BY <1>2
    <3>2. g[0] = f[0 + 1] - p.len BY <3>1
    <3> QED BY <1>3, <1>4, <3>1, <3>2
  <2>3. ASSUME NEW i \in 1 .. n - 1 PROVE g[i] = g[i - 1] + t[i].len
    <3>1. /\ i \in 0 .. n - 1 /\ i - 1 \in 0 .. n - 1 /\ (i - 1) + 1 = i /\ (i + 1) - 1 = i
          /\ i \in Nat /\ i <= n
      BY <1>2
    <3>2. g[i] = f[i + 1] - p.len /\ g[i - 1] = f[i] - p.len BY <3>1
    <3>3. t[i] = chan[i + 1] /\ i + 1 \in 1 .. n BY <1>2
    <3>4. f[i + 1] = f[(i + 1) - 1] + chan[i + 1].len BY <1>1, <3>3 DEF Sums
    <3>5. f[i] \in Nat /\ chan[i + 1].len \in Nat BY <1>5, <3>1, <3>3, Elements
    <3> HIDE DEF g, t, n, p
    <3> QED BY <1>3, <3>1, <3>2, <3>3, <3>4, <3>5
  <2> HIDE DEF g, t, n
  <2> QED BY <1>2, <2>1, <2>2, <2>3 DEF Sums
<1>7. Payload(chan) = f[n] BY <1>1, PayloadIs
<1>8. Payload(t) = g[n - 1]
  <2> HIDE DEF g, t, n
  <2> QED BY <1>2, <1>6, PayloadIs
<1>9. g[n - 1] = f[n] - p.len
  <2>1. n - 1 \in 0 .. n - 1 /\ (n - 1) + 1 = n BY <1>2
  <2> HIDE DEF n
  <2> QED BY <2>1
<1> HIDE DEF g, t, p, n
<1> QED BY <1>7, <1>8, <1>9 DEF t, p

\* Packets without payload add up to nothing.
LEMMA PayloadZero ==
  ASSUME NEW chan \in Seq(Packet), \A i \in 1 .. Len(chan) : chan[i].len = 0
  PROVE  Payload(chan) = 0
<1> DEFINE f == [i \in 0 .. Len(chan) |-> 0]
<1>1. Len(chan) \in Nat OBVIOUS
<1>2. Sums(chan, f)
  <2>1. f = [i \in 0 .. Len(chan) |-> f[i]] /\ f[0] = 0 BY <1>1
  <2>2. ASSUME NEW i \in 1 .. Len(chan) PROVE f[i] = f[i - 1] + chan[i].len
    <3>1. f[i] = 0 /\ f[i - 1] = 0 BY <1>1
    <3> QED BY <3>1
  <2> HIDE DEF f
  <2> QED BY <2>1, <2>2 DEF Sums
<1>3. Payload(chan) = f[Len(chan)]
  <2> HIDE DEF f
  <2> QED BY <1>2, PayloadIs
<1> QED BY <1>1, <1>3

\* The packets of a chain carry what lies between its ends.
LEMMA PayloadChain ==
  ASSUME NEW chan \in Seq(Packet), NEW from \in SeqNum, NEW to \in SeqNum, NEW base \in SeqNum,
         Chain(chan, from, to, base)
  PROVE  Payload(chan) = SeqSub(to, base) - SeqSub(from, base)
<1> DEFINE n == Len(chan)
           at(i) == IF i < n THEN chan[i + 1].seq ELSE to
           f == [i \in 0 .. n |-> SeqSub(at(i), base) - SeqSub(from, base)]
<1>1. n \in Nat OBVIOUS
<1>2. SeqSub(from, base) \in Nat /\ SeqSub(to, base) \in SeqNum /\ SeqSub(to, base) \in Nat
  BY OffsetRange
<1>3. at(0) = from
  <2>1. CASE n = 0
    <3>1. chan = <<>> BY <2>1, EmptySeq
    <3> QED BY <2>1, <3>1 DEF Chain
  <2>2. CASE n > 0
    <3>1. 1 \in 1 .. n BY <1>1, <2>2
    <3> QED BY <2>2, <3>1, Link
  <2> QED BY <1>1, <2>1, <2>2
<1>4. ASSUME NEW i \in 1 .. n PROVE f[i] = f[i - 1] + chan[i].len
  <2>1. chan[i].seq \in SeqNum /\ chan[i].len \in Nat BY Elements
  <2>2. SeqSub(chan[i].seq, base) + chan[i].len <= SeqSub(to, base) BY Link
  <2>3. SeqSub(chan[i].seq, base) \in Nat BY <2>1, OffsetRange
  <2>4. SeqSub(chan[i].seq, base) + chan[i].len < SeqSpace
    BY <1>2, <2>1, <2>2, <2>3, BufferAssumption DEF SeqNum
  <2>5. SeqSub(SeqAdd(chan[i].seq, chan[i].len), base) = SeqSub(chan[i].seq, base) + chan[i].len
    BY <2>1, <2>4, OffsetAdd
  <2>6. at(i) = SeqAdd(chan[i].seq, chan[i].len) BY <1>1, Link
  <2>7. at(i - 1) = chan[i].seq
    <3>1. i - 1 < n /\ (i - 1) + 1 = i BY <1>1
    <3> QED BY <3>1
  <2>8. i \in 0 .. n /\ i - 1 \in 0 .. n BY <1>1
  <2>9. f[i] = SeqSub(at(i), base) - SeqSub(from, base) BY <2>8
  <2>10. f[i - 1] = SeqSub(at(i - 1), base) - SeqSub(from, base) BY <2>8
  <2>11. f[i] = SeqSub(SeqAdd(chan[i].seq, chan[i].len), base) - SeqSub(from, base)
    BY <2>6, <2>9, Zenon
  <2>12. f[i - 1] = SeqSub(chan[i].seq, base) - SeqSub(from, base) BY <2>7, <2>10, Zenon
  <2> HIDE DEF f, at
  <2> QED BY <1>2, <2>1, <2>3, <2>5, <2>11, <2>12
<1>5. Sums(chan, f)
  <2>1. f = [i \in 0 .. n |-> f[i]] OBVIOUS
  <2>2. f[0] = 0
    <3>1. 0 \in 0 .. n BY <1>1
    <3> HIDE DEF at, n
    <3>2. f[0] = SeqSub(from, base) - SeqSub(from, base) BY <1>3, <3>1
    <3> HIDE DEF f
    <3> QED BY <1>2, <3>2
  <2> HIDE DEF f
  <2> QED BY <1>4, <2>1, <2>2 DEF Sums
<1>6. Payload(chan) = f[n]
  <2> HIDE DEF f
  <2> QED BY <1>5, PayloadIs
<1> QED BY <1>1, <1>6

\* The payloads under way add up to a natural number.
LEMMA PayloadType ==
  ASSUME NEW chan \in Seq(Packet)
  PROVE  Payload(chan) \in Nat
<1>1. PICK f : Sums(chan, f) BY SumsExist
<1>2. Len(chan) \in 0 .. Len(chan) OBVIOUS
<1> QED BY <1>1, <1>2, SumsType, PayloadIs

\* What is on its way lies between what the receiver has and what it has room for.
LEMMA FlowPayload ==
  ASSUME NEW data, NEW acks, NEW at, NEW room, NEW next, NEW win, NEW base, NEW bound,
         FlowType(data, acks, at, room, next, win, base, bound),
         Flow(data, acks, at, room, next, win, base, bound)
  PROVE  Payload(data) <= room
<1>1. /\ data \in Seq(Packet) /\ at \in SeqNum /\ next \in SeqNum /\ base \in SeqNum /\ room \in Int
  BY DEF FlowType
<1>2. Payload(data) = SeqSub(next, base) - SeqSub(at, base)
  BY <1>1, PayloadChain DEF Flow
<1>3. SeqSub(next, base) <= SeqSub(at, base) + room BY DEF Flow, Sender
<1>4. SeqSub(next, base) \in Nat /\ SeqSub(at, base) \in Nat BY <1>1, OffsetRange
<1> QED BY <1>1, <1>2, <1>3, <1>4

-----------------------------------------------------------------------------
(***************************************************************************)
(* What the mapping needs besides IInv: after the RST of a teardown no     *)
(* data follows, and a device that is not there is sent none; the reply OK *)
(* is on its way, or has got there, only while the connection is up.       *)
(***************************************************************************)

NoData(chan) == \A i \in 1 .. Len(chan) : chan[i].len = 0
NoDataAfterReset(chan) ==
  \A i, j \in 1 .. Len(chan) : i < j /\ chan[i].flags = "RST" => chan[j].len = 0
Silent(chan) == NoDataAfterReset(chan) /\ (dev.state = "NONE" => NoData(chan))

SilentInv == conn.state # "CONNECTED" => Silent(h2d)
ReplyInv ==
  /\ client.reply = "OK" => client.state \in {"CONNECTING2", "FREED"}
  /\ sock.res = "OK" => client.state \in {"CONNECTED", "FREED"}
PipeInv == SilentInv /\ ReplyInv

PipeStep == [Pipe!Next]_(Pipe!vars)

\* A packet without data does not break the silence.
LEMMA SilentAdd ==
  ASSUME NEW chan \in Seq(Packet), Silent(chan), NEW q \in Packet, q.len = 0
  PROVE  Silent(Append(chan, q))
<1> DEFINE a == Append(chan, q)
           n == Len(chan)
<1>1. /\ n \in Nat /\ Len(a) = n + 1 /\ a[n + 1] = q /\ \A i \in 1 .. n : a[i] = chan[i]
  BY Added
<1> HIDE DEF a
<1>2. NoData(chan) => NoData(a) BY <1>1 DEF NoData
<1>3. NoDataAfterReset(a)
  <2>1. SUFFICES ASSUME NEW i \in 1 .. n + 1, NEW j \in 1 .. n + 1, i < j, a[i].flags = "RST"
                 PROVE  a[j].len = 0
    BY <1>1 DEF NoDataAfterReset
  <2>2. CASE j \in 1 .. n
    <3>1. i \in 1 .. n BY <1>1, <2>1, <2>2
    <3> QED BY <1>1, <2>1, <2>2, <3>1 DEF Silent, NoDataAfterReset
  <2>3. CASE j = n + 1 BY <1>1, <2>3
  <2> QED BY <1>1, <2>2, <2>3
<1> QED BY <1>2, <1>3 DEF Silent, a

\* Nor does taking the first one.
LEMMA SilentTake ==
  ASSUME NEW chan \in Seq(Packet), chan # <<>>, NoDataAfterReset(chan)
  PROVE  /\ NoDataAfterReset(Tail(chan))
         /\ NoData(chan) => NoData(Tail(chan)) /\ Head(chan).len = 0
         /\ Head(chan).flags = "RST" => NoData(Tail(chan))
<1> DEFINE t == Tail(chan)
<1>1. /\ Head(chan) = chan[1] /\ Len(chan) \in Nat \ {0} /\ Len(t) = Len(chan) - 1
      /\ \A i \in 1 .. Len(t) : t[i] = chan[i + 1] /\ i + 1 \in 1 .. Len(chan)
  BY Took
<1> HIDE DEF t
<1>2. NoDataAfterReset(t)
  <2>1. SUFFICES ASSUME NEW i \in 1 .. Len(t), NEW j \in 1 .. Len(t), i < j, t[i].flags = "RST"
                 PROVE  t[j].len = 0
    BY DEF NoDataAfterReset
  <2>2. i + 1 < j + 1 BY <1>1, <2>1
  <2> QED BY <1>1, <2>1, <2>2 DEF NoDataAfterReset
<1>3. NoData(chan) => NoData(t) /\ Head(chan).len = 0 BY <1>1 DEF NoData
<1>4. Head(chan).flags = "RST" => NoData(t)
  <2>1. SUFFICES ASSUME Head(chan).flags = "RST", NEW i \in 1 .. Len(t) PROVE t[i].len = 0
    BY DEF NoData
  <2>2. 1 \in 1 .. Len(chan) /\ 1 < i + 1 BY <1>1
  <2> QED BY <1>1, <2>1, <2>2 DEF NoDataAfterReset
<1> QED BY <1>2, <1>3, <1>4 DEF t

\* Also while the connection is up: all packets are acknowledgements then.
LEMMA AlwaysSilent ==
  ASSUME IInv, PipeInv
  PROVE  Silent(h2d)
<1>1. CASE conn.state # "CONNECTED" BY <1>1 DEF PipeInv, SilentInv
<1>2. CASE conn.state = "CONNECTED"
  <2>1. /\ dev.state # "NONE"
        /\ Flow(d2h, h2d, conn.tx_ack, conn.tx_win, dev.seq, dev.win, dev.una, InBufSize)
    BY <1>2 DEF IInv, UpInv
  <2>2. \A i \in 1 .. Len(h2d) : h2d[i].flags = "ACK" BY <2>1 DEF Flow
  <2> QED BY <2>1, <2>2 DEF Silent, NoDataAfterReset
<1> QED BY <1>1, <1>2

\* An empty packet adds nothing.
LEMMA PayloadSame ==
  ASSUME NEW chan \in Seq(Packet), NEW q \in Packet, q.len = 0
  PROVE  Payload(Append(chan, q)) = Payload(chan)
<1>1. Payload(chan) \in Nat BY PayloadType
<1> QED BY <1>1, PayloadAdd

\* The RST of a teardown is one empty packet more, or none.
LEMMA RstShape ==
  ASSUME NEW c, TeardownRst(c) \in Seq(Packet), NEW out \in Seq(Packet)
  PROVE  \/ out \o TeardownRst(c) = out
         \/ \E q \in Packet : q.len = 0 /\ out \o TeardownRst(c) = Append(out, q)
<1> DEFINE q == Tcp(c, "RST", 0)
           r == TeardownRst(c)
<1>1. q.len = 0 BY DEF Tcp
<1>2. r = <<>> \/ r = <<q>> BY DEF TeardownRst
<1> HIDE DEF q, r
<1>3. CASE r = <<>>
  <2>1. out \o <<>> = out OBVIOUS
  <2> QED BY <1>3, <2>1 DEF r
<1>4. CASE r = <<q>>
  <2>1. <<q>> \in Seq(Packet) BY <1>4 DEF r
  <2>2. q \in Packet BY <2>1
  <2>3. out \o <<q>> = Append(out, q) BY <2>2
  <2> QED BY <1>1, <1>4, <2>2, <2>3 DEF r
<1> QED BY <1>2, <1>3, <1>4

-----------------------------------------------------------------------------
(***************************************************************************)
(* The steps.                                                              *)
(***************************************************************************)

\* A step that leaves all that the mapping reads alone is none of BytePipe.
LEMMA Stutter ==
  ASSUME UNCHANGED <<PipeState, AppUp, Alive, UpBytes, sock.out, sock.in, DownBytes>>
  PROVE  PipeStep
BY DEF PipeStep, Pipe!vars

\* What the host adds to the channel when it sends no data.
LEMMA HostSilent ==
  ASSUME NEW out \in Seq(Packet), Silent(out), Payload(out) = Payload(h2d), UNCHANGED dev,
         h2d' = out \/ \E q \in Packet : q.len = 0 /\ h2d' = Append(out, q)
  PROVE  SilentInv' /\ DownBytes' = DownBytes /\ Alive' = Alive
<1>1. Silent(h2d')
  BY SilentAdd
<1>2. Payload(h2d') = Payload(h2d)
  BY PayloadSame
<1> QED BY <1>1, <1>2 DEF SilentInv, Silent, DownBytes, Alive

\* The connection ends, and k bytes of what it held still get out.
LEMMA HostEnds ==
  ASSUME IInv, PipeInv, PipeState # "done", conn' = NoConn, client'.state = "FREED",
         UNCHANGED dev, NEW out \in Seq(Packet), Silent(out), Payload(out) = Payload(h2d),
         h2d' = out \/ \E q \in Packet : q.len = 0 /\ h2d' = Append(out, q),
         NEW k \in 0 .. UpBytes, sock' = [sock EXCEPT !.out = @ + k]
  PROVE  PipeInv' /\ PipeStep
<1>1. sock \in Socket BY DEF IInv, LocalInv, TypeOK
<1>2. sock'.out = sock.out + k /\ sock'.in = sock.in /\ sock'.peer = sock.peer
  BY <1>1 DEF Socket
<1>3. SilentInv' /\ DownBytes' = DownBytes /\ Alive' = Alive BY HostSilent
<1>4. ReplyInv' BY DEF ReplyInv
<1>5. PipeState' = "done" /\ UpBytes' = 0 /\ AppUp' = AppUp
  BY <1>2 DEF PipeState, UpBytes, AppUp, NoConn
<1>6. Pipe!Ends
  BY <1>2, <1>3, <1>5 DEF Pipe!Ends
<1> QED BY <1>3, <1>4, <1>6 DEF PipeInv, PipeStep, Pipe!Next

\* connection_teardown ends both pipes.
LEMMA TeardownEnds ==
  ASSUME IInv, PipeInv, conn.state = "CONNECTED", UNCHANGED dev,
         NEW b \in Connection, b.ib_size <= conn.ib_size, NEW s, NEW c, c = [b EXCEPT !.state = s],
         c.state \notin {"CONNECTING", "REFUSED"},
         NEW out \in Seq(Packet), Silent(out), Payload(out) = Payload(h2d), Teardown(c, out)
  PROVE  PipeInv' /\ PipeStep
<1>1. /\ client \in Client /\ sock \in Socket /\ conn \in Connection /\ d2h \in Seq(Packet)
  BY DEF IInv, LocalInv, TypeOK
<1>2. /\ conn' = NoConn /\ client' = Released(client, 1)
      /\ h2d' = out \o TeardownRst(c) /\ sock' = [sock EXCEPT !.out = @ + Flushed(c)]
  BY DEF Teardown
<1>3. client'.state = "FREED" BY <1>1, <1>2, ReleasedType
<1>4. h2d' = out \/ \E q \in Packet : q.len = 0 /\ h2d' = Append(out, q)
  <2>1. TeardownRst(c) \in Seq(Packet) BY TeardownRstType
  <2> QED BY <1>2, <2>1, RstShape
<1>5. Flushed(c) \in 0 .. UpBytes
  <2>1. /\ b.ib_size \in Nat /\ conn.ib_size \in Nat /\ sock.out \in 0 .. SockBufSize
        /\ c.ib_size = b.ib_size /\ Payload(d2h) \in Nat
    BY <1>1, PayloadType DEF Connection, Socket
  <2>2. UpBytes = conn.ib_size + Payload(d2h) BY DEF UpBytes
  <2>3. Flushed(c) \in Nat /\ Flushed(c) <= c.ib_size
    BY <2>1, EnvironmentAssumption DEF Flushed, Lesser
  <2> QED BY <2>1, <2>2, <2>3
<1>6. PipeState # "done" BY DEF PipeState
<1> QED BY <1>2, <1>3, <1>4, <1>5, <1>6, HostEnds

\* The steps that leave the two ends, the channels and the sockets' bytes alone.
LEMMA PipeFrame ==
  ASSUME PipeInv, UNCHANGED <<conn, client, dev, h2d, d2h>>,
         sock'.out = sock.out, sock'.in = sock.in, sock'.peer = sock.peer,
         sock'.res = sock.res \/ sock'.res # "OK"
  PROVE  PipeInv' /\ PipeStep
<1>1. PipeInv' BY DEF PipeInv, SilentInv, ReplyInv, Silent
<1>2. UNCHANGED <<PipeState, AppUp, Alive, UpBytes, sock.out, sock.in, DownBytes>>
  BY DEF PipeState, AppUp, Alive, UpBytes, DownBytes
<1> QED BY <1>1, <1>2, Stutter

\* The main loop's select is no step of BytePipe.
LEMMA LoopPipe == IInv /\ PipeInv /\ (Select \/ SelectTimeout) => PipeInv' /\ PipeStep
<1> SUFFICES ASSUME IInv, PipeInv, Select \/ SelectTimeout PROVE PipeInv' /\ PipeStep
  OBVIOUS
<1>1. UNCHANGED <<conn, client, sock, dev, h2d, d2h>>
  BY DEF Select, SelectTimeout, IInv, LocalInv, FlagsFresh
<1> QED BY <1>1, PipeFrame

\* What the application does: it connects, writes, reads and closes.
LEMMA AppPipe ==
  IInv /\ PipeInv /\ (AppConnect \/ AppWrite \/ AppRead \/ AppClose) => PipeInv' /\ PipeStep
<1> SUFFICES ASSUME IInv, PipeInv, AppConnect \/ AppWrite \/ AppRead \/ AppClose
             PROVE  PipeInv' /\ PipeStep
  OBVIOUS
<1>1. /\ UNCHANGED <<conn, client, dev, h2d, d2h>> /\ sock.peer = "open"
      /\ sock \in Socket /\ StatesAgree
  BY DEF App, AppConnect, AppWrite, AppRead, AppClose, IInv, LocalInv, TypeOK
<1>2. UNCHANGED <<PipeState, Alive, UpBytes, DownBytes>> /\ AppUp
  BY <1>1 DEF PipeState, AppUp, Alive, UpBytes, DownBytes
<1>3. sock'.res = sock.res => PipeInv'
  BY <1>1 DEF PipeInv, SilentInv, ReplyInv, Silent
<1>4. CASE AppConnect
  <2>1. /\ sock'.out = sock.out /\ sock'.in = sock.in /\ sock'.peer = sock.peer
        /\ sock'.res = "NONE"
    BY <1>1, <1>4 DEF AppConnect, Socket
  <2> QED BY <1>1, <2>1, PipeFrame
<1>5. CASE AppWrite
  <2>1. PICK n \in AppSizes : sock' = [sock EXCEPT !.in = @ + n]
    BY <1>5 DEF AppWrite
  <2>2. /\ sock'.out = sock.out /\ sock'.in = sock.in + n /\ sock'.peer = sock.peer
        /\ sock'.res = sock.res
    BY <1>1, <2>1 DEF Socket
  <2>3. sock'.in > sock.in
    <3>1. n \in Nat \ {0} /\ sock.in \in 0 .. SockBufSize
      BY <1>1, EnvironmentAssumption DEF Socket
    <3> QED BY <2>2, <3>1, EnvironmentAssumption
  <2>4. PipeState = "open"
    <3>1. sock.res = "OK" /\ client.state # "FREED" BY <1>5 DEF AppWrite
    <3>2. client.state = "CONNECTED" BY <3>1 DEF PipeInv, ReplyInv
    <3> QED BY <1>1, <3>2 DEF StatesAgree, PipeState
  <2>5. Pipe!AppWrites BY <1>2, <2>2, <2>3, <2>4 DEF Pipe!AppWrites, AppUp
  <2> QED BY <1>3, <2>2, <2>5 DEF PipeStep, Pipe!Next
<1>6. CASE AppRead
  <2>1. PICK n \in 1 .. sock.out : sock' = [sock EXCEPT !.out = @ - n]
    BY <1>6 DEF AppRead
  <2>2. /\ sock'.out = sock.out - n /\ sock'.in = sock.in /\ sock'.peer = sock.peer
        /\ sock'.res = sock.res
    BY <1>1, <2>1 DEF Socket
  <2>3. sock'.out < sock.out /\ sock'.out >= 0
    <3>1. sock.out \in 0 .. SockBufSize BY <1>1 DEF Socket
    <3> QED BY <2>2, <3>1, EnvironmentAssumption
  <2>4. Pipe!AppReads BY <1>2, <2>2, <2>3 DEF Pipe!AppReads, AppUp
  <2> QED BY <1>3, <2>2, <2>4 DEF PipeStep, Pipe!Next
<1>7. CASE AppClose
  <2>1. sock' = [sock EXCEPT !.peer = "gone", !.out = 0]
    BY <1>7 DEF AppClose
  <2>2. /\ sock'.out = 0 /\ sock'.in = sock.in /\ sock'.peer = "gone" /\ sock'.res = sock.res
    BY <1>1, <2>1 DEF Socket
  <2>3. Pipe!AppEnds BY <1>2, <2>2 DEF Pipe!AppEnds, AppUp
  <2> QED BY <1>3, <2>2, <2>3 DEF PipeStep, Pipe!Next
<1> QED BY <1>4, <1>5, <1>6, <1>7

\* What the device's TCP does by itself: it reads, sends and ends.
LEMMA DeviceActsPipe ==
  IInv /\ PipeInv /\ IInv' /\ (DeviceSend \/ DeviceAck \/ DeviceConsume \/ DeviceClose)
    => PipeInv' /\ PipeStep
<1> SUFFICES ASSUME IInv, PipeInv, IInv', DeviceSend \/ DeviceAck \/ DeviceConsume \/ DeviceClose
             PROVE  PipeInv' /\ PipeStep
  OBVIOUS
<1>1. /\ dev.state = "OPEN" /\ UNCHANGED <<conn, client, sock, h2d>>
      /\ dev \in DeviceEnd /\ d2h \in Seq(Packet) /\ h2d \in Seq(Packet) /\ conn \in Connection
  BY DEF DeviceSend, DeviceAck, DeviceConsume, DeviceClose, DevicePush, IInv, LocalInv, TypeOK
<1>2. UNCHANGED <<PipeState, AppUp, sock.out, sock.in>> /\ Alive
  BY <1>1 DEF PipeState, AppUp, Alive
<1>3. dev'.state # "NONE" => PipeInv'
  BY <1>1 DEF PipeInv, SilentInv, ReplyInv, Silent
<1>4. /\ dev.seq \in SeqNum /\ dev.buf \in Nat /\ conn.ib_size \in Nat /\ Payload(h2d) \in Nat
      /\ Payload(d2h) \in Nat
  BY <1>1, PayloadType DEF DeviceEnd, Connection
<1>5. ASSUME NEW f \in Flags, d2h' = Append(d2h, Reply(f, dev.seq, 0)) PROVE UpBytes' = UpBytes
  <2>1. Reply(f, dev.seq, 0) \in Packet /\ Reply(f, dev.seq, 0).len = 0
    BY <1>1, <1>4, ReplyType, SeqConstants DEF Reply
  <2> QED BY <1>1, <1>5, <2>1, PayloadSame DEF UpBytes
<1>6. CASE DeviceSend
  <2>1. PICK n \in DevSizes : /\ d2h' = Append(d2h, Reply("ACK", dev.seq, n))
                              /\ dev' = [dev EXCEPT !.seq = SeqAdd(@, n), !.owes = FALSE]
    BY <1>6 DEF DeviceSend
  <2>2. n \in SeqNum /\ n \in Nat \ {0} /\ "ACK" \in Flags
    BY EnvironmentAssumption, BufferAssumption DEF SeqNum, Flags
  <2>3. Reply("ACK", dev.seq, n) \in Packet /\ Reply("ACK", dev.seq, n).len = n
    BY <1>1, <1>4, <2>2, ReplyType DEF Reply
  <2>4. Payload(d2h') = Payload(d2h) + n BY <1>1, <2>1, <2>3, PayloadAdd
  <2>5. dev'.state = "OPEN" /\ dev'.buf = dev.buf BY <1>1, <2>1 DEF DeviceEnd
  <2>6. Alive' /\ DownBytes' = DownBytes BY <1>1, <2>5 DEF Alive, DownBytes
  <2>7. CASE conn.state = "CONNECTED"
    <3>1. UpBytes = conn.ib_size + Payload(d2h) /\ UpBytes' = conn.ib_size + (Payload(d2h) + n)
      BY <1>1, <2>4, <2>7 DEF UpBytes
    <3>2. UpBytes' <= InBufSize
      <4>1. FlowType(d2h', h2d', conn'.tx_ack, conn'.tx_win, dev'.seq, dev'.win, dev'.una, InBufSize)
        <5>1. conn' \in Connection /\ dev' \in DeviceEnd /\ h2d' \in Seq(Packet) /\ d2h' \in Seq(Packet)
          BY DEF IInv, LocalInv, TypeOK
        <5> QED BY <5>1, BufferAssumption DEF FlowType, Connection, DeviceEnd
      <4>2. Flow(d2h', h2d', conn'.tx_ack, conn'.tx_win, dev'.seq, dev'.win, dev'.una, InBufSize)
        BY <1>1, <2>7 DEF IInv, UpInv
      <4>3. Payload(d2h') <= conn'.tx_win BY <4>1, <4>2, FlowPayload
      <4>4. conn.tx_win \in Nat /\ conn.tx_win + conn.ib_size = InBufSize
        BY <1>1 DEF Connection, IInv, LocalInv
      <4> QED BY <1>1, <1>4, <2>2, <2>4, <3>1, <4>3, <4>4, BufferAssumption
    <3>3. UpBytes' > UpBytes BY <1>4, <2>2, <3>1
    <3>4. Pipe!DeviceSends BY <1>2, <2>6, <3>2, <3>3 DEF Pipe!DeviceSends
    <3> QED BY <1>3, <2>5, <3>4 DEF PipeStep, Pipe!Next
  <2>8. CASE conn.state # "CONNECTED"
    <3>1. UpBytes' = UpBytes BY <1>1, <2>8 DEF UpBytes
    <3> QED BY <1>2, <1>3, <2>5, <2>6, <3>1, Stutter
  <2> QED BY <2>7, <2>8
<1>7. CASE DeviceAck
  <2>1. /\ d2h' = Append(d2h, Reply("ACK", dev.seq, 0))
        /\ dev' = [dev EXCEPT !.owes = FALSE]
    BY <1>7 DEF DeviceAck
  <2>2. UpBytes' = UpBytes BY <1>5, <2>1 DEF Flags
  <2>3. dev'.state = "OPEN" /\ dev'.buf = dev.buf BY <1>1, <2>1 DEF DeviceEnd
  <2>4. Alive' = Alive /\ DownBytes' = DownBytes BY <1>1, <2>3 DEF Alive, DownBytes
  <2> QED BY <1>2, <1>3, <2>2, <2>3, <2>4, Stutter
<1>8. CASE DeviceConsume
  <2>1. PICK n \in 1 .. dev.buf : dev' = [dev EXCEPT !.buf = @ - n, !.owes = TRUE]
    BY <1>8 DEF DeviceConsume
  <2>2. dev'.state = "OPEN" /\ dev'.buf = dev.buf - n BY <1>1, <2>1 DEF DeviceEnd
  <2>3. UpBytes' = UpBytes BY <1>1, <1>8 DEF UpBytes, DeviceConsume
  <2>4. Alive' /\ DownBytes = dev.buf + Payload(h2d) /\ DownBytes' = (dev.buf - n) + Payload(h2d)
    BY <1>1, <1>2, <2>2 DEF Alive, DownBytes
  <2>5. DownBytes' < DownBytes /\ DownBytes' >= 0 BY <1>4, <2>4
  <2>6. Pipe!DeviceConsumes BY <1>2, <2>3, <2>4, <2>5 DEF Pipe!DeviceConsumes
  <2> QED BY <1>3, <2>2, <2>6 DEF PipeStep, Pipe!Next
<1>9. CASE DeviceClose
  <2>1. PICK f \in {"RST", "FIN"} : d2h' = Append(d2h, Reply(f, dev.seq, 0))
    BY <1>9 DEF DeviceClose
  <2>2. UpBytes' = UpBytes BY <1>5, <2>1 DEF Flags
  <2>3. dev'.state = "CLOSED" BY <1>1, <1>9 DEF DeviceClose, DeviceEnd
  <2>4. ~Alive' /\ DownBytes' = 0 BY <2>3 DEF Alive, DownBytes
  <2>5. Pipe!DeviceEnds BY <1>2, <2>2, <2>4 DEF Pipe!DeviceEnds
  <2> QED BY <1>3, <2>3, <2>5 DEF PipeStep, Pipe!Next
<1> QED BY <1>6, <1>7, <1>8, <1>9

\* The device opens, takes data, which stays in the pipe, or is reset.
LEMMA DeviceReceivePipe ==
  IInv /\ PipeInv /\ DeviceReceive => PipeInv' /\ PipeStep
<1> SUFFICES ASSUME IInv, PipeInv, DeviceReceive PROVE PipeInv' /\ PipeStep
  OBVIOUS
<1> DEFINE p == Head(h2d)
<1>1. /\ h2d # <<>> /\ h2d' = Tail(h2d) /\ UNCHANGED <<conn, client, sock>>
      /\ dev \in DeviceEnd /\ d2h \in Seq(Packet) /\ h2d \in Seq(Packet) /\ conn \in Connection
      /\ dev.state \in {"NONE", "SYN_RCVD", "OPEN", "CLOSED"}
  BY DEF DeviceReceive, DeviceAccept, DeviceRefuse, DeviceTake, DeviceReset, DevicePop,
         IInv, LocalInv, TypeOK, DeviceEnd
<1>2. Silent(h2d) BY AlwaysSilent
<1>3. /\ NoDataAfterReset(h2d') /\ (NoData(h2d) => NoData(h2d') /\ p.len = 0)
      /\ p.flags = "RST" => NoData(h2d')
  BY <1>1, <1>2, SilentTake DEF Silent
<1>4. ASSUME dev'.state = "NONE" => dev.state = "NONE" \/ p.flags = "RST" PROVE PipeInv'
  BY <1>1, <1>2, <1>3, <1>4 DEF PipeInv, SilentInv, ReplyInv, Silent
<1>5. UNCHANGED <<PipeState, AppUp, sock.out, sock.in>>
  BY <1>1 DEF PipeState, AppUp
<1>6. /\ p \in Packet /\ h2d' \in Seq(Packet) BY <1>1, Took
<1>7. /\ p.len \in Nat /\ dev.buf \in Nat /\ Payload(h2d) \in Nat /\ Payload(h2d') \in Nat
      /\ Payload(h2d') = Payload(h2d) - p.len
  <2>1. p.len \in Nat BY <1>6, BufferAssumption DEF Packet, SeqNum
  <2>2. dev.buf \in Nat BY <1>1 DEF DeviceEnd
  <2>3. Payload(h2d') = Payload(h2d) - p.len BY <1>1, PayloadTake
  <2> QED BY <1>1, <1>6, <2>1, <2>2, <2>3, PayloadType
<1>8. p.flags # "ACK" => conn.state # "CONNECTED"
  <2>1. SUFFICES ASSUME conn.state = "CONNECTED" PROVE p.flags = "ACK" OBVIOUS
  <2>2. Flow(d2h, h2d, conn.tx_ack, conn.tx_win, dev.seq, dev.win, dev.una, InBufSize)
    BY <2>1 DEF IInv, UpInv
  <2>3. LocalInv BY DEF IInv
  <2> QED BY <1>1, <2>2, <2>3, FlowTypes, FlowAck
<1>9. conn.state # "CONNECTED" => UpBytes = 0 /\ UpBytes' = 0 BY <1>1 DEF UpBytes
<1> HIDE DEF p
<1>10. CASE DeviceAccept
  <2>1. p.flags = "SYN" /\ dev.state = "NONE" BY <1>10 DEF DeviceAccept, p
  <2>2. dev'.state = "SYN_RCVD" /\ dev'.buf = 0 BY <1>10 DEF DeviceAccept, NoDev
  <2>3. PipeState # "open" BY <1>8, <2>1 DEF PipeState
  <2>4. Payload(h2d') = 0
    <3>1. NoData(h2d') BY <1>2, <1>3, <2>1 DEF Silent
    <3> QED BY <1>6, <3>1, PayloadZero DEF NoData
  <2>5. ~Alive /\ Alive' /\ DownBytes = 0 /\ DownBytes' = 0
    BY <2>1, <2>2, <2>4 DEF Alive, DownBytes
  <2>6. Pipe!DeviceOpens
    BY <1>5, <1>8, <1>9, <2>1, <2>3, <2>5 DEF Pipe!DeviceOpens
  <2> QED BY <1>4, <2>2, <2>6 DEF PipeStep, Pipe!Next
<1>11. CASE DeviceRefuse
  <2>1. p.flags = "SYN" /\ dev.state = "NONE" /\ dev' = dev BY <1>11 DEF DeviceRefuse, p
  <2>2. UNCHANGED <<Alive, DownBytes>> BY <2>1 DEF Alive, DownBytes
  <2> QED BY <1>4, <1>5, <1>8, <1>9, <2>1, <2>2, Stutter
<1>12. CASE DeviceTake
  <2>1. UNCHANGED d2h BY <1>12 DEF DeviceTake
  <2>2. UpBytes' = UpBytes BY <1>1, <2>1 DEF UpBytes
  <2>3. CASE dev.state \in {"NONE", "CLOSED"}
    <3>1. dev' = dev BY <1>12, <2>3 DEF DeviceTake
    <3>2. UNCHANGED <<Alive, DownBytes>> BY <2>3, <3>1 DEF Alive, DownBytes
    <3> QED BY <1>4, <1>5, <2>2, <3>1, <3>2, Stutter
  <2>4. CASE dev.state \in {"SYN_RCVD", "OPEN"}
    <3>1. dev' = [dev EXCEPT !.state = "OPEN", !.una = p.ack, !.win = p.win,
                             !.ack = SeqAdd(@, p.len), !.buf = @ + p.len,
                             !.owes = @ \/ p.len > 0]
      BY <1>12, <2>4 DEF DeviceTake, p
    <3>2. dev'.state = "OPEN" /\ dev'.buf = dev.buf + p.len BY <1>1, <3>1 DEF DeviceEnd
    <3>3. Alive' /\ Alive BY <2>4, <3>2 DEF Alive
    <3>4. DownBytes' = DownBytes BY <1>7, <3>2, <3>3 DEF DownBytes
    <3> QED BY <1>4, <1>5, <2>2, <3>2, <3>3, <3>4, Stutter
  <2> QED BY <1>1, <2>3, <2>4
<1>13. CASE DeviceReset
  <2>1. p.flags = "RST" /\ dev' = NoDev BY <1>13 DEF DeviceReset, p
  <2>2. ~Alive' /\ DownBytes' = 0 BY <2>1 DEF Alive, DownBytes, NoDev
  <2>3. PipeInv' BY <1>4, <2>1
  <2>4. CASE Alive
    <3>1. Pipe!DeviceEnds BY <1>5, <1>8, <1>9, <2>1, <2>2, <2>4 DEF Pipe!DeviceEnds
    <3> QED BY <2>3, <3>1 DEF PipeStep, Pipe!Next
  <2>5. CASE ~Alive
    <3>1. DownBytes = 0 BY <2>5 DEF DownBytes
    <3>2. Alive' = Alive BY <2>2, <2>5 DEF Alive
    <3> QED BY <1>5, <1>8, <1>9, <2>1, <2>2, <2>3, <3>1, <3>2, Stutter
  <2> QED BY <2>4, <2>5
<1> QED BY <1>10, <1>11, <1>12, <1>13 DEF DeviceReceive

\* The steps of an unchanged phase in which the host sends nothing but empty packets.
LEMMA HostQuiet ==
  ASSUME IInv, PipeInv, UNCHANGED dev, conn.state # "CONNECTED", conn'.state # "CONNECTED",
         h2d' = h2d \/ \E q \in Packet : q.len = 0 /\ h2d' = Append(h2d, q),
         sock'.out = sock.out, sock'.in = sock.in, sock'.peer = sock.peer,
         client'.state = "FREED" <=> client.state = "FREED", ReplyInv'
  PROVE  PipeInv' /\ PipeStep
<1>1. h2d \in Seq(Packet) /\ Silent(h2d) BY AlwaysSilent DEF IInv, LocalInv, TypeOK
<1>2. SilentInv' /\ DownBytes' = DownBytes /\ Alive' = Alive BY <1>1, HostSilent
<1>3. UNCHANGED <<PipeState, AppUp, UpBytes>> BY DEF PipeState, AppUp, UpBytes
<1> QED BY <1>2, <1>3, Stutter DEF PipeInv

\* device_tcp_input: the connection opens, takes data, which stays in the pipe, or ends.
LEMMA DeviceInputPipe ==
  IInv /\ PipeInv /\ DeviceInput => PipeInv' /\ PipeStep
<1> SUFFICES ASSUME IInv, PipeInv, DeviceInput PROVE PipeInv' /\ PipeStep
  OBVIOUS
<1> DEFINE p == Head(d2h)
<1>1. /\ d2h # <<>> /\ d2h' = Tail(d2h) /\ UNCHANGED dev
      /\ d2h \in Seq(Packet) /\ h2d \in Seq(Packet) /\ conn \in Connection
      /\ client \in Client /\ sock \in Socket /\ StatesAgree /\ TypeOK /\ ReplyInv
  BY DEF DeviceInput, IInv, LocalInv, TypeOK, PipeInv
<1>2. p \in Packet /\ d2h' \in Seq(Packet) BY <1>1, Took
<1>3. /\ p.seq \in SeqNum /\ p.len \in Nat
  <2>1. p.seq \in SeqNum /\ p.len \in SeqNum BY <1>2 DEF Packet
  <2> QED BY <2>1, BufferAssumption DEF SeqNum
<1>4. Silent(h2d) BY AlwaysSilent
<1>5. /\ Heard(p) \in Connection /\ Heard(p).state = conn.state
      /\ Heard(p).ib_size = conn.ib_size
  BY <1>1, <1>2, HeardType
<1> HIDE DEF p
<1>6. CASE InputNoConnection(p)
  <2> DEFINE q == [flags |-> "RST", seq |-> 0, ack |-> p.seq, win |-> 0, len |-> 0]
  <2>1. UNCHANGED <<conn, client, sock>> /\ conn.state = "NONE" /\ (h2d' = h2d \/ h2d' = Append(h2d, q))
    BY <1>6 DEF InputNoConnection
  <2>2. q \in Packet /\ q.len = 0 BY <1>3, SeqConstants DEF Packet, Flags
  <2>3. ReplyInv' BY <1>1, <2>1 DEF ReplyInv
  <2> HIDE DEF q
  <2> QED BY <1>1, <2>1, <2>2, <2>3, HostQuiet
<1>7. CASE InputSynAck(p)
  <2> DEFINE c == [Heard(p) EXCEPT !.tx_seq = SeqAdd(@, 1), !.tx_ack = SeqAdd(@, 1)]
             d == [AfterSend(c) EXCEPT !.state = "CONNECTED"]
             q == Tcp(c, "ACK", 0)
  <2>1. /\ conn.state = "CONNECTING" /\ p.flags = "SYNACK" /\ UNCHANGED sock
        /\ h2d' = Append(h2d, q) /\ conn' = UpdateConn(d)
        /\ client' = SetEvents(NotifyConnect(client, "OK"), conn'.events)
    BY <1>7 DEF InputSynAck
  <2>2. c \in Connection /\ c.ib_size = conn.ib_size
    <3>1. SeqAdd(Heard(p).tx_seq, 1) \in SeqNum /\ SeqAdd(Heard(p).tx_ack, 1) \in SeqNum
      BY <1>5, SeqType, SeqConstants DEF Connection
    <3> QED BY <1>5, <3>1 DEF Connection
  <2>3. q \in Packet /\ q.len = 0
    <3>1. q \in Packet BY <2>2, TcpType, SeqConstants DEF Flags
    <3> QED BY <3>1 DEF Tcp
  <2>4. d \in Connection /\ d.ib_size = conn.ib_size /\ d.state = "CONNECTED"
    BY <2>2 DEF AfterSend, Connection
  <2>5. conn'.state = "CONNECTED" /\ conn'.ib_size = conn.ib_size /\ conn' \in Connection
    <3> HIDE DEF d
    <3> QED BY <2>1, <2>4, UpdateConnFresh
  <2>6. client'.state = "CONNECTING2" /\ client.state = "CONNECTING1"
    <3>1. conn'.events \in SUBSET Events BY <2>5 DEF Connection
    <3>2. /\ client.state = "CONNECTING1" /\ NotifyConnect(client, "OK") \in Client
          /\ NotifyConnect(client, "OK").state = "CONNECTING2"
      BY <1>1, <2>1, NotifyConnectType DEF StatesAgree
    <3> QED BY <2>1, <3>1, <3>2, SetEventsType
  <2>7. ReplyInv' BY <1>1, <2>1, <2>6 DEF ReplyInv
  <2> HIDE DEF c, d, q
  <2>8. SilentInv' /\ DownBytes' = DownBytes /\ Alive' = Alive
    BY <1>1, <1>4, <2>1, <2>3, HostSilent
  <2>9. conn.ib_size = 0 /\ d2h' = <<>>
    <3>1. HandshakeInv BY DEF IInv
    <3>2. d2h[1] = p /\ Len(d2h) \in Nat \ {0} BY <1>1, Took DEF p
    <3>3. conn = AfterSend([NoConn EXCEPT !.state = "CONNECTING"]) /\ Len(d2h) = 1
      BY <1>1, <2>1, <3>1, <3>2 DEF HandshakeInv
    <3>4. Tail(d2h) \in Seq(Packet) /\ Len(Tail(d2h)) = 0 BY <1>1, <3>3, Took
    <3>5. d2h' = <<>> BY <1>1, <3>4, EmptySeq
    <3> QED BY <3>3, <3>5 DEF AfterSend, NoConn
  <2>10. UpBytes = 0 /\ UpBytes' = 0
    BY <2>1, <2>5, <2>9, PayloadEmpty DEF UpBytes
  <2>11. PipeState = "idle" /\ PipeState' = "open" /\ AppUp' = AppUp
    BY <2>1, <2>5, <2>6 DEF PipeState, AppUp
  <2>12. Pipe!Opens BY <2>1, <2>8, <2>10, <2>11 DEF Pipe!Opens
  <2> QED BY <2>7, <2>8, <2>12 DEF PipeInv, PipeStep, Pipe!Next
<1>8. CASE InputRefused(p)
  <2> DEFINE s == IF p.flags = "RST" THEN "REFUSED" ELSE Heard(p).state
             c == [Heard(p) EXCEPT !.state = s]
  <2>1. conn.state = "CONNECTING" /\ Teardown(c, h2d) BY <1>8 DEF InputRefused
  <2>2. c.state \in {"CONNECTING", "REFUSED"} BY <1>5, <2>1 DEF Connection
  <2>3. TeardownRst(c) \in Seq(Packet)
    <3> HIDE DEF s
    <3> QED BY <1>5, TeardownRstType
  <2> HIDE DEF c
  <2>4. /\ h2d' = h2d \o TeardownRst(c) /\ conn' = NoConn
        /\ sock' = [sock EXCEPT !.out = @ + Flushed(c)]
        /\ client' = NotifyConnect(client, "REFUSED")
    BY <2>1, <2>2 DEF Teardown
  <2>5. h2d' = h2d \/ \E q \in Packet : q.len = 0 /\ h2d' = Append(h2d, q)
    BY <1>1, <2>3, <2>4, RstShape
  <2>6. sock' = sock
    <3>1. Flushed(c) = 0 BY <2>2 DEF Flushed
    <3>2. sock.out + 0 = sock.out BY <1>1, EnvironmentAssumption DEF Socket
    <3> QED BY <1>1, <2>4, <3>1, <3>2 DEF Socket
  <2>7. client.state = "CONNECTING1" BY <1>1, <2>1 DEF StatesAgree
  <2>8. client'.state = "COMMAND" /\ client'.reply = "REFUSED"
    BY <1>1, <2>4, <2>7 DEF NotifyConnect, Client
  <2>9. ReplyInv' BY <1>1, <2>6, <2>7, <2>8 DEF ReplyInv
  <2>10. conn'.state = "NONE" BY <2>4 DEF NoConn
  <2> QED BY <1>1, <2>1, <2>5, <2>6, <2>7, <2>8, <2>9, <2>10, HostQuiet
<1>9. CASE InputData(p)
  <2>1. CASE conn.ib_size + p.len > InBufSize
    <3> DEFINE s == Heard(p).state
               c == [Heard(p) EXCEPT !.state = s]
    <3>1. Heard(p) = c BY <1>5 DEF Connection
    <3>2. Teardown(c, h2d) /\ conn.state = "CONNECTED" BY <1>9, <2>1, <3>1 DEF InputData
    <3>3. c.state = "CONNECTED" BY <1>5, <3>1, <3>2
    <3>4. Heard(p).ib_size <= conn.ib_size BY <1>1, <1>5, BufferAssumption DEF Connection
    <3> HIDE DEF s
    <3>5. c = [Heard(p) EXCEPT !.state = s] OBVIOUS
    <3> HIDE DEF c
    <3> QED BY <1>1, <1>4, <1>5, <3>2, <3>3, <3>4, <3>5, TeardownEnds
  <2>2. CASE ~(conn.ib_size + p.len > InBufSize)
    <3> DEFINE u == [Heard(p) EXCEPT !.ib_size = @ + p.len, !.tx_win = @ - p.len,
                                     !.tx_ack = SeqAdd(@, p.len)]
               s == Stored(p)
               q == Tcp(s, "ACK", 0)
    <3>1. /\ conn.state = "CONNECTED" /\ UNCHANGED sock
          /\ h2d' = (IF s.ack_pending THEN Append(h2d, q) ELSE h2d)
          /\ conn' = (IF s.ack_pending THEN AckNow(s) ELSE s)
          /\ client' = SetEvents(client, conn'.events)
      BY <1>9, <2>2 DEF InputData
    <3>2. p.len <= conn.tx_win
      <4>1. Flow(d2h, h2d, conn.tx_ack, conn.tx_win, dev.seq, dev.win, dev.una, InBufSize) /\ LocalInv
        BY <3>1 DEF IInv, UpInv
      <4> QED BY <1>1, <4>1, FlowTypes, FlowReceive DEF p
    <3>3. /\ conn.ib_size + p.len \in 0 .. InBufSize /\ conn.tx_win - p.len \in 0 .. InBufSize
          /\ conn.ib_size \in Nat
      <4>1. conn.ib_size \in 0 .. InBufSize /\ conn.tx_win \in 0 .. InBufSize BY <1>1 DEF Connection
      <4> QED BY <1>3, <2>2, <3>2, <4>1, BufferAssumption
    <3>4. u \in Connection /\ u.ib_size = conn.ib_size + p.len /\ u.state = "CONNECTED"
      <4>1. /\ Heard(p).tx_win = conn.tx_win /\ Heard(p).tx_ack = conn.tx_ack
        BY <1>1, <1>2, HeardType
      <4>2. SeqAdd(conn.tx_ack, p.len) \in SeqNum
        <5>1. p.len \in SeqNum /\ conn.tx_ack \in SeqNum BY <1>1, <1>2 DEF Packet, Connection
        <5> QED BY <5>1, SeqType
      <4> QED BY <1>5, <3>1, <3>3, <4>1, <4>2 DEF Connection
    <3>5. s = UpdateConn(u) BY DEF Stored
    <3> HIDE DEF u, s
    <3>6. s \in Connection /\ s.ib_size = conn.ib_size + p.len /\ s.state = "CONNECTED"
      BY <3>4, <3>5, UpdateConnFresh
    <3>7. conn' \in Connection /\ conn'.ib_size = conn.ib_size + p.len /\ conn'.state = "CONNECTED"
      BY <3>1, <3>6, AckNowFresh
    <3>8. q \in Packet /\ q.len = 0
      <4>1. q \in Packet BY <3>6, TcpType, SeqConstants DEF Flags
      <4> QED BY <4>1 DEF Tcp
    <3> HIDE DEF q
    <3>9. SilentInv' /\ DownBytes' = DownBytes /\ Alive' = Alive
      BY <1>1, <1>4, <3>1, <3>8, HostSilent
    <3>10. client'.state = client.state /\ client'.reply = client.reply
      <4>1. conn'.events \in SUBSET Events BY <3>7 DEF Connection
      <4>2. client'.state = client.state BY <1>1, <3>1, <4>1, SetEventsType
      <4> QED BY <1>1, <3>1, <4>2 DEF SetEvents, Client
    <3>11. ReplyInv' BY <1>1, <3>1, <3>10 DEF ReplyInv
    <3>12. UpBytes' = UpBytes
      <4>1. Payload(d2h') = Payload(d2h) - p.len BY <1>1, PayloadTake DEF p
      <4>2. Payload(d2h) \in Nat BY <1>1, PayloadType
      <4> QED BY <1>3, <3>1, <3>3, <3>7, <4>1, <4>2 DEF UpBytes
    <3>13. UNCHANGED <<PipeState, AppUp, sock.out, sock.in>>
      BY <3>1, <3>7 DEF PipeState, AppUp
    <3> QED BY <3>9, <3>11, <3>12, <3>13, Stutter DEF PipeInv
  <2> QED BY <2>1, <2>2
<1>10. CASE InputReset(p)
  <2> DEFINE s == IF p.flags = "RST" THEN "DYING" ELSE Heard(p).state
             c == [Heard(p) EXCEPT !.state = s]
  <2>1. Teardown(c, h2d) /\ conn.state = "CONNECTED" BY <1>10 DEF InputReset
  <2>2. c.state \notin {"CONNECTING", "REFUSED"} BY <1>5, <2>1 DEF Connection
  <2>3. Heard(p).ib_size <= conn.ib_size BY <1>1, <1>5, BufferAssumption DEF Connection
  <2> HIDE DEF s
  <2>4. c = [Heard(p) EXCEPT !.state = s] OBVIOUS
  <2> HIDE DEF c
  <2> QED BY <1>1, <1>4, <1>5, <2>1, <2>2, <2>3, <2>4, TeardownEnds
<1> QED BY <1>6, <1>7, <1>8, <1>9, <1>10 DEF DeviceInput, p

\* An acknowledgement that device_client_process sends after its write is no data.
LEMMA WriteSilent ==
  ASSUME IInv, PipeInv, conn.state = "CONNECTED", NEW n \in WriteSizes
  PROVE  /\ WriteOut(n) \in Seq(Packet) /\ Silent(WriteOut(n))
         /\ Payload(WriteOut(n)) = Payload(h2d)
         /\ AfterWrite(n).ib_size = conn.ib_size - n
<1>1. LocalInv /\ h2d \in Seq(Packet) /\ conn \in Connection /\ conn.tx_win + conn.ib_size = InBufSize
  BY DEF IInv, LocalInv, TypeOK
<1>2. n \in 0 .. conn.ib_size /\ WriteOut(n) \in Seq(Packet) BY <1>1, AfterWriteType
<1>3. Drained(n) \in Connection /\ Drained(n).ib_size = conn.ib_size - n
  <2>1. /\ conn.ib_size - n \in 0 .. InBufSize /\ conn.tx_win + n \in 0 .. InBufSize
    BY <1>1, <1>2, BufferAssumption DEF Connection
  <2> QED BY <1>1, <2>1 DEF Drained, Connection
<1>4. AfterWrite(n).ib_size = conn.ib_size - n
  BY <1>3, AckNowFresh DEF AfterWrite
<1> DEFINE w == Tcp(Drained(n), "ACK", 0)
<1>5. w \in Packet BY <1>3, TcpType, SeqConstants DEF Flags
<1>6. w.len = 0 BY DEF Tcp
<1>7. WriteOut(n) = IF AdvertiseDue(n) THEN Append(h2d, w) ELSE h2d BY DEF WriteOut
<1> HIDE DEF w
<1>8. Silent(h2d) BY AlwaysSilent
<1>9. Silent(Append(h2d, w)) /\ Payload(Append(h2d, w)) = Payload(h2d)
  BY <1>1, <1>5, <1>6, <1>8, SilentAdd, PayloadSame
<1> QED BY <1>2, <1>4, <1>7, <1>8, <1>9

\* device_client_process moves n bytes to the socket and m bytes to the device.
LEMMA ProcessConnectedPipe ==
  IInv /\ PipeInv /\ IInv' /\ ProcessConnected => PipeInv' /\ PipeStep
<1> SUFFICES ASSUME IInv, PipeInv, IInv', ProcessConnected PROVE PipeInv' /\ PipeStep
  OBVIOUS
<1>1. /\ LocalInv /\ client.state = "CONNECTED" /\ conn.state = "CONNECTED" /\ ReplyInv
      /\ conn \in Connection /\ client \in Client /\ sock \in Socket /\ dev \in DeviceEnd
      /\ d2h \in Seq(Packet) /\ h2d \in Seq(Packet) /\ UNCHANGED <<d2h, dev>>
      /\ conn' \in Connection
  BY DEF IInv, LocalInv, TypeOK, StatesAgree, ProcessConnected, InClientPhase, PipeInv
<1>2. PICK n \in WriteSizes :
       LET c == AfterWrite(n)
           m == IF ReadDue(n) THEN Lesser(sock.in, c.sendable) ELSE 0
       IN  /\ ReadDue(n) => sock.in > 0
           /\ conn' = UpdateConn(IF m > 0 THEN AfterRead(c, m) ELSE c)
           /\ h2d' = IF m > 0 THEN Append(WriteOut(n), Tcp(c, "ACK", m)) ELSE WriteOut(n)
           /\ client' = SetEvents(client, conn'.events)
           /\ sock' = [sock EXCEPT !.in = @ - m, !.out = IF sock.peer = "open" THEN @ + n ELSE @]
  BY DEF ProcessConnected
<1> DEFINE c == AfterWrite(n)
           m == IF ReadDue(n) THEN Lesser(sock.in, c.sendable) ELSE 0
           d == IF m > 0 THEN AfterRead(c, m) ELSE c
           r == Tcp(c, "ACK", m)
<1>3. /\ n \in 0 .. conn.ib_size /\ c \in Connection /\ c.state = "CONNECTED"
  BY <1>1, AfterWriteType
<1>4. /\ WriteOut(n) \in Seq(Packet) /\ Payload(WriteOut(n)) = Payload(h2d)
      /\ c.ib_size = conn.ib_size - n
  BY <1>1, WriteSilent
<1>5. m \in 0 .. sock.in /\ m \in SeqNum /\ sock.in \in Nat
  <2>1. sock.in \in 0 .. SockBufSize /\ c.sendable \in 0 .. MaxPayload
    BY <1>1, <1>3 DEF Socket, Connection
  <2> HIDE DEF c
  <2> QED BY <2>1, WindowAssumption, EnvironmentAssumption, BufferAssumption DEF Lesser, SeqNum
<1>6. r \in Packet /\ r.len = m
  <2> HIDE DEF c, m
  <2>1. r \in Packet BY <1>3, <1>5, TcpType DEF Flags
  <2> QED BY <2>1 DEF Tcp
<1>7. /\ h2d' = (IF m > 0 THEN Append(WriteOut(n), r) ELSE WriteOut(n))
      /\ conn' = UpdateConn(d) /\ client' = SetEvents(client, conn'.events)
      /\ sock' = [sock EXCEPT !.in = @ - m, !.out = IF sock.peer = "open" THEN @ + n ELSE @]
  BY <1>2
<1>8. conn'.state = "CONNECTED" /\ conn'.ib_size = conn.ib_size - n
  <2> HIDE DEF c, m
  <2>1. /\ AfterSend(c) \in Connection /\ AfterSend(c).state = "CONNECTED"
        /\ AfterSend(c).ib_size = c.ib_size
    BY <1>3, AfterSendType
  <2>2. SeqAdd(AfterSend(c).tx_seq, m) \in SeqNum
    BY <1>5, <2>1, SeqType DEF Connection
  <2>3. /\ AfterRead(c, m) \in Connection /\ AfterRead(c, m).state = "CONNECTED"
        /\ AfterRead(c, m).ib_size = c.ib_size
    BY <2>1, <2>2 DEF AfterRead, Connection
  <2>4. d \in Connection /\ d.state = "CONNECTED" /\ d.ib_size = conn.ib_size - n
    BY <1>3, <1>4, <2>3
  <2> HIDE DEF d
  <2> QED BY <1>7, <2>4, UpdateConnFresh
<1> HIDE DEF c, m, d, r
<1>9. Payload(h2d') = Payload(h2d) + m /\ Payload(h2d) \in Nat /\ Payload(d2h) \in Nat
  <2>1. Payload(h2d) \in Nat /\ Payload(d2h) \in Nat BY <1>1, PayloadType
  <2>2. Payload(Append(WriteOut(n), r)) = Payload(h2d) + m BY <1>4, <1>6, PayloadAdd
  <2>3. CASE m > 0 BY <1>7, <2>1, <2>2, <2>3
  <2>4. CASE ~(m > 0)
    <3>1. m = 0 BY <1>5, <2>4
    <3> QED BY <1>4, <1>7, <2>1, <2>4, <3>1
  <2> QED BY <2>1, <2>3, <2>4
<1>10. /\ sock'.in = sock.in - m /\ sock'.peer = sock.peer /\ sock'.res = sock.res
       /\ sock'.out = IF sock.peer = "open" THEN sock.out + n ELSE sock.out
  BY <1>1, <1>7 DEF Socket
<1>11. PipeInv'
  <2>1. conn'.events \in SUBSET Events BY <1>1 DEF Connection
  <2>2. client'.state = client.state BY <1>1, <1>7, <2>1, SetEventsType
  <2>3. client'.reply = client.reply BY <1>1, <1>7 DEF SetEvents, Client
  <2>4. ReplyInv' BY <1>1, <1>10, <2>2, <2>3 DEF ReplyInv
  <2> QED BY <1>8, <2>4 DEF PipeInv, SilentInv
<1>12. /\ UpBytes = conn.ib_size + Payload(d2h) /\ UpBytes' = (conn.ib_size - n) + Payload(d2h)
       /\ PipeState = "open" /\ PipeState' = "open" /\ AppUp' = AppUp /\ Alive' = Alive
  BY <1>1, <1>8, <1>10 DEF UpBytes, PipeState, AppUp, Alive
<1>13. n \in 0 .. UpBytes /\ UpBytes' = UpBytes - n
  <2>1. conn.ib_size \in Nat BY <1>1 DEF Connection
  <2> QED BY <1>3, <1>9, <1>12, <2>1
<1>14. DownBytes' = (IF Alive THEN DownBytes + m ELSE DownBytes) /\ DownBytes' <= DevBufSize
  <2>1. CASE Alive
    <3>1. dev.buf \in Nat /\ m \in Nat BY <1>1, <1>5 DEF DeviceEnd
    <3>2. DownBytes = dev.buf + Payload(h2d) /\ DownBytes' = dev.buf + (Payload(h2d) + m)
      BY <1>1, <1>9, <1>12, <2>1 DEF DownBytes
    <3>3. Open' BY <1>1, <1>8, <2>1 DEF Open, Alive
    <3>4. Flow(h2d', d2h', dev'.ack, DevBufSize - dev'.buf, conn'.tx_seq, conn'.rx_win, conn'.rx_ack,
               DevBufSize)
      BY <3>3 DEF IInv, DownInv
    <3>5. FlowType(h2d', d2h', dev'.ack, DevBufSize - dev'.buf, conn'.tx_seq, conn'.rx_win,
                   conn'.rx_ack, DevBufSize)
      <4>1. dev' \in DeviceEnd /\ h2d' \in Seq(Packet) /\ d2h' \in Seq(Packet)
        BY DEF IInv, LocalInv, TypeOK
      <4> QED BY <1>1, <4>1, BufferAssumption DEF FlowType, Connection, DeviceEnd
    <3>6. Payload(h2d') <= DevBufSize - dev.buf BY <1>1, <3>4, <3>5, FlowPayload
    <3> QED BY <1>9, <2>1, <3>1, <3>2, <3>6, BufferAssumption
  <2>2. CASE ~Alive
    <3>1. DownBytes = 0 /\ DownBytes' = 0 BY <1>12, <2>2 DEF DownBytes
    <3> QED BY <2>2, <3>1, BufferAssumption
  <2> QED BY <2>1, <2>2
<1>15. Pipe!Transfers
  <2>1. sock'.out = IF AppUp THEN sock.out + n ELSE sock.out BY <1>10 DEF AppUp
  <2> QED BY <1>5, <1>10, <1>12, <1>13, <1>14, <2>1 DEF Pipe!Transfers
<1> QED BY <1>11, <1>15 DEF PipeStep, Pipe!Next

\* client_process: a request or a reply moves no byte, a failure ends the connection.
LEMMA ClientProcessPipe ==
  IInv /\ PipeInv /\ IInv' /\ ClientProcess => PipeInv' /\ PipeStep
<1> SUFFICES ASSUME IInv, PipeInv, IInv', ClientProcess PROVE PipeInv' /\ PipeStep
  OBVIOUS
<1>1. /\ StatesAgree /\ ReplyInv /\ conn \in Connection /\ client \in Client /\ sock \in Socket
      /\ h2d \in Seq(Packet) /\ d2h \in Seq(Packet) /\ LocalInv
  BY DEF IInv, LocalInv, TypeOK, PipeInv
<1>2. UNCHANGED <<d2h, dev>>
  BY DEF ClientProcess, ClientGone, RecvConnect, RecvFails, SendReply, SendReplyFails,
         ProcessConnected, WriteFails, ReadFails, InClientPhase
<1>3. CASE ClientGone
  <2>1. UNCHANGED <<conn, client, sock, h2d>> BY <1>3 DEF ClientGone
  <2> QED BY <1>2, <2>1, PipeFrame
<1>4. CASE RecvConnect
  <2> DEFINE q == Tcp(NoConn, "SYN", 0)
  <2>1. /\ client.state = "COMMAND" /\ h2d' = Append(h2d, q)
        /\ conn' = AfterSend([NoConn EXCEPT !.state = "CONNECTING"])
        /\ client' = [client EXCEPT !.state = "CONNECTING1"]
        /\ sock' = [sock EXCEPT !.req = FALSE]
    BY <1>4 DEF RecvConnect
  <2>2. q \in Packet BY NoConnType, TcpType, SeqConstants DEF Flags
  <2>3. q.len = 0 BY DEF Tcp
  <2> HIDE DEF q
  <2>4. conn'.state = "CONNECTING" BY <2>1 DEF AfterSend, NoConn
  <2>5. conn.state # "CONNECTED" BY <1>1, <2>1 DEF StatesAgree
  <2>6. client'.state = "CONNECTING1" /\ client'.reply = client.reply BY <1>1, <2>1 DEF Client
  <2>7. /\ sock'.out = sock.out /\ sock'.in = sock.in /\ sock'.peer = sock.peer
        /\ sock'.res = sock.res
    BY <1>1, <2>1 DEF Socket
  <2>8. ReplyInv' BY <1>1, <2>1, <2>6, <2>7 DEF ReplyInv
  <2> QED BY <1>2, <2>1, <2>2, <2>3, <2>4, <2>5, <2>6, <2>7, <2>8, HostQuiet
<1>5. CASE RecvFails \/ SendReplyFails
  <2>1. ClientClose /\ client.state \in {"COMMAND", "CONNECTING1", "CONNECTING2"}
    BY <1>5 DEF RecvFails, SendReplyFails
  <2>2. /\ h2d' = (IF conn.state = "NONE" THEN h2d ELSE h2d \o TeardownRst(conn))
        /\ conn' = NoConn /\ UNCHANGED sock
        /\ client' = Released(client, IF client.state = "CONNECTING2" THEN 2 ELSE 1)
    BY <2>1 DEF ClientClose
  <2>3. client'.state = "FREED" BY <1>1, <2>2, ReleasedType
  <2>4. h2d' = h2d \/ \E q \in Packet : q.len = 0 /\ h2d' = Append(h2d, q)
    <3>1. conn = [conn EXCEPT !.state = conn.state] BY <1>1 DEF Connection
    <3>2. TeardownRst(conn) \in Seq(Packet) BY <1>1, <3>1, TeardownRstType
    <3> QED BY <1>1, <2>2, <3>2, RstShape
  <2>5. PipeState # "done" BY <2>1 DEF PipeState
  <2>6. 0 \in 0 .. UpBytes
    <3>1. conn.ib_size \in Nat /\ Payload(d2h) \in Nat BY <1>1, PayloadType DEF Connection
    <3> QED BY <3>1 DEF UpBytes
  <2>7. sock' = [sock EXCEPT !.out = @ + 0]
    <3>1. sock.out + 0 = sock.out BY <1>1, EnvironmentAssumption DEF Socket
    <3> QED BY <1>1, <2>2, <3>1 DEF Socket
  <2>8. Silent(h2d) BY AlwaysSilent
  <2> QED BY <1>1, <1>2, <2>2, <2>3, <2>4, <2>5, <2>6, <2>7, <2>8, HostEnds
<1>6. CASE SendReply
  <2>1. /\ UNCHANGED <<conn, h2d>>
        /\ sock' = [sock EXCEPT !.res = IF sock.peer = "open" THEN client.reply ELSE @]
        /\ client' = IF client.state = "CONNECTING2"
               THEN [client EXCEPT !.reply = "NONE", !.state = "CONNECTED", !.events = client.devents]
               ELSE [client EXCEPT !.reply = "NONE", !.events = @ \ {"POLLOUT"}]
        /\ client.state \in {"COMMAND", "CONNECTING1", "CONNECTING2"}
    BY <1>6 DEF SendReply
  <2>2. /\ client'.reply = "NONE" /\ client'.state # "FREED"
        /\ client.state = "CONNECTING2" => client'.state = "CONNECTED"
    BY <1>1, <2>1 DEF Client
  <2>3. /\ sock'.out = sock.out /\ sock'.in = sock.in /\ sock'.peer = sock.peer
        /\ sock'.res \in {client.reply, sock.res}
    BY <1>1, <2>1 DEF Socket
  <2>4. ReplyInv' BY <1>1, <2>1, <2>2, <2>3 DEF ReplyInv
  <2>5. SilentInv' BY <1>2, <2>1 DEF PipeInv, SilentInv, Silent
  <2>6. UNCHANGED <<PipeState, AppUp, Alive, UpBytes, sock.out, sock.in, DownBytes>>
    BY <1>2, <2>1, <2>2, <2>3 DEF PipeState, AppUp, Alive, UpBytes, DownBytes
  <2> QED BY <2>4, <2>5, <2>6, Stutter DEF PipeInv
<1>7. CASE ProcessConnected
  BY <1>7, ProcessConnectedPipe
<1>8. CASE WriteFails
  <2>1. conn.state = "CONNECTED" /\ Teardown(conn, h2d)
    BY <1>1, <1>8 DEF WriteFails, StatesAgree
  <2>2. conn = [conn EXCEPT !.state = "CONNECTED"] BY <1>1, <2>1 DEF Connection
  <2>3. Silent(h2d) BY AlwaysSilent
  <2>4. conn.ib_size <= conn.ib_size BY <1>1, BufferAssumption DEF Connection
  <2> QED BY <1>1, <1>2, <2>1, <2>2, <2>3, <2>4, TeardownEnds
<1>9. CASE ReadFails
  <2>1. conn.state = "CONNECTED" BY <1>1, <1>9 DEF ReadFails, StatesAgree
  <2>2. PICK n \in WriteSizes : Teardown(AfterWrite(n), WriteOut(n)) BY <1>9 DEF ReadFails
  <2> DEFINE b == AfterWrite(n)
             out == WriteOut(n)
  <2>3. b \in Connection /\ b.state = "CONNECTED" /\ n \in 0 .. conn.ib_size
    BY <1>1, <2>1, AfterWriteType
  <2>4. /\ out \in Seq(Packet) /\ Silent(out) /\ Payload(out) = Payload(h2d)
        /\ b.ib_size = conn.ib_size - n
    BY <2>1, WriteSilent
  <2>5. Teardown(b, out) BY <2>2
  <2> HIDE DEF b, out
  <2>6. b.ib_size <= conn.ib_size
    BY <1>1, <2>3, <2>4, BufferAssumption DEF Connection
  <2>7. b = [b EXCEPT !.state = "CONNECTED"] BY <2>3 DEF Connection
  <2> QED BY <1>2, <2>1, <2>3, <2>4, <2>5, <2>6, <2>7, TeardownEnds
<1> QED BY <1>3, <1>4, <1>5, <1>6, <1>7, <1>8, <1>9 DEF ClientProcess

-----------------------------------------------------------------------------
(***************************************************************************)
(* The theorems.                                                           *)
(***************************************************************************)

\* The initial states are mapped to those of BytePipe.
LEMMA InitPipe == Init => PipeInv /\ Pipe!Init
<1> SUFFICES ASSUME Init PROVE PipeInv /\ Pipe!Init
  OBVIOUS
<1>1. /\ conn.state = "NONE" /\ dev.state = "NONE" /\ h2d = <<>> /\ d2h = <<>>
      /\ client.state = "COMMAND" /\ client.reply = "NONE"
      /\ sock.peer = "open" /\ sock.res = "NONE" /\ sock.in = 0 /\ sock.out = 0
  BY DEF Init, NoConn, NoDev
<1>2. PipeInv BY <1>1 DEF PipeInv, SilentInv, ReplyInv, Silent, NoData, NoDataAfterReset
<1>3. Pipe!Init BY <1>1 DEF Pipe!Init, PipeState, AppUp, Alive, UpBytes, DownBytes
<1> QED BY <1>2, <1>3

\* Each step is mapped to a step of BytePipe or to none.
LEMMA NextPipe == IInv /\ PipeInv /\ IInv' /\ [Next]_vars => PipeInv' /\ PipeStep
<1> SUFFICES ASSUME IInv, PipeInv, IInv', [Next]_vars PROVE PipeInv' /\ PipeStep
  OBVIOUS
<1>1. CASE Select \/ SelectTimeout BY <1>1, LoopPipe
<1>2. CASE DeviceInput BY <1>2, DeviceInputPipe
<1>3. CASE ClientProcess BY <1>3, ClientProcessPipe
<1>4. CASE AppConnect \/ AppWrite \/ AppRead \/ AppClose BY <1>4, AppPipe
<1>5. CASE DeviceReceive BY <1>5, DeviceReceivePipe
<1>6. CASE DeviceSend \/ DeviceAck \/ DeviceConsume \/ DeviceClose BY <1>6, DeviceActsPipe
<1>7. CASE UNCHANGED vars BY <1>7, PipeFrame DEF vars
<1> QED BY <1>1, <1>2, <1>3, <1>4, <1>5, <1>6, <1>7 DEF Next

\* No data is on its way after the RST of a teardown or to a device that is not there,
\* and an application is told that it is connected only while it is.
THEOREM PipeInvCorrect == Spec => []PipeInv
<1>1. Init => PipeInv BY InitPipe
<1>2. IInv /\ PipeInv /\ IInv' /\ [Next]_vars => PipeInv' BY NextPipe
<1> QED BY <1>1, <1>2, StreamInvCorrect, PTL DEF Spec

\* Every step of a handler is a step of the pair of bounded pipes, or leaves them as
\* they are: device.cpp, client.cpp and the main loop implement BytePipe.
THEOREM PipeCorrect == Spec => PipeSpec
<1>1. Init => Pipe!Init BY InitPipe
<1>2. IInv /\ PipeInv /\ IInv' /\ [Next]_vars => [Pipe!Next]_(Pipe!vars)
  BY NextPipe DEF PipeStep
<1> QED BY <1>1, <1>2, StreamInvCorrect, PipeInvCorrect, PTL DEF Spec, PipeSpec, Pipe!Spec

=============================================================================
