-------------------------- MODULE MuxClientsProofs --------------------------
(***************************************************************************)
(* Clients and their connections stay together, for any number of clients, *)
(* devices, ports, commands and packets under way.                         *)
(*                                                                         *)
(* A removal and the shutdown fold an operator over a set.  Since no       *)
(* theorem can take an operator as a parameter, a fold is first made one   *)
(* of a function, and what it keeps is a set of pairs of the elements that *)
(* are done and the value so far.                                          *)
(***************************************************************************)
EXTENDS MuxClients, FiniteSetTheorems, SequenceTheorems, WellFoundedInduction, TLAPS

-----------------------------------------------------------------------------
(***************************************************************************)
(* Folds over finite sets.                                                 *)
(***************************************************************************)

Pick(s) == CHOOSE x \in s : TRUE
Rest(s) == s \ {Pick(s)}

\* What is good for a finite set if it is good for each set whose proper subsets are
\* all good.
LEMMA SubsetInduction ==
  ASSUME NEW A, IsFiniteSet(A), NEW Good,
         \A T \in SUBSET A : (\A U \in SUBSET T : U # T => U \in Good) => T \in Good
  PROVE  A \in Good
<1> DEFINE Bad == {T \in SUBSET A : T \notin Good}
<1> SUFFICES ASSUME Bad # {} PROVE FALSE
  OBVIOUS
<1>1. Bad \subseteq FiniteSubsetsOf(A) BY FS_FiniteSubsetsOfFinite
<1>2. PICK x \in Bad : \A y \in Bad : ~ (<<y, x>> \in StrictSubsetOrdering(A))
  <2> HIDE DEF Bad
  <2> QED BY <1>1, FS_StrictSubsetOrderingWellFounded, WFMin
<1>3. \A y \in Bad : ~(y \subseteq x /\ y # x)
  BY <1>2 DEF StrictSubsetOrdering
<1> QED BY <1>3

\* A set without the element picked from it.
LEMMA RestIs ==
  ASSUME NEW A, NEW s \in SUBSET A, s # {}
  PROVE  /\ Pick(s) \in s /\ Pick(s) \in A
         /\ Rest(s) \in SUBSET s /\ Rest(s) \in SUBSET A /\ Rest(s) # s
BY DEF Pick, Rest

\* What holds for the empty set and is kept by each element holds for all subsets.
LEMMA FoldKeeps ==
  ASSUME NEW A, IsFiniteSet(A), NEW h, NEW J, <<{}, h[{}]>> \in J,
         \A s \in SUBSET A : s # {} /\ <<Rest(s), h[Rest(s)]>> \in J => <<s, h[s]>> \in J
  PROVE  \A s \in SUBSET A : <<s, h[s]>> \in J
<1> DEFINE Good == {s \in SUBSET A : <<s, h[s]>> \in J}
<1> SUFFICES ASSUME NEW s \in SUBSET A PROVE s \in Good
  OBVIOUS
<1>1. IsFiniteSet(s) BY FS_Subset
<1>2. ASSUME NEW T \in SUBSET s, \A U \in SUBSET T : U # T => U \in Good PROVE T \in Good
  <2>1. CASE T = {} BY <2>1
  <2>2. CASE T # {}
    <3>1. Rest(T) \in Good BY <1>2, <2>2, RestIs
    <3> QED BY <2>2, <3>1
  <2> QED BY <2>1, <2>2
<1> HIDE DEF Good
<1> QED BY <1>1, <1>2, SubsetInduction

\* h is the fold of F over the subsets of A.
Folding(h, A, F, base) ==
  h = [s \in SUBSET A |-> IF s = {} THEN base ELSE F[Pick(s)][h[Rest(s)]]]

\* Two folds agree.
LEMMA FoldsAgree ==
  ASSUME NEW A, NEW B, NEW F, NEW base, NEW h, NEW k,
         Folding(h, A, F, base), Folding(k, B, F, base),
         NEW s \in SUBSET A, s \in SUBSET B, IsFiniteSet(s)
  PROVE  h[s] = k[s]
<1> DEFINE Good == {T \in SUBSET s : h[T] = k[T]}
<1>1. \A T \in SUBSET s : h[T] = IF T = {} THEN base ELSE F[Pick(T)][h[Rest(T)]]
  BY DEF Folding
<1>2. \A T \in SUBSET s : k[T] = IF T = {} THEN base ELSE F[Pick(T)][k[Rest(T)]]
  BY DEF Folding
<1>3. ASSUME NEW T \in SUBSET s, \A U \in SUBSET T : U # T => U \in Good PROVE T \in Good
  <2>1. CASE T = {} BY <1>1, <1>2, <2>1
  <2>2. CASE T # {}
    <3>1. Rest(T) \in Good BY <1>3, <2>2, RestIs
    <3> QED BY <1>1, <1>2, <2>2, <3>1
  <2> QED BY <2>1, <2>2
<1>4. s \in Good
  <2> HIDE DEF Good
  <2> QED BY <1>3, SubsetInduction
<1> QED BY <1>4

\* There is a fold over every finite set.
LEMMA FoldExists ==
  ASSUME NEW A, IsFiniteSet(A), NEW F, NEW base
  PROVE  \E h : Folding(h, A, F, base)
<1> DEFINE Good == {T \in SUBSET A : \E h : Folding(h, T, F, base)}
           H(T) == CHOOSE h : Folding(h, T, F, base)
<1>1. ASSUME NEW T \in SUBSET A, \A U \in SUBSET T : U # T => U \in Good PROVE T \in Good
  <2> DEFINE h == [s \in SUBSET T |-> IF s = {} THEN base ELSE F[Pick(s)][H(Rest(s))[Rest(s)]]]
  <2>1. \A U \in SUBSET T : U # T => Folding(H(U), U, F, base) BY <1>1
  <2>2. ASSUME NEW s \in SUBSET T, s # {} PROVE h[Rest(s)] = H(Rest(s))[Rest(s)]
    <3> DEFINE r == Rest(s)
    <3>1. r \in SUBSET T /\ r # T BY <2>2, RestIs
    <3>2. Folding(H(r), r, F, base) BY <2>1, <3>1
    <3>3. H(r)[r] = IF r = {} THEN base ELSE F[Pick(r)][H(r)[Rest(r)]]
      <4> HIDE DEF H, r
      <4> QED BY <3>2 DEF Folding
    <3>4. r # {} => H(r)[Rest(r)] = H(Rest(r))[Rest(r)]
      <4> SUFFICES ASSUME r # {} PROVE H(r)[Rest(r)] = H(Rest(r))[Rest(r)]
        OBVIOUS
      <4>1. Rest(r) \in SUBSET r /\ Rest(r) \in SUBSET T /\ Rest(r) # T
        BY <3>1, RestIs
      <4>2. Folding(H(Rest(r)), Rest(r), F, base) BY <2>1, <4>1
      <4>3. IsFiniteSet(Rest(r)) BY <4>1, FS_Subset
      <4> HIDE DEF H, r
      <4> QED BY <3>2, <4>1, <4>2, <4>3, FoldsAgree
    <3> HIDE DEF H, r
    <3>5. h[r] = IF r = {} THEN base ELSE F[Pick(r)][H(Rest(r))[Rest(r)]] BY <3>1
    <3> QED BY <3>3, <3>4, <3>5 DEF r
  <2>3. Folding(h, T, F, base)
    <3>1. \A s \in SUBSET T : s # {} =>
            F[Pick(s)][H(Rest(s))[Rest(s)]] = F[Pick(s)][h[Rest(s)]]
      BY <2>2
    <3>2. h = [s \in SUBSET T |-> IF s = {} THEN base ELSE F[Pick(s)][h[Rest(s)]]]
      <4> HIDE DEF H
      <4> QED BY <3>1
    <3> HIDE DEF h
    <3> QED BY <3>2 DEF Folding
  <2> HIDE DEF h
  <2> QED BY <2>3
<1> HIDE DEF Good
<1>2. A \in Good BY <1>1, SubsetInduction
<1> QED BY <1>2 DEF Good

\* J is kept by F for each element; and a fold of F in which every value is in J.
Keeps(A, F, J) ==
  \A s \in SUBSET A : s # {} =>
    \A u : <<Rest(s), u>> \in J => <<s, F[Pick(s)][u]>> \in J
Folds(g, A, F, base, J) ==
  /\ g = [s \in SUBSET A |-> g[s]] /\ g[{}] = base
  /\ \A s \in SUBSET A : <<s, g[s]>> \in J
  /\ \A s \in SUBSET A : s # {} => g[s] = F[Pick(s)][g[Rest(s)]]

\* What the pairs of done elements and values keep holds of the fold over the whole set.
LEMMA FoldWorks ==
  ASSUME NEW A, IsFiniteSet(A), NEW F, NEW base, NEW J, <<{}, base>> \in J, Keeps(A, F, J)
  PROVE  \E g : Folds(g, A, F, base, J)
<1>1. PICK g : Folding(g, A, F, base) BY FoldExists
<1>2. /\ g = [s \in SUBSET A |-> g[s]] /\ g[{}] = base
      /\ \A s \in SUBSET A : s # {} => g[s] = F[Pick(s)][g[Rest(s)]]
  BY <1>1 DEF Folding
<1>3. \A s \in SUBSET A : s # {} /\ <<Rest(s), g[Rest(s)]>> \in J => <<s, g[s]>> \in J
  BY <1>2 DEF Keeps
<1>4. \A s \in SUBSET A : <<s, g[s]>> \in J BY <1>2, <1>3, FoldKeeps
<1>5. Folds(g, A, F, base, J) BY <1>2, <1>4 DEF Folds
<1> QED BY <1>5

-----------------------------------------------------------------------------
(***************************************************************************)
(* Worlds, and what one handler does to one.                               *)
(***************************************************************************)

ClientRec ==
  [state : Linked \cup {"none", "COMMAND", "DEAD"}, unread : Nat, part : BOOLEAN,
   app : {"none", "open", "closed"}, sent : 0..MaxCommands, run : Nat,
   replies : Seq(Nat), got : Seq(Nat), tag : Nat, device : Devices \cup {0}, seen : BOOLEAN]
OpenRec == [port : Nat, id : Nat, up : BOOLEAN]
DeviceRec ==
  [state : {"none", "init", "active", "gone"}, next : 0..PortMod - 1,
   open : SUBSET OpenRec, socket : BOOLEAN]
Conn ==
  [dev : Devices, port : 1..PortMod - 1, h : Handles, id : Nat,
   state : {"CONNECTING", "CONNECTED"}, heard : SUBSET Nat]
Worlds ==
  [cl : [Handles -> ClientRec], dev : [Devices -> DeviceRec], conns : SUBSET Conn, ok : BOOLEAN]

\* The replies of a client, sent or not, are those of the commands it has run, but for
\* one that waits for the device.
Due(c) == IF c.state = "CONNECTING1" THEN c.run - 1 ELSE c.run
Answered(c) == c.got \o c.replies = [i \in 1..Due(c) |-> i]
ClientOK(c) ==
  /\ c.state # "DEAD"
  /\ c.run + c.unread <= c.sent
  /\ c.tag <= c.run
  /\ c.state = "CONNECTING1" => c.tag = c.run /\ c.run > 0
  /\ Answered(c)
  /\ c.state = "CONNECTED" => c.replies = <<>>

\* Each connection has a client in the same state that knows its device, and each
\* linked client one connection.
StatesOf(c) == IF c.state = "CONNECTING" THEN {"CONNECTING1"} ELSE {"CONNECTING2", "CONNECTED"}
Owned(w) ==
  \A c \in w.conns :
    /\ w.dev[c.dev].state = "active"
    /\ w.cl[c.h].device = c.dev /\ w.cl[c.h].state \in StatesOf(c)
Apart(w) ==
  \A c, k \in w.conns :
    /\ c.dev = k.dev /\ c.port = k.port => c = k
    /\ c.h = k.h => c = k
Linking(w) ==
  \A h \in Handles : w.cl[h].state \in Linked => \E c \in w.conns : c.h = h
Matched(w) == Owned(w) /\ Apart(w) /\ Linking(w)

Good(w) == Matched(w) /\ \A h \in Handles : ClientOK(w.cl[h])
\* Good, but for a client in the middle of a command.
GoodBut(w, h) == Matched(w) /\ \A k \in Handles \ {h} : ClientOK(w.cl[k])

\* A handle without a client is as it should be (client_close leaves one).
LEMMA NoClientIs == NoClient \in ClientRec /\ ClientOK(NoClient)
<1>1. <<>> \in Seq(Nat) OBVIOUS
<1>2. MaxCommands \in Nat BY ClientsAssumption
<1>3. <<>> \o <<>> = [i \in 1..0 |-> i] BY <1>1
<1>4. NoClient.got = <<>> /\ NoClient.replies = <<>> /\ Due(NoClient) = 0 BY DEF NoClient, Due
<1>5. Answered(NoClient) BY <1>3, <1>4 DEF Answered
<1> QED BY <1>1, <1>2, <1>5 DEF NoClient, ClientRec, ClientOK

\* Replies that are queued after those sent make one sequence with them (send_result).
LEMMA OneMore ==
  ASSUME NEW S, NEW g \in Seq(S), NEW r \in Seq(S), NEW e \in S
  PROVE  g \o Append(r, e) = Append(g \o r, e)
<1>1. <<e>> \in Seq(S) /\ g \o r \in Seq(S) BY ConcatProperties
<1>2. Append(r, e) = r \o <<e>> /\ Append(g \o r, e) = (g \o r) \o <<e>>
  BY <1>1, AppendIsConcat
<1>3. (g \o r) \o <<e>> = g \o (r \o <<e>>) BY <1>1, ConcatAssociative
<1> QED BY <1>2, <1>3

\* The client whose turn it is gets the next reply.
LEMMA NextReply ==
  ASSUME NEW c \in ClientRec, NEW n \in Nat, c.got \o c.replies = [i \in 1..n |-> i]
  PROVE  /\ Append(c.replies, n + 1) \in Seq(Nat)
         /\ c.got \o Append(c.replies, n + 1) = [i \in 1..n + 1 |-> i]
<1>1. c.got \in Seq(Nat) /\ c.replies \in Seq(Nat) BY DEF ClientRec
<1> DEFINE g == c.got
           r == c.replies
<1> HIDE DEF g, r
<1>2. Append(r, n + 1) \in Seq(Nat) BY <1>1 DEF r
<1>3. g \o Append(r, n + 1) = Append(g \o r, n + 1)
  <2>1. g \in Seq(Nat) /\ r \in Seq(Nat) /\ n + 1 \in Nat BY <1>1 DEF g, r
  <2> QED BY <2>1, OneMore
<1>4. Append([i \in 1..n |-> i], n + 1) = [i \in 1..n + 1 |-> i] OBVIOUS
<1> QED BY <1>2, <1>3, <1>4 DEF g, r

\* send_result adds a reply to the client's buffer and nothing else.
Replied(c, tag) == [c EXCEPT !.replies = Append(@, tag)]

\* What send_result changes: the replies of one client.
LEMMA ReplyIs ==
  ASSUME NEW w \in Worlds, NEW h \in Handles, NEW tag \in Nat
  PROVE  LET v == Reply(w, h, tag)
         IN /\ v \in Worlds
            /\ v.dev = w.dev /\ v.conns = w.conns /\ v.ok = w.ok
            /\ v.cl = [w.cl EXCEPT ![h] = Replied(w.cl[h], tag)]
            /\ Replied(w.cl[h], tag) \in ClientRec
<1> DEFINE c == Replied(w.cl[h], tag)
           v == Reply(w, h, tag)
<1>1. w.cl \in [Handles -> ClientRec] BY DEF Worlds
<1>2. w.cl[h] \in ClientRec /\ w.cl[h].replies \in Seq(Nat) BY <1>1 DEF ClientRec
<1>3. Append(w.cl[h].replies, tag) \in Seq(Nat) BY <1>2
<1>4. c \in ClientRec BY <1>2, <1>3 DEF ClientRec, Replied
<1>5. v = [w EXCEPT !.cl = [w.cl EXCEPT ![h] = c]] BY DEF Reply, Replied
<1>6. [w.cl EXCEPT ![h] = c] \in [Handles -> ClientRec] BY <1>1, <1>4
<1> HIDE DEF c, v
<1>7. v \in Worlds /\ v.dev = w.dev /\ v.conns = w.conns /\ v.ok = w.ok /\ v.cl = [w.cl EXCEPT ![h] = c]
  BY <1>5, <1>6 DEF Worlds
<1> QED BY <1>4, <1>7 DEF c, v

\* client_close takes the client out of the list.
LEMMA FreedIs ==
  ASSUME NEW w \in Worlds, NEW h \in Handles
  PROVE  LET v == Freed(w, h)
         IN /\ v \in Worlds
            /\ v.dev = w.dev /\ v.conns = w.conns /\ v.ok = w.ok
            /\ v.cl = [w.cl EXCEPT ![h] = NoClient]
BY NoClientIs DEF Worlds, Freed

\* A device that is told that a connection ended forgets it, and no other.
Forgotten(d, port) == [d EXCEPT !.open = {o \in @ : o.port # port}]

\* What a TH_RST changes: what the device that gets it thinks is open.
LEMMA ToldIs ==
  ASSUME NEW w \in Worlds, NEW c \in Conn, NEW tell \in BOOLEAN
  PROVE  LET v == Told(w, c, tell)
         IN /\ v \in Worlds
            /\ v.cl = w.cl /\ v.conns = w.conns /\ v.ok = w.ok
            /\ ~tell => v.dev = w.dev
            /\ tell => v.dev = [w.dev EXCEPT ![c.dev] = Forgotten(w.dev[c.dev], c.port)]
<1>1. w.dev[c.dev] \in DeviceRec BY DEF Worlds, Conn
<1>2. Forgotten(w.dev[c.dev], c.port) \in DeviceRec BY <1>1 DEF DeviceRec, Forgotten
<1>3. CASE tell
  <2>1. Told(w, c, tell) = [w EXCEPT !.dev = [w.dev EXCEPT ![c.dev] = Forgotten(w.dev[c.dev], c.port)]]
    BY <1>3 DEF Told, Rst, Forgotten
  <2> DEFINE r == Forgotten(w.dev[c.dev], c.port)
             x == [w.dev EXCEPT ![c.dev] = r]
             v == [w EXCEPT !.dev = x]
  <2>2. x \in [Devices -> DeviceRec]
    <3>1. r \in DeviceRec BY <1>2
    <3>2. w.dev \in [Devices -> DeviceRec] BY DEF Worlds
    <3> HIDE DEF r
    <3> QED BY ONLY <3>1, <3>2
  <2> HIDE DEF x
  <2>3. /\ v \in Worlds /\ v.dev = x
        /\ v.cl = w.cl /\ v.conns = w.conns /\ v.ok = w.ok
    BY <2>2 DEF Worlds
  <2>4. Told(w, c, tell) = v BY <2>1 DEF x
  <2> HIDE DEF v
  <2>5. Told(w, c, tell).dev = [w.dev EXCEPT ![c.dev] = Forgotten(w.dev[c.dev], c.port)]
    BY <2>3, <2>4 DEF x
  <2> QED BY <1>3, <2>3, <2>4, <2>5
<1>4. CASE ~tell BY <1>4 DEF Told
<1> QED BY <1>3, <1>4

\* A client whose connect request was refused.
Reset(c) == [c EXCEPT !.state = "COMMAND", !.tag = 0, !.device = 0]
Refused(c) == Reset(Replied(c, c.tag))

\* client_notify_connect sets a refused client back, field by field.
LEMMA Resetting ==
  ASSUME NEW w \in Worlds, NEW h \in Handles
  PROVE  /\ Reset(w.cl[h]) \in ClientRec
         /\ [w EXCEPT !.cl[h].state = "COMMAND", !.cl[h].tag = 0, !.cl[h].device = 0]
              = [w EXCEPT !.cl = [w.cl EXCEPT ![h] = Reset(w.cl[h])]]
<1>1. w.cl[h] \in ClientRec BY DEF Worlds
<1>2. ASSUME NEW r \in ClientRec
      PROVE  Reset(r) \in ClientRec
  BY DEF ClientRec, Reset
<1>3. ASSUME NEW f \in [Handles -> ClientRec], NEW a, NEW b, NEW c
      PROVE  [[[f EXCEPT ![h] = a] EXCEPT ![h] = b] EXCEPT ![h] = c] = [f EXCEPT ![h] = c]
  OBVIOUS
<1>4. w.cl \in [Handles -> ClientRec] BY DEF Worlds
<1>5. ASSUME NEW f, NEW g, NEW i
      PROVE [[[w EXCEPT !.cl = f] EXCEPT !.cl = g] EXCEPT !.cl = i] = [w EXCEPT !.cl = i]
  BY DEF Worlds
<1>6. ASSUME NEW f PROVE [w EXCEPT !.cl = f].cl = f BY DEF Worlds
<1> DEFINE r1 == [w.cl[h] EXCEPT !.state = "COMMAND"]
           r2 == [r1 EXCEPT !.tag = 0]
           r3 == [r2 EXCEPT !.device = 0]
           f1 == [w.cl EXCEPT ![h] = r1]
           f2 == [f1 EXCEPT ![h] = r2]
           f3 == [f2 EXCEPT ![h] = r3]
           w1 == [w EXCEPT !.cl = f1]
           w2 == [w1 EXCEPT !.cl = f2]
           w3 == [w2 EXCEPT !.cl = f3]
<1>7. f1[h] = r1 /\ f2[h] = r2 /\ f3 = [w.cl EXCEPT ![h] = r3] BY <1>3, <1>4
<1>8. w1.cl = f1 /\ w2.cl = f2 /\ w3 = [w EXCEPT !.cl = f3]
  <2> HIDE DEF f1, f2, f3
  <2>1. w2 = [w EXCEPT !.cl = f2] BY DEF Worlds
  <2> QED BY <1>5, <1>6, <2>1
<1>9. w3 = [w EXCEPT !.cl[h].state = "COMMAND", !.cl[h].tag = 0, !.cl[h].device = 0]
  <2> HIDE DEF f1, f2, f3, r1, r2, r3, w1, w2, w3
  <2>1. w1 = [w EXCEPT !.cl[h].state = "COMMAND"] BY DEF w1, f1, r1
  <2>2. w2 = [w1 EXCEPT !.cl[h].tag = 0] BY <1>7, <1>8 DEF w2, f2, r2
  <2>3. w3 = [w2 EXCEPT !.cl[h].device = 0] BY <1>7, <1>8 DEF w3, f3, r3
  <2> QED BY <2>1, <2>2, <2>3
<1>10. r3 = Reset(w.cl[h]) BY DEF Reset
<1> QED
  <2> HIDE DEF r1, r2, r3, f1, f2, w1, w2, w3
  <2> QED BY <1>1, <1>2, <1>7, <1>8, <1>9, <1>10

\* What client_notify_connect does to the client of a connection that never was.
LEMMA RefusalIs ==
  ASSUME NEW w \in Worlds, NEW c \in Conn
  PROVE  LET v == Refusal(w, c)
         IN /\ v \in Worlds
            /\ v.dev = w.dev /\ v.conns = w.conns /\ v.ok = w.ok
            /\ w.cl[c.h].state # "CONNECTING1" => v.cl = w.cl
            /\ w.cl[c.h].state = "CONNECTING1" =>
                 v.cl = [w.cl EXCEPT ![c.h] = Refused(w.cl[c.h])]
<1> DEFINE k == w.cl[c.h]
           u == Reply(w, c.h, k.tag)
<1>1. CASE k.state # "CONNECTING1" BY <1>1 DEF Refusal
<1>2. CASE k.state = "CONNECTING1"
  <2>1. c.h \in Handles /\ k \in ClientRec /\ k.tag \in Nat BY DEF Worlds, Conn, ClientRec
  <2> DEFINE a == Replied(k, k.tag)
  <2>2. u \in Worlds /\ u.dev = w.dev /\ u.conns = w.conns /\ u.ok = w.ok
        /\ u.cl = [w.cl EXCEPT ![c.h] = a] /\ a \in ClientRec
    BY <2>1, ReplyIs
  <2>3. Refusal(w, c) = [u EXCEPT !.cl[c.h].state = "COMMAND", !.cl[c.h].tag = 0, !.cl[c.h].device = 0]
    BY <1>2 DEF Refusal
  <2>4. u.cl[c.h] = a BY <2>1, <2>2 DEF Worlds
  <2>5. Refused(k) = Reset(a) BY DEF Refused
  <2> HIDE DEF a, u, k
  <2>10. u \in Worlds /\ c.h \in Handles BY <2>1, <2>2
  <2>11. /\ Reset(u.cl[c.h]) \in ClientRec
         /\ [u EXCEPT !.cl[c.h].state = "COMMAND", !.cl[c.h].tag = 0, !.cl[c.h].device = 0]
              = [u EXCEPT !.cl = [u.cl EXCEPT ![c.h] = Reset(u.cl[c.h])]]
    BY ONLY <2>10, Resetting
  <2>12. Reset(u.cl[c.h]) = Refused(k) BY <2>4, <2>5
  <2>6. Refused(k) \in ClientRec BY <2>11, <2>12
  <2>7. Refusal(w, c) = [u EXCEPT !.cl = [u.cl EXCEPT ![c.h] = Refused(k)]]
    BY <2>3, <2>11, <2>12
  <2>8. [u.cl EXCEPT ![c.h] = Refused(k)] = [w.cl EXCEPT ![c.h] = Refused(k)] BY <2>1, <2>2 DEF Worlds
  <2>9. [u.cl EXCEPT ![c.h] = Refused(k)] \in [Handles -> ClientRec] BY <2>2, <2>6 DEF Worlds
  <2> QED BY <1>2, <2>2, <2>7, <2>8, <2>9 DEF Worlds, k
<1> QED BY <1>1, <1>2

\* connection_teardown: what happens to the connection, its device and its client.
LEMMA TeardownIs ==
  ASSUME NEW w \in Worlds, NEW c \in Conn, NEW tell \in BOOLEAN
  PROVE  LET v == Teardown(w, c, tell)
         IN /\ v \in Worlds
            /\ v.ok = w.ok /\ v.conns = w.conns \ {c}
            /\ ~tell => v.dev = w.dev
            /\ tell => v.dev = [w.dev EXCEPT ![c.dev] = Forgotten(w.dev[c.dev], c.port)]
            /\ c.state = "CONNECTED" => v.cl = [w.cl EXCEPT ![c.h] = NoClient]
            /\ c.state = "CONNECTING" /\ w.cl[c.h].state # "CONNECTING1" => v.cl = w.cl
            /\ c.state = "CONNECTING" /\ w.cl[c.h].state = "CONNECTING1" =>
                 v.cl = [w.cl EXCEPT ![c.h] = Refused(w.cl[c.h])]
<1> DEFINE t == Told(w, c, tell)
           u == [t EXCEPT !.conns = @ \ {c}]
<1>1. /\ t \in Worlds /\ t.cl = w.cl /\ t.conns = w.conns /\ t.ok = w.ok
      /\ ~tell => t.dev = w.dev
      /\ tell => t.dev = [w.dev EXCEPT ![c.dev] = Forgotten(w.dev[c.dev], c.port)]
  BY ToldIs
<1>2. Teardown(w, c, tell) = IF c.state = "CONNECTING" THEN Refusal(u, c) ELSE Freed(u, c.h)
  BY DEF Teardown
<1> HIDE DEF t
<1>3. u \in Worlds /\ u.cl = t.cl /\ u.dev = t.dev /\ u.ok = t.ok /\ u.conns = t.conns \ {c}
  BY <1>1 DEF Worlds
<1>4. c.h \in Handles /\ c.state \in {"CONNECTING", "CONNECTED"} BY DEF Conn
<1> HIDE DEF u
<1>5. CASE c.state = "CONNECTING"
  <2>1. Teardown(w, c, tell) = Refusal(u, c) BY <1>2, <1>5
  <2> QED BY <1>1, <1>3, <1>5, <2>1, RefusalIs
<1>6. CASE c.state = "CONNECTED"
  <2>1. Teardown(w, c, tell) = Freed(u, c.h) BY <1>2, <1>6
  <2>2. LET v == Freed(u, c.h)
        IN /\ v \in Worlds
           /\ v.dev = u.dev /\ v.conns = u.conns /\ v.ok = u.ok
           /\ v.cl = [u.cl EXCEPT ![c.h] = NoClient]
    BY <1>3, <1>4, FreedIs
  <2> QED BY <1>1, <1>3, <1>6, <2>1, <2>2
<1> QED BY <1>4, <1>5, <1>6

\* The clients that are left have run what they had, and were there when select() ran.
Fewer(v, w) ==
  \A h \in Handles : v.cl[h].state # "none" =>
    w.cl[h].state # "none" /\ v.cl[h].run = w.cl[h].run /\ v.cl[h].seen = w.cl[h].seen
\* The devices are those there were, with no connections they had not.
SameDevices(v, w) ==
  \A d \in Devices :
    /\ v.dev[d].state = w.dev[d].state /\ v.dev[d].next = w.dev[d].next
    /\ v.dev[d].socket = w.dev[d].socket /\ v.dev[d].open \subseteq w.dev[d].open
\* What a device thinks is open is a connection.
OpenOK(w) ==
  \A d \in Devices : \A o \in w.dev[d].open :
    \E k \in w.conns : k.dev = d /\ k.port = o.port /\ k.id = o.id

\* A client whose request is refused has the reply in its turn.
LEMMA RefusedOK ==
  ASSUME NEW c \in ClientRec, ClientOK(c), c.state = "CONNECTING1"
  PROVE  /\ ClientOK(Refused(c)) /\ Refused(c).state = "COMMAND"
         /\ Refused(c).run = c.run /\ Refused(c).seen = c.seen
<1> DEFINE n == c.run - 1
           a == Append(c.replies, c.tag)
<1>1. n \in Nat /\ c.tag = n + 1 /\ c.run = n + 1 /\ c.got \o c.replies = [i \in 1..n |-> i]
  <2>1. c.run \in Nat BY DEF ClientRec
  <2>2. c.tag = c.run /\ c.run > 0 /\ Answered(c) BY DEF ClientOK
  <2>3. Due(c) = n BY DEF Due
  <2> QED BY <2>1, <2>2, <2>3 DEF Answered
<1>2. c.got \o a = [i \in 1..n + 1 |-> i]
  <2> HIDE DEF n
  <2> QED BY <1>1, NextReply
<1> DEFINE r == Refused(c)
<1>3. /\ r.got = c.got /\ r.replies = a /\ r.run = c.run /\ r.seen = c.seen
      /\ r.state = "COMMAND" /\ r.tag = 0 /\ r.unread = c.unread /\ r.sent = c.sent
  <2> HIDE DEF a
  <2> USE DEF ClientRec
  <2> QED BY DEF Refused, Reset, Replied, a
<1>4. c.run + c.unread <= c.sent /\ c.run \in Nat BY DEF ClientOK, ClientRec
<1> HIDE DEF a, r, n
<1>5. Answered(r) BY <1>1, <1>2, <1>3 DEF Answered, Due
<1>6. ClientOK(r) BY <1>3, <1>4, <1>5 DEF ClientOK
<1> QED BY <1>3, <1>6 DEF r

\* Once a connection is taken out and its client told or closed, all others still have
\* their clients.
LEMMA Unlinked ==
  ASSUME NEW w \in Worlds, NEW c \in w.conns, GoodBut(w, c.h), NEW tell \in BOOLEAN,
         NEW v \in Worlds,
         v.conns = w.conns \ {c},
         ~tell => v.dev = w.dev,
         tell => v.dev = [w.dev EXCEPT ![c.dev] = Forgotten(w.dev[c.dev], c.port)],
         \A h \in Handles \ {c.h} : v.cl[h] = w.cl[h],
         ClientOK(v.cl[c.h]), v.cl[c.h].state \in {"none", "COMMAND"},
         v.cl[c.h].state # "none" =>
           w.cl[c.h].state # "none" /\ v.cl[c.h].run = w.cl[c.h].run /\ v.cl[c.h].seen = w.cl[c.h].seen
  PROVE  Good(v) /\ Fewer(v, w) /\ SameDevices(v, w) /\ (tell /\ OpenOK(w) => OpenOK(v))
<1>1. c \in Conn /\ c.h \in Handles /\ c.dev \in Devices BY DEF Conn, Worlds
<1>2. w.cl \in [Handles -> ClientRec] /\ w.dev \in [Devices -> DeviceRec] BY DEF Worlds
<1>3. /\ \A d \in Devices : v.dev[d].state = w.dev[d].state /\ v.dev[d].open \subseteq w.dev[d].open
      /\ SameDevices(v, w)
      /\ \A d \in Devices \ {c.dev} : v.dev[d] = w.dev[d]
      /\ tell => \A o \in v.dev[c.dev].open : o.port # c.port
  <2>1. CASE tell
    <3>1. v.dev[c.dev] = Forgotten(w.dev[c.dev], c.port) /\ \A d \in Devices \ {c.dev} : v.dev[d] = w.dev[d]
      BY <1>1, <1>2, <2>1
    <3>2. w.dev[c.dev] \in DeviceRec BY <1>1, <1>2
    <3> DEFINE f == Forgotten(w.dev[c.dev], c.port)
               d0 == w.dev[c.dev]
    <3>3. f.state = d0.state /\ f.next = d0.next /\ f.socket = d0.socket
          /\ f.open = {o \in d0.open : o.port # c.port}
      <4> HIDE DEF d0
      <4>1. d0 \in DeviceRec BY <3>2 DEF d0
      <4>2. ASSUME NEW x
            PROVE  LET r == [d0 EXCEPT !.open = x]
                   IN r.state = d0.state /\ r.next = d0.next /\ r.socket = d0.socket /\ r.open = x
        BY <4>1 DEF DeviceRec
      <4>3. f = [d0 EXCEPT !.open = {o \in d0.open : o.port # c.port}] BY DEF Forgotten, d0
      <4> HIDE DEF f
      <4> QED BY <4>2, <4>3
    <3> HIDE DEF f
    <3> QED BY <3>1, <3>3 DEF SameDevices, f
  <2>2. CASE ~tell BY <2>2 DEF SameDevices
  <2> QED BY <2>1, <2>2
<1>4. Fewer(v, w) BY DEF Fewer
<1>5. Good(v)
  <2>1. \A h \in Handles : ClientOK(v.cl[h]) BY DEF GoodBut
  <2>2. Apart(w) /\ Owned(w) /\ Linking(w) BY DEF GoodBut, Matched
  <2>3. Apart(v) BY <2>2 DEF Apart
  <2>4. ASSUME NEW e \in v.conns
        PROVE  /\ v.dev[e.dev].state = "active"
               /\ v.cl[e.h].device = e.dev /\ v.cl[e.h].state \in StatesOf(e)
    <3>1. e \in w.conns /\ e # c /\ e \in Conn BY DEF Worlds
    <3>2. e.h \in Handles /\ e.dev \in Devices /\ e.h # c.h BY <2>2, <3>1 DEF Conn, Apart
    <3>3. v.cl[e.h] = w.cl[e.h] BY <3>2
    <3> QED BY <1>3, <2>2, <3>1, <3>2, <3>3 DEF Owned
  <2>5. ASSUME NEW h \in Handles, v.cl[h].state \in Linked PROVE \E e \in v.conns : e.h = h
    <3>1. h # c.h BY <2>5 DEF Linked
    <3>2. w.cl[h].state \in Linked BY <2>5, <3>1
    <3>3. PICK e \in w.conns : e.h = h BY <2>2, <3>2 DEF Linking
    <3> QED BY <3>1, <3>3
  <2> QED BY <2>1, <2>3, <2>4, <2>5 DEF Good, Matched, Owned, Linking
<1>6. ASSUME tell, OpenOK(w) PROVE OpenOK(v)
  <2> SUFFICES ASSUME NEW d \in Devices, NEW o \in v.dev[d].open
               PROVE  \E e \in v.conns : e.dev = d /\ e.port = o.port /\ e.id = o.id
    BY DEF OpenOK
  <2>1. PICK e \in w.conns : e.dev = d /\ e.port = o.port /\ e.id = o.id
    BY <1>3, <1>6 DEF OpenOK
  <2>2. e # c BY <1>3, <1>6, <2>1
  <2> QED BY <2>1, <2>2
<1> QED BY <1>3, <1>4, <1>5, <1>6

\* connection_teardown of a connection that is there leaves all others with their
\* clients, and tells its client or closes it.
LEMMA TeardownKeeps ==
  ASSUME NEW w \in Worlds, Good(w), NEW c \in w.conns, NEW tell \in BOOLEAN
  PROVE  LET v == Teardown(w, c, tell)
         IN /\ v \in Worlds /\ Good(v) /\ Fewer(v, w) /\ SameDevices(v, w)
            /\ v.ok = w.ok /\ v.conns = w.conns \ {c}
            /\ ~tell => v.dev = w.dev
            /\ tell /\ OpenOK(w) => OpenOK(v)
<1> DEFINE v == Teardown(w, c, tell)
           k == w.cl[c.h]
<1>1. c \in Conn BY DEF Worlds
<1>2. /\ v \in Worlds /\ v.ok = w.ok /\ v.conns = w.conns \ {c}
      /\ ~tell => v.dev = w.dev
      /\ tell => v.dev = [w.dev EXCEPT ![c.dev] = Forgotten(w.dev[c.dev], c.port)]
      /\ c.state = "CONNECTED" => v.cl = [w.cl EXCEPT ![c.h] = NoClient]
      /\ c.state = "CONNECTING" /\ w.cl[c.h].state # "CONNECTING1" => v.cl = w.cl
      /\ c.state = "CONNECTING" /\ w.cl[c.h].state = "CONNECTING1" =>
           v.cl = [w.cl EXCEPT ![c.h] = Refused(w.cl[c.h])]
  BY <1>1, TeardownIs
<1> HIDE DEF v
<1>3. c.h \in Handles /\ c.dev \in Devices /\ c.state \in {"CONNECTING", "CONNECTED"}
  BY <1>1 DEF Conn
<1>4. w.cl \in [Handles -> ClientRec] /\ w.dev \in [Devices -> DeviceRec] BY DEF Worlds
<1>5. k.state \in StatesOf(c) BY DEF Good, Matched, Owned
<1>6. k \in ClientRec /\ ClientOK(k) BY <1>3, <1>4 DEF Good
<1>7. /\ \A h \in Handles \ {c.h} : v.cl[h] = w.cl[h]
      /\ ClientOK(v.cl[c.h]) /\ v.cl[c.h].state \in {"none", "COMMAND"}
      /\ v.cl[c.h].state # "none" =>
           k.state # "none" /\ v.cl[c.h].run = k.run /\ v.cl[c.h].seen = k.seen
  <2>1. CASE c.state = "CONNECTED"
    <3>1. v.cl = [w.cl EXCEPT ![c.h] = NoClient] BY <1>2, <2>1
    <3>2. v.cl[c.h] = NoClient /\ \A h \in Handles \ {c.h} : v.cl[h] = w.cl[h]
      BY <1>3, <1>4, <3>1
    <3> QED BY <3>2, NoClientIs DEF NoClient
  <2>2. CASE c.state = "CONNECTING"
    <3>1. k.state = "CONNECTING1" BY <1>5, <2>2 DEF StatesOf
    <3>2. v.cl = [w.cl EXCEPT ![c.h] = Refused(k)] BY <1>2, <2>2, <3>1
    <3>3. v.cl[c.h] = Refused(k) /\ \A h \in Handles \ {c.h} : v.cl[h] = w.cl[h]
      BY <1>3, <1>4, <3>2
    <3> QED BY <1>6, <3>1, <3>3, RefusedOK
  <2> QED BY <1>3, <2>1, <2>2
<1>8. Good(v) /\ Fewer(v, w) /\ SameDevices(v, w) /\ (tell /\ OpenOK(w) => OpenOK(v))
  <2>1. GoodBut(w, c.h) BY DEF Good, GoodBut
  <2> QED BY <1>2, <1>7, <2>1, Unlinked
<1> QED BY <1>2, <1>8 DEF v

\* v is w without the connections s.
Torn(v, w, s, tell) ==
  /\ v \in Worlds /\ Good(v) /\ Fewer(v, w) /\ SameDevices(v, w)
  /\ v.ok = w.ok /\ v.conns = w.conns \ s
  /\ ~tell => v.dev = w.dev
  /\ tell /\ OpenOK(w) => OpenOK(v)

\* To tear nothing down changes nothing.
LEMMA TornSelf ==
  ASSUME NEW w \in Worlds, Good(w), NEW tell \in BOOLEAN
  PROVE  Torn(w, w, {}, tell)
BY DEF Torn, Fewer, SameDevices

\* To tear down some connections and then others is to tear down all of them.
LEMMA TornAgain ==
  ASSUME NEW w, NEW u, NEW v, NEW s, NEW t, NEW tell \in BOOLEAN,
         Torn(u, w, s, tell), Torn(v, u, t, tell)
  PROVE  Torn(v, w, s \cup t, tell)
<1>1. Fewer(v, w) BY DEF Torn, Fewer
<1>2. SameDevices(v, w) BY DEF Torn, SameDevices
<1>3. v.conns = w.conns \ (s \cup t) BY DEF Torn
<1> QED BY <1>1, <1>2, <1>3 DEF Torn

\* A removal and device_kill_connections take every connection of the device.
LEMMA TornDownKeeps ==
  ASSUME NEW w \in Worlds, Good(w), IsFiniteSet(w.conns), NEW d \in Devices, NEW tell \in BOOLEAN
  PROVE  Torn(TornDown(w, d, tell), w, {c \in w.conns : c.dev = d}, tell)
<1> DEFINE A == {c \in w.conns : c.dev = d}
           J == {p \in (SUBSET A) \X Worlds : Torn(p[2], w, p[1], tell)}
           F == [x \in A |-> [u \in Worlds |-> Teardown(u, x, tell)]]
           R(h) == h = [s \in SUBSET A |->
                          IF s = {} THEN w ELSE Teardown(h[Rest(s)], Pick(s), tell)]
<1>1. IsFiniteSet(A) BY FS_Subset
<1>2. TornDown(w, d, tell) = (CHOOSE h : R(h))[A]
  BY Zenon DEF TornDown, FoldSet, MapThenFoldSet, Rest, Pick
<1>3. ASSUME NEW s \in SUBSET A, s # {}, NEW u, <<Rest(s), u>> \in J
      PROVE  <<s, Teardown(u, Pick(s), tell)>> \in J
  <2> DEFINE x == Pick(s)
             v == Teardown(u, x, tell)
  <2>1. u \in Worlds /\ Torn(u, w, Rest(s), tell) BY <1>3
  <2>2. x \in s /\ x \in A /\ x \notin Rest(s) /\ s = Rest(s) \cup {x} BY <1>3, RestIs DEF Rest
  <2>3. x \in u.conns BY <2>1, <2>2 DEF Torn
  <2>4. Torn(v, u, {x}, tell)
    <3> HIDE DEF x
    <3> QED BY <2>1, <2>3, TeardownKeeps DEF Torn
  <2> HIDE DEF x, v
  <2>5. Torn(v, w, s, tell) BY <2>1, <2>2, <2>4, TornAgain
  <2> QED BY <2>5 DEF Torn, v, x
<1>4. <<{}, w>> \in J BY TornSelf
<1>5. PICK g : Folds(g, A, F, w, J)
  <2>1. ASSUME NEW s \in SUBSET A, s # {}, NEW u, <<Rest(s), u>> \in J
        PROVE  <<s, F[Pick(s)][u]>> \in J
    <3>1. Pick(s) \in A /\ u \in Worlds BY <2>1, RestIs
    <3>2. F[Pick(s)][u] = Teardown(u, Pick(s), tell)
      <4> HIDE DEF A
      <4> QED BY <3>1
    <3> QED BY <1>3, <2>1, <3>2
  <2> HIDE DEF A, F, J
  <2>2. Keeps(A, F, J) BY <2>1 DEF Keeps
  <2> QED BY <1>1, <1>4, <2>2, FoldWorks
<1>6. R(g)
  <2>0. /\ g = [s \in SUBSET A |-> g[s]] /\ g[{}] = w
        /\ \A s \in SUBSET A : <<s, g[s]>> \in J
        /\ \A s \in SUBSET A : s # {} => g[s] = F[Pick(s)][g[Rest(s)]]
    <3> HIDE DEF A, F, J
    <3> QED BY <1>5 DEF Folds
  <2>1. ASSUME NEW s \in SUBSET A, s # {} PROVE g[s] = Teardown(g[Rest(s)], Pick(s), tell)
    <3>1. Pick(s) \in A /\ Rest(s) \in SUBSET A BY <2>1, RestIs
    <3>2. g[Rest(s)] \in Worlds BY <2>0, <3>1
    <3> HIDE DEF A, J
    <3> QED BY <2>0, <2>1, <3>1, <3>2
  <2> HIDE DEF A
  <2> QED BY <2>0, <2>1
<1> DEFINE k == CHOOSE h : R(h)
<1>7. R(k)
  <2> HIDE DEF R
  <2> QED BY <1>6
<1> HIDE DEF k
<1>8. k[{}] = w /\ \A s \in SUBSET A : s # {} => k[s] = Teardown(k[Rest(s)], Pick(s), tell)
  <2> HIDE DEF A
  <2> QED BY <1>7
<1>9. \A s \in SUBSET A : <<s, k[s]>> \in J
  <2>1. \A s \in SUBSET A : s # {} /\ <<Rest(s), k[Rest(s)]>> \in J => <<s, k[s]>> \in J
    <3> HIDE DEF A, J
    <3> QED BY <1>3, <1>8
  <2>2. <<{}, k[{}]>> \in J BY <1>4, <1>8
  <2> HIDE DEF A, J
  <2> QED BY <1>1, <2>1, <2>2, FoldKeeps
<1>10. Torn(k[A], w, A, tell) BY <1>9
<1> QED BY <1>2, <1>10 DEF k

\* device_kill_connections, for the devices s.
On(w, s) == {c \in w.conns : c.dev \in s}

\* device_kill_connections tears down the connections of every active device and tells each.
LEMMA KilledKeeps ==
  ASSUME NEW w \in Worlds, Good(w), IsFiniteSet(w.conns),
         IsFiniteSet({d \in Devices : dev[d].state = "active"})
  PROVE  Torn(Killed(w), w, On(w, {d \in Devices : dev[d].state = "active"}), TRUE)
<1> DEFINE A == {d \in Devices : dev[d].state = "active"}
           J == {p \in (SUBSET A) \X Worlds : Torn(p[2], w, On(w, p[1]), TRUE)}
           F == [x \in A |-> [u \in Worlds |-> TornDown(u, x, TRUE)]]
           R(h) == h = [s \in SUBSET A |->
                          IF s = {} THEN w ELSE TornDown(h[Rest(s)], Pick(s), TRUE)]
<1>1. IsFiniteSet(A) OBVIOUS
<1>2. Killed(w) = (CHOOSE h : R(h))[A]
  BY Zenon DEF Killed, FoldSet, MapThenFoldSet, Rest, Pick
<1>3. ASSUME NEW s \in SUBSET A, s # {}, NEW u, <<Rest(s), u>> \in J
      PROVE  <<s, TornDown(u, Pick(s), TRUE)>> \in J
  <2> DEFINE x == Pick(s)
             v == TornDown(u, x, TRUE)
  <2>1. u \in Worlds /\ Torn(u, w, On(w, Rest(s)), TRUE) BY <1>3
  <2>2. x \in s /\ x \in A /\ x \notin Rest(s) /\ s = Rest(s) \cup {x} BY <1>3, RestIs DEF Rest
  <2>3. x \in Devices /\ Good(u) /\ u.conns \subseteq w.conns BY <2>1, <2>2 DEF Torn
  <2>4. IsFiniteSet(u.conns) BY <2>3, FS_Subset
  <2>5. Torn(v, u, {c \in u.conns : c.dev = x}, TRUE)
    <3> HIDE DEF x
    <3> QED BY <2>1, <2>3, <2>4, TornDownKeeps
  <2>6. On(w, Rest(s)) \cup {c \in u.conns : c.dev = x} = On(w, s)
    <3> HIDE DEF x, A
    <3> QED BY <2>1, <2>2 DEF Torn, On
  <2> HIDE DEF x, v
  <2>7. Torn(v, w, On(w, Rest(s)) \cup {c \in u.conns : c.dev = x}, TRUE)
    <3> HIDE DEF A
    <3> QED BY <2>1, <2>5, TornAgain
  <2>8. Torn(v, w, On(w, s), TRUE) BY <2>6, <2>7
  <2> QED BY <2>8 DEF Torn, v, x
<1>4. <<{}, w>> \in J BY TornSelf DEF On
<1>5. PICK g : Folds(g, A, F, w, J)
  <2>1. ASSUME NEW s \in SUBSET A, s # {}, NEW u, <<Rest(s), u>> \in J
        PROVE  <<s, F[Pick(s)][u]>> \in J
    <3>1. Pick(s) \in A /\ u \in Worlds BY <2>1, RestIs
    <3>2. F[Pick(s)][u] = TornDown(u, Pick(s), TRUE)
      <4> HIDE DEF A
      <4> QED BY <3>1
    <3> QED BY <1>3, <2>1, <3>2
  <2> HIDE DEF A, F, J
  <2>2. Keeps(A, F, J) BY <2>1 DEF Keeps
  <2> QED BY <1>1, <1>4, <2>2, FoldWorks
<1>6. R(g)
  <2>1. /\ g = [s \in SUBSET A |-> g[s]] /\ g[{}] = w
        /\ \A s \in SUBSET A : <<s, g[s]>> \in J
        /\ \A s \in SUBSET A : s # {} => g[s] = F[Pick(s)][g[Rest(s)]]
    <3> HIDE DEF A, F, J
    <3> QED BY <1>5 DEF Folds
  <2>2. ASSUME NEW s \in SUBSET A, s # {} PROVE g[s] = TornDown(g[Rest(s)], Pick(s), TRUE)
    <3>1. Pick(s) \in A /\ Rest(s) \in SUBSET A BY <2>2, RestIs
    <3>2. g[Rest(s)] \in Worlds BY <2>1, <3>1
    <3> HIDE DEF A, J
    <3> QED BY <2>1, <2>2, <3>1, <3>2
  <2> HIDE DEF A
  <2> QED BY <2>1, <2>2
<1> DEFINE k == CHOOSE h : R(h)
<1>7. R(k)
  <2> HIDE DEF R
  <2> QED BY <1>6
<1> HIDE DEF k
<1>8. k[{}] = w /\ \A s \in SUBSET A : s # {} => k[s] = TornDown(k[Rest(s)], Pick(s), TRUE)
  <2> HIDE DEF A
  <2> QED BY <1>7
<1>9. \A s \in SUBSET A : <<s, k[s]>> \in J
  <2>1. \A s \in SUBSET A : s # {} /\ <<Rest(s), k[Rest(s)]>> \in J => <<s, k[s]>> \in J
    <3> HIDE DEF A, J
    <3> QED BY <1>3, <1>8
  <2>2. <<{}, k[{}]>> \in J BY <1>4, <1>8
  <2> HIDE DEF A, J
  <2> QED BY <1>1, <2>1, <2>2, FoldKeeps
<1>10. Torn(k[A], w, On(w, A), TRUE) BY <1>9
<1> QED BY <1>2, <1>10 DEF k

\* v is w without the devices s and their connections.
Without(v, w, s) ==
  /\ v \in Worlds /\ Good(v) /\ Fewer(v, w) /\ v.ok = w.ok
  /\ v.conns = w.conns \ On(w, s)
  /\ \A d \in Devices \ s : v.dev[d] = w.dev[d]
  /\ \A d \in Devices \cap s : v.dev[d].state = "gone" /\ v.dev[d].open = {}
  /\ OpenOK(w) => OpenOK(v)

\* Without removals everything is there.
LEMMA WithoutNone ==
  ASSUME NEW w \in Worlds, Good(w)
  PROVE  Without(w, w, {})
BY DEF Without, Fewer, On

\* To remove some devices and then others is to remove all of them.
LEMMA WithoutAgain ==
  ASSUME NEW w, NEW u, NEW v, NEW s, NEW t, Without(u, w, s), Without(v, u, t), s \cap t = {}
  PROVE  Without(v, w, s \cup t)
<1>1. Fewer(v, w) BY DEF Without, Fewer
<1>2. v.conns = w.conns \ On(w, s \cup t) BY DEF Without, On
<1>3. /\ \A d \in Devices \ (s \cup t) : v.dev[d] = w.dev[d]
      /\ \A d \in Devices \cap (s \cup t) : v.dev[d].state = "gone" /\ v.dev[d].open = {}
  BY DEF Without
<1> QED BY <1>1, <1>2, <1>3 DEF Without

\* device_remove.
LEMMA RemovedKeeps ==
  ASSUME NEW w \in Worlds, Good(w), IsFiniteSet(w.conns), NEW d \in Devices
  PROVE  Without(Removed(w, d), w, {d})
<1> DEFINE t == TornDown(w, d, FALSE)
           e == [t.dev[d] EXCEPT !.state = "gone", !.open = {}, !.socket = FALSE]
           v == Removed(w, d)
<1>1. Torn(t, w, {c \in w.conns : c.dev = d}, FALSE) BY TornDownKeeps
<1>2. v = [t EXCEPT !.dev[d] = [@ EXCEPT !.state = "gone", !.open = {}, !.socket = FALSE]]
  BY DEF Removed
<1> HIDE DEF t, v
<1>3. t \in Worlds /\ t.dev[d] \in DeviceRec BY <1>1 DEF Torn, Worlds
<1>4. v = [t EXCEPT !.dev = [t.dev EXCEPT ![d] = e]] BY <1>2
<1>5. e \in DeviceRec /\ e.state = "gone" /\ e.open = {} BY <1>3 DEF DeviceRec
<1> HIDE DEF e
<1>6. /\ v \in Worlds /\ v.cl = t.cl /\ v.conns = t.conns /\ v.ok = t.ok
      /\ v.dev = [t.dev EXCEPT ![d] = e]
  BY <1>3, <1>4, <1>5 DEF Worlds
<1>7. v.dev[d] = e /\ \A x \in Devices \ {d} : v.dev[x] = w.dev[x]
  BY <1>1, <1>3, <1>6 DEF Torn, Worlds
<1>8. v.conns = w.conns \ On(w, {d}) BY <1>1, <1>6 DEF Torn, On
<1>9. Fewer(v, w) BY <1>1, <1>6 DEF Torn, Fewer
<1>10. Good(v)
  <2>1. Good(t) BY <1>1 DEF Torn
  <2>2. Owned(v)
    <3> SUFFICES ASSUME NEW c \in v.conns
                 PROVE  /\ v.dev[c.dev].state = "active"
                        /\ v.cl[c.h].device = c.dev /\ v.cl[c.h].state \in StatesOf(c)
      BY DEF Owned
    <3>1. c \in t.conns /\ c.dev # d /\ c.dev \in Devices BY <1>6, <1>8 DEF On, Worlds, Conn
    <3>2. v.dev[c.dev] = t.dev[c.dev] BY <1>3, <1>6, <3>1 DEF Worlds
    <3> QED BY <1>6, <2>1, <3>1, <3>2 DEF Good, Matched, Owned
  <2>3. Apart(v) /\ Linking(v) BY <1>6, <2>1 DEF Good, Matched, Apart, Linking
  <2> QED BY <1>6, <2>1, <2>2, <2>3 DEF Good, Matched
<1>11. ASSUME OpenOK(w) PROVE OpenOK(v)
  <2> SUFFICES ASSUME NEW x \in Devices, NEW o \in v.dev[x].open
               PROVE  \E c \in v.conns : c.dev = x /\ c.port = o.port /\ c.id = o.id
    BY DEF OpenOK
  <2>1. x # d BY <1>5, <1>7
  <2>2. PICK c \in w.conns : c.dev = x /\ c.port = o.port /\ c.id = o.id
    BY <1>7, <1>11, <2>1 DEF OpenOK
  <2> QED BY <1>8, <2>1, <2>2 DEF On
<1>12. v.ok = w.ok BY <1>1, <1>6 DEF Torn
<1> QED BY <1>5, <1>6, <1>7, <1>8, <1>9, <1>10, <1>11, <1>12 DEF Without, v

\* usb_shutdown removes all that are there.
LEMMA AllRemovedKeeps ==
  ASSUME NEW w \in Worlds, Good(w), IsFiniteSet(w.conns), IsFiniteSet(There)
  PROVE  Without(FoldSet(LAMBDA d, v : Removed(v, d), w, There), w, There)
<1> DEFINE A == There
           J == {p \in (SUBSET A) \X Worlds : Without(p[2], w, p[1])}
           F == [x \in A |-> [u \in Worlds |-> Removed(u, x)]]
           R(h) == h = [s \in SUBSET A |->
                          IF s = {} THEN w ELSE Removed(h[Rest(s)], Pick(s))]
<1>1. IsFiniteSet(A) OBVIOUS
<1>2. FoldSet(LAMBDA d, v : Removed(v, d), w, There) = (CHOOSE h : R(h))[A]
  BY Zenon DEF FoldSet, MapThenFoldSet, Rest, Pick
<1>3. ASSUME NEW s \in SUBSET A, s # {}, NEW u, <<Rest(s), u>> \in J
      PROVE  <<s, Removed(u, Pick(s))>> \in J
  <2> DEFINE x == Pick(s)
             v == Removed(u, x)
  <2>1. u \in Worlds /\ Without(u, w, Rest(s)) BY <1>3
  <2>2. x \in s /\ x \in A /\ Rest(s) \cap {x} = {} /\ s = Rest(s) \cup {x} BY <1>3, RestIs DEF Rest
  <2>3. x \in Devices /\ Good(u) /\ u.conns \subseteq w.conns BY <2>1, <2>2 DEF Without, There
  <2>4. IsFiniteSet(u.conns) BY <2>3, FS_Subset
  <2> HIDE DEF A
  <2>5. Without(v, u, {x})
    <3> HIDE DEF x
    <3> QED BY <2>1, <2>3, <2>4, RemovedKeeps
  <2> HIDE DEF x, v
  <2>6. Without(v, w, s) BY <2>1, <2>2, <2>5, WithoutAgain
  <2> QED BY <2>6 DEF Without, v, x
<1>4. <<{}, w>> \in J BY WithoutNone
<1>5. PICK g : Folds(g, A, F, w, J)
  <2>1. ASSUME NEW s \in SUBSET A, s # {}, NEW u, <<Rest(s), u>> \in J
        PROVE  <<s, F[Pick(s)][u]>> \in J
    <3>1. Pick(s) \in A /\ u \in Worlds BY <2>1, RestIs
    <3>2. F[Pick(s)][u] = Removed(u, Pick(s))
      <4> HIDE DEF A
      <4> QED BY <3>1
    <3> QED BY <1>3, <2>1, <3>2
  <2> HIDE DEF A, F, J
  <2>2. Keeps(A, F, J) BY <2>1 DEF Keeps
  <2> QED BY <1>1, <1>4, <2>2, FoldWorks
<1>6. R(g)
  <2>1. /\ g = [s \in SUBSET A |-> g[s]] /\ g[{}] = w
        /\ \A s \in SUBSET A : <<s, g[s]>> \in J
        /\ \A s \in SUBSET A : s # {} => g[s] = F[Pick(s)][g[Rest(s)]]
    <3> HIDE DEF A, F, J
    <3> QED BY <1>5 DEF Folds
  <2>2. ASSUME NEW s \in SUBSET A, s # {} PROVE g[s] = Removed(g[Rest(s)], Pick(s))
    <3>1. Pick(s) \in A /\ Rest(s) \in SUBSET A BY <2>2, RestIs
    <3>2. g[Rest(s)] \in Worlds BY <2>1, <3>1
    <3> HIDE DEF A, J
    <3> QED BY <2>1, <2>2, <3>1, <3>2
  <2> HIDE DEF A
  <2> QED BY <2>1, <2>2
<1> DEFINE k == CHOOSE h : R(h)
<1>7. R(k)
  <2> HIDE DEF R
  <2> QED BY <1>6
<1> HIDE DEF k
<1>8. k[{}] = w /\ \A s \in SUBSET A : s # {} => k[s] = Removed(k[Rest(s)], Pick(s))
  <2> HIDE DEF A
  <2> QED BY <1>7
<1>9. \A s \in SUBSET A : <<s, k[s]>> \in J
  <2>1. \A s \in SUBSET A : s # {} /\ <<Rest(s), k[Rest(s)]>> \in J => <<s, k[s]>> \in J
    <3> HIDE DEF A, J
    <3> QED BY <1>3, <1>8
  <2>2. <<{}, k[{}]>> \in J BY <1>4, <1>8
  <2> HIDE DEF A, J
  <2> QED BY <1>1, <2>1, <2>2, FoldKeeps
<1>10. Without(k[A], w, A) BY <1>9
<1> QED BY <1>2, <1>10 DEF k

\* client_shutdown, when no connection is left.
Closed(v, w, s) ==
  /\ v \in Worlds /\ Good(v) /\ v.ok = w.ok /\ v.conns = {} /\ v.dev = w.dev
  /\ \A h \in Handles \ s : v.cl[h] = w.cl[h]
  /\ \A h \in Handles \cap s : v.cl[h] = NoClient

\* client_close of a client when there are no connections any more frees just this client.
LEMMA CloseAlone ==
  ASSUME NEW w \in Worlds, Good(w), w.conns = {}, NEW h \in Handles
  PROVE  Closed(ClientClose(w, h), w, {h})
<1>1. \A k \in Handles : w.cl[k].state \notin Linked BY DEF Good, Matched, Linking
<1>2. ClientClose(w, h) = Freed(w, h) BY <1>1 DEF ClientClose, Mid, Linked
<1> DEFINE v == Freed(w, h)
<1>3. /\ v \in Worlds /\ v.dev = w.dev /\ v.conns = w.conns /\ v.ok = w.ok
      /\ v.cl = [w.cl EXCEPT ![h] = NoClient]
  BY FreedIs
<1> HIDE DEF v
<1>4. v.cl[h] = NoClient /\ \A k \in Handles \ {h} : v.cl[k] = w.cl[k]
  BY <1>3 DEF Worlds
<1>5. \A k \in Handles : v.cl[k].state \notin Linked BY <1>1, <1>4 DEF NoClient, Linked
<1>6. Good(v)
  BY <1>3, <1>4, <1>5, NoClientIs DEF Good, Matched, Owned, Apart, Linking
<1> QED BY <1>2, <1>3, <1>4, <1>6 DEF Closed, v

\* client_shutdown frees every client, once the connections are gone.
LEMMA AllClosedKeeps ==
  ASSUME NEW w \in Worlds, Good(w), w.conns = {}
  PROVE  Closed(FoldSet(LAMBDA h, v : ClientClose(v, h), w, Present), w, Present)
<1> DEFINE A == Present
           J == {p \in (SUBSET A) \X Worlds : Closed(p[2], w, p[1])}
           F == [x \in A |-> [u \in Worlds |-> ClientClose(u, x)]]
           R(h) == h = [s \in SUBSET A |->
                          IF s = {} THEN w ELSE ClientClose(h[Rest(s)], Pick(s))]
<1>1. IsFiniteSet(A) BY ClientsAssumption, FS_Subset DEF Present
<1>2. FoldSet(LAMBDA h, v : ClientClose(v, h), w, Present) = (CHOOSE h : R(h))[A]
  BY Zenon DEF FoldSet, MapThenFoldSet, Rest, Pick
<1>3. ASSUME NEW s \in SUBSET A, s # {}, NEW u, <<Rest(s), u>> \in J
      PROVE  <<s, ClientClose(u, Pick(s))>> \in J
  <2> DEFINE x == Pick(s)
             v == ClientClose(u, x)
  <2>1. u \in Worlds /\ Closed(u, w, Rest(s)) BY <1>3
  <2>2. x \in s /\ x \in A /\ Rest(s) \cap {x} = {} /\ s = Rest(s) \cup {x} BY <1>3, RestIs DEF Rest
  <2>3. x \in Handles /\ Good(u) /\ u.conns = {} BY <2>1, <2>2 DEF Closed, Present
  <2> HIDE DEF A
  <2>4. Closed(v, u, {x})
    <3> HIDE DEF x
    <3> QED BY <2>1, <2>3, CloseAlone
  <2> HIDE DEF x, v
  <2>5. Closed(v, w, s) BY <2>1, <2>2, <2>4 DEF Closed
  <2> QED BY <2>5 DEF Closed, v, x
<1>4. <<{}, w>> \in J BY DEF Closed
<1>5. PICK g : Folds(g, A, F, w, J)
  <2>1. ASSUME NEW s \in SUBSET A, s # {}, NEW u, <<Rest(s), u>> \in J
        PROVE  <<s, F[Pick(s)][u]>> \in J
    <3>1. Pick(s) \in A /\ u \in Worlds BY <2>1, RestIs
    <3>2. F[Pick(s)][u] = ClientClose(u, Pick(s))
      <4> HIDE DEF A
      <4> QED BY <3>1
    <3> QED BY <1>3, <2>1, <3>2
  <2> HIDE DEF A, F, J
  <2>2. Keeps(A, F, J) BY <2>1 DEF Keeps
  <2> QED BY <1>1, <1>4, <2>2, FoldWorks
<1>6. R(g)
  <2>1. /\ g = [s \in SUBSET A |-> g[s]] /\ g[{}] = w
        /\ \A s \in SUBSET A : <<s, g[s]>> \in J
        /\ \A s \in SUBSET A : s # {} => g[s] = F[Pick(s)][g[Rest(s)]]
    <3> HIDE DEF A, F, J
    <3> QED BY <1>5 DEF Folds
  <2>2. ASSUME NEW s \in SUBSET A, s # {} PROVE g[s] = ClientClose(g[Rest(s)], Pick(s))
    <3>1. Pick(s) \in A /\ Rest(s) \in SUBSET A BY <2>2, RestIs
    <3>2. g[Rest(s)] \in Worlds BY <2>1, <3>1
    <3> HIDE DEF A, J
    <3> QED BY <2>1, <2>2, <3>1, <3>2
  <2> HIDE DEF A
  <2> QED BY <2>1, <2>2
<1> DEFINE k == CHOOSE h : R(h)
<1>7. R(k)
  <2> HIDE DEF R
  <2> QED BY <1>6
<1> HIDE DEF k
<1>8. k[{}] = w /\ \A s \in SUBSET A : s # {} => k[s] = ClientClose(k[Rest(s)], Pick(s))
  <2> HIDE DEF A
  <2> QED BY <1>7
<1>9. \A s \in SUBSET A : <<s, k[s]>> \in J
  <2>1. \A s \in SUBSET A : s # {} /\ <<Rest(s), k[Rest(s)]>> \in J => <<s, k[s]>> \in J
    <3> HIDE DEF A, J
    <3> QED BY <1>3, <1>8
  <2>2. <<{}, k[{}]>> \in J BY <1>4, <1>8
  <2> HIDE DEF A, J
  <2> QED BY <1>1, <2>1, <2>2, FoldKeeps
<1>10. Closed(k[A], w, A) BY <1>9
<1> QED BY <1>2, <1>10 DEF k

-----------------------------------------------------------------------------
(***************************************************************************)
(* What a handler may do to the connections and their clients.             *)
(***************************************************************************)

\* A connection has heard nothing that was sent in another.
HeardOK(w) == \A c \in w.conns : c.heard \subseteq {c.id}
Held(w) == w \in Worlds /\ OpenOK(w) /\ HeardOK(w) /\ IsFiniteSet(w.conns)
Sound(w) == Held(w) /\ Good(w)

\* Clients and devices are fewer or have less, and connections are those there were.
Known(v, w) ==
  \A c \in v.conns : \E k \in w.conns : k.dev = c.dev /\ k.port = c.port /\ k.id = c.id
Alive(d) == d.state \in {"init", "active"}
Less(v, w) ==
  /\ Fewer(v, w) /\ Known(v, w)
  /\ \A d \in Devices :
       /\ v.dev[d].open \subseteq w.dev[d].open
       /\ Alive(v.dev[d]) => Alive(w.dev[d])

\* Fewer clients, fewer connections and the same devices are less.
LEMMA SubsetLess ==
  ASSUME NEW v, NEW w, Fewer(v, w), SameDevices(v, w), v.conns \subseteq w.conns
  PROVE  Less(v, w)
BY DEF Less, Known, SameDevices, Alive

\* To tear connections down keeps what is sound and adds nothing.
LEMMA TornLess ==
  ASSUME NEW v, NEW w, Sound(w), NEW s, NEW tell \in BOOLEAN, Torn(v, w, s, tell),
         tell \/ OpenOK(v)
  PROVE  Sound(v) /\ Less(v, w)
<1>1. v.conns \subseteq w.conns BY DEF Torn
<1>2. IsFiniteSet(v.conns) BY <1>1, FS_Subset DEF Sound, Held
<1> QED BY <1>1, <1>2, SubsetLess DEF Torn, Sound, Held, HeardOK

\* client_close, on the client's own side, of a client whose data is not tunnelled yet.
LEMMA CloseKeeps ==
  ASSUME NEW w, NEW h \in Handles, Held(w), GoodBut(w, h), w.cl[h].state # "CONNECTED"
  PROVE  LET v == ClientClose(w, h)
         IN /\ Sound(v) /\ Less(v, w) /\ SameDevices(v, w)
            /\ v.conns \subseteq w.conns /\ v.cl[h].state = "none"
<1> DEFINE v == ClientClose(w, h)
<1>1. w \in Worlds /\ GoodBut(w, h) /\ w.cl \in [Handles -> ClientRec] /\ w.cl[h] \in ClientRec
  BY DEF Held, Worlds
<1>2. SUFFICES /\ v \in Worlds /\ v.conns \subseteq w.conns
               /\ Good(v) /\ OpenOK(v) /\ Fewer(v, w) /\ SameDevices(v, w)
               /\ v.cl[h].state = "none"
  <2> HIDE DEF v
  <2>1. IsFiniteSet(v.conns) BY <1>2, FS_Subset DEF Held
  <2>2. Sound(v) BY <1>2, <2>1 DEF Sound, Held, HeardOK
  <2> QED BY <1>2, <2>2, SubsetLess DEF v
<1>3. CASE ~Mid(w.cl[h])
  <2>1. v = Freed(w, h) BY <1>3 DEF ClientClose
  <2>2. /\ v \in Worlds /\ v.dev = w.dev /\ v.conns = w.conns /\ v.cl = [w.cl EXCEPT ![h] = NoClient]
    BY <1>1, <2>1, FreedIs
  <2> HIDE DEF v
  <2>3. w.cl[h].state \notin Linked BY <1>3 DEF Linked, Mid
  <2>4. v.cl[h] = NoClient /\ \A k \in Handles \ {h} : v.cl[k] = w.cl[k] BY <1>1, <2>2
  <2>5. Fewer(v, w) BY <2>4 DEF Fewer, NoClient
  <2>6. SameDevices(v, w) /\ OpenOK(v) BY <2>2 DEF SameDevices, OpenOK, Held
  <2>7. \A k \in Handles : ClientOK(v.cl[k]) BY <1>1, <2>4, NoClientIs DEF GoodBut
  <2>8. Owned(v)
    <3> SUFFICES ASSUME NEW c \in v.conns
                 PROVE  /\ v.dev[c.dev].state = "active"
                        /\ v.cl[c.h].device = c.dev /\ v.cl[c.h].state \in StatesOf(c)
      BY DEF Owned
    <3>1. c \in w.conns /\ c \in Conn /\ c.h \in Handles BY <2>2 DEF Worlds, Conn
    <3>2. w.cl[c.h].state \in StatesOf(c) BY <1>1, <3>1 DEF GoodBut, Matched, Owned
    <3>3. c.h # h BY <2>3, <3>2 DEF StatesOf, Linked
    <3> QED BY <1>1, <2>2, <2>4, <3>1, <3>3 DEF GoodBut, Matched, Owned
  <2>9. Apart(v) BY <1>1, <2>2 DEF GoodBut, Matched, Apart
  <2>10. Linking(v) BY <1>1, <2>2, <2>4 DEF GoodBut, Matched, Linking, NoClient, Linked
  <2> QED BY <2>2, <2>4, <2>5, <2>6, <2>7, <2>8, <2>9, <2>10 DEF Good, Matched, NoClient
<1>4. CASE Mid(w.cl[h])
  <2>1. w.cl[h].state \in Linked BY <1>4 DEF Mid, Linked
  <2>2. ConnOf(w, h) # {}
    <3>1. PICK e \in w.conns : e.h = h BY <1>1, <2>1 DEF GoodBut, Matched, Linking
    <3>2. w.cl[e.h].device = e.dev BY <1>1, <3>1 DEF GoodBut, Matched, Owned
    <3> QED BY <3>1, <3>2 DEF ConnOf
  <2> DEFINE c == CHOOSE k \in ConnOf(w, h) : TRUE
             dead == [w EXCEPT !.cl[h].state = "DEAD"]
             t == Teardown(dead, c, TRUE)
             f == Freed(t, h)
  <2>3. v = [f EXCEPT !.ok = c.state = "CONNECTING"] BY <1>4, <2>2 DEF ClientClose
  <2>4. c \in w.conns /\ c.h = h /\ c \in Conn
    <3>1. c \in ConnOf(w, h) BY <2>2
    <3> HIDE DEF c
    <3> QED BY <1>1, <3>1 DEF ConnOf, Worlds
  <2>5. /\ dead \in Worlds /\ dead.dev = w.dev /\ dead.conns = w.conns
        /\ dead.cl[h].state = "DEAD" /\ \A k \in Handles \ {h} : dead.cl[k] = w.cl[k]
    <3> DEFINE r == [w.cl[h] EXCEPT !.state = "DEAD"]
    <3>1. r \in ClientRec /\ r.state = "DEAD" BY <1>1 DEF ClientRec
    <3>2. dead = [w EXCEPT !.cl = [w.cl EXCEPT ![h] = r]] OBVIOUS
    <3> HIDE DEF dead, r
    <3>3. dead \in Worlds /\ dead.dev = w.dev /\ dead.conns = w.conns /\ dead.cl = [w.cl EXCEPT ![h] = r]
      BY <1>1, <3>1, <3>2 DEF Worlds
    <3> QED BY <1>1, <3>1, <3>3
  <2> HIDE DEF c, dead, t, f, v
  <2>6. /\ t \in Worlds /\ t.conns = w.conns \ {c}
        /\ t.dev = [w.dev EXCEPT ![c.dev] = Forgotten(w.dev[c.dev], c.port)]
        /\ \A k \in Handles \ {h} : t.cl[k] = w.cl[k]
    <3>1. /\ t \in Worlds /\ t.conns = dead.conns \ {c}
          /\ t.dev = [dead.dev EXCEPT ![c.dev] = Forgotten(dead.dev[c.dev], c.port)]
          /\ c.state = "CONNECTED" => t.cl = [dead.cl EXCEPT ![c.h] = NoClient]
          /\ c.state = "CONNECTING" /\ dead.cl[c.h].state # "CONNECTING1" => t.cl = dead.cl
      BY <2>4, <2>5, TeardownIs DEF t
    <3>2. c.state \in {"CONNECTING", "CONNECTED"} BY <2>4 DEF Conn
    <3>3. dead.cl \in [Handles -> ClientRec] BY <2>5 DEF Worlds
    <3> QED BY <2>4, <2>5, <3>1, <3>2, <3>3
  <2>7. f \in Worlds /\ f.dev = t.dev /\ f.conns = t.conns /\ f.cl = [t.cl EXCEPT ![h] = NoClient]
    BY <2>6, FreedIs DEF f
  <2>8. v \in Worlds /\ v.dev = f.dev /\ v.conns = f.conns /\ v.cl = f.cl
    <3>1. (c.state = "CONNECTING") \in BOOLEAN OBVIOUS
    <3> QED BY <2>3, <2>7, <3>1 DEF Worlds
  <2>9. v.cl[h] = NoClient /\ \A k \in Handles \ {h} : v.cl[k] = w.cl[k]
    BY <2>6, <2>7, <2>8 DEF Worlds
  <2>10. Good(v) /\ Fewer(v, w) /\ SameDevices(v, w) /\ OpenOK(v)
    <3>1. /\ ClientOK(v.cl[c.h]) /\ v.cl[c.h].state = "none"
          /\ \A k \in Handles \ {c.h} : v.cl[k] = w.cl[k]
      BY <2>4, <2>9, NoClientIs DEF NoClient
    <3>2. OpenOK(w) BY DEF Held
    <3>3. /\ v.conns = w.conns \ {c}
          /\ v.dev = [w.dev EXCEPT ![c.dev] = Forgotten(w.dev[c.dev], c.port)]
      BY <2>6, <2>7, <2>8
    <3>4. TRUE \in BOOLEAN /\ GoodBut(w, c.h) BY <1>1, <2>4
    <3> QED BY <1>1, <2>4, <2>8, <3>1, <3>2, <3>3, <3>4, Unlinked
  <2> QED BY <2>6, <2>7, <2>8, <2>9, <2>10 DEF NoClient
<1> QED BY <1>3, <1>4

Packet == [kind : {"synack", "ack", "rst"}, port : Nat, id : Nat]

\* A connection changes in itself, and its client with it.
LEMMA Moved ==
  ASSUME NEW w, Sound(w), NEW c \in w.conns, NEW e \in Conn, NEW v \in Worlds,
         e.dev = c.dev, e.port = c.port, e.id = c.id, e.h = c.h, e.heard \subseteq {e.id},
         v.conns = (w.conns \ {c}) \cup {e}, v.dev = w.dev,
         \A k \in Handles \ {c.h} : v.cl[k] = w.cl[k],
         ClientOK(v.cl[c.h]), v.cl[c.h].device = c.dev, v.cl[c.h].state \in StatesOf(e),
         v.cl[c.h].run = w.cl[c.h].run, v.cl[c.h].seen = w.cl[c.h].seen
  PROVE  Sound(v) /\ Less(v, w)
<1>1. w \in Worlds /\ Good(w) /\ c \in Conn /\ c.h \in Handles /\ c.dev \in Devices
  BY DEF Sound, Held, Worlds, Conn
<1>2. Apart(w) /\ Owned(w) /\ Linking(w) BY <1>1 DEF Good, Matched
<1>3. Known(v, w) BY DEF Known
<1>4. w.cl[c.h].state # "none" BY <1>2 DEF Owned, StatesOf
<1>5. Fewer(v, w) BY <1>4 DEF Fewer
<1>6. Less(v, w) BY <1>3, <1>5 DEF Less
<1>7. IsFiniteSet(v.conns)
  <2>1. IsFiniteSet(w.conns \ {c}) BY FS_Subset DEF Sound, Held
  <2>2. IsFiniteSet((w.conns \ {c}) \cup {e}) BY ONLY <2>1, FS_AddElement
  <2>3. v.conns = (w.conns \ {c}) \cup {e} OBVIOUS
  <2> QED BY ONLY <2>2, <2>3
<1>8. HeardOK(v) BY DEF HeardOK, Sound, Held
<1>9. OpenOK(v)
  <2> SUFFICES ASSUME NEW d \in Devices, NEW o \in v.dev[d].open
               PROVE  \E k \in v.conns : k.dev = d /\ k.port = o.port /\ k.id = o.id
    BY DEF OpenOK
  <2>1. PICK k \in w.conns : k.dev = d /\ k.port = o.port /\ k.id = o.id
    BY DEF OpenOK, Sound, Held
  <2>2. CASE k = c BY <2>1, <2>2
  <2>3. CASE k # c BY <2>1, <2>3
  <2> QED BY <2>2, <2>3
<1>10. Apart(v)
  <2> SUFFICES ASSUME NEW x \in v.conns, NEW y \in v.conns
               PROVE  /\ x.dev = y.dev /\ x.port = y.port => x = y
                      /\ x.h = y.h => x = y
    BY DEF Apart
  <2>1. CASE x = e /\ y = e BY <2>1
  <2>2. CASE x = e /\ y # e
    <3>1. y \in w.conns /\ y # c BY <2>2
    <3> QED BY <1>2, <2>2, <3>1 DEF Apart
  <2>3. CASE x # e /\ y = e
    <3>1. x \in w.conns /\ x # c BY <2>3
    <3> QED BY <1>2, <2>3, <3>1 DEF Apart
  <2>4. CASE x # e /\ y # e BY <1>2, <2>4 DEF Apart
  <2> QED BY <2>1, <2>2, <2>3, <2>4
<1>11. Owned(v)
  <2> SUFFICES ASSUME NEW x \in v.conns
               PROVE  /\ v.dev[x.dev].state = "active"
                      /\ v.cl[x.h].device = x.dev /\ v.cl[x.h].state \in StatesOf(x)
    BY DEF Owned
  <2>1. CASE x = e BY <1>2, <2>1 DEF Owned
  <2>2. CASE x # e
    <3>1. x \in w.conns /\ x # c BY <2>2
    <3>2. x.h # c.h BY <1>2, <3>1 DEF Apart
    <3>3. x.h \in Handles BY <1>1, <3>1 DEF Worlds, Conn
    <3> QED BY <1>2, <3>1, <3>2, <3>3 DEF Owned
  <2> QED BY <2>1, <2>2
<1>12. Linking(v)
  <2> SUFFICES ASSUME NEW h \in Handles, v.cl[h].state \in Linked PROVE \E x \in v.conns : x.h = h
    BY DEF Linking
  <2>1. CASE h = c.h BY <2>1
  <2>2. CASE h # c.h
    <3>1. PICK x \in w.conns : x.h = h BY <1>2, <2>2 DEF Linking
    <3> QED BY <2>2, <3>1
  <2> QED BY <2>1, <2>2
<1>13. \A h \in Handles : ClientOK(v.cl[h]) BY <1>1 DEF Good
<1> QED BY <1>6, <1>7, <1>8, <1>9, <1>10, <1>11, <1>12, <1>13 DEF Sound, Held, Good, Matched

\* A client whose connection the device has accepted has the reply in its turn.
Joined(c) == [Replied(c, c.tag) EXCEPT !.state = "CONNECTING2"]

\* A client whose connection is made has its reply in its turn and moves on (client_notify_connect).
LEMMA JoinedOK ==
  ASSUME NEW c \in ClientRec, ClientOK(c), c.state = "CONNECTING1"
  PROVE  LET j == Joined(c)
         IN /\ j \in ClientRec /\ ClientOK(j) /\ j.state = "CONNECTING2" /\ j.device = c.device
            /\ j.run = c.run /\ j.seen = c.seen
<1> DEFINE n == c.run - 1
           a == Append(c.replies, c.tag)
           j == Joined(c)
<1>1. n \in Nat /\ c.tag = n + 1 /\ c.run = n + 1 /\ c.got \o c.replies = [i \in 1..n |-> i]
  <2>1. c.run \in Nat BY DEF ClientRec
  <2>2. c.tag = c.run /\ c.run > 0 /\ Answered(c) BY DEF ClientOK
  <2>3. Due(c) = n BY DEF Due
  <2> QED BY <2>1, <2>2, <2>3 DEF Answered
<1>2. a \in Seq(Nat) /\ c.got \o a = [i \in 1..n + 1 |-> i]
  <2> HIDE DEF n
  <2> QED BY <1>1, NextReply
<1>3. Replied(c, c.tag) \in ClientRec
  <2> HIDE DEF a
  <2>1. Replied(c, c.tag) = [c EXCEPT !.replies = a] BY DEF Replied, a
  <2> QED BY <1>2, <2>1 DEF ClientRec
<1>4. /\ j.got = c.got /\ j.replies = a /\ j.run = c.run /\ j.seen = c.seen /\ j.device = c.device
      /\ j.state = "CONNECTING2" /\ j.tag = c.tag /\ j.unread = c.unread /\ j.sent = c.sent
  <2> HIDE DEF a
  <2> USE DEF ClientRec
  <2> QED BY DEF Joined, Replied, a
<1>5. j \in ClientRec
  <2> DEFINE r == Replied(c, c.tag)
  <2>1. r \in ClientRec BY <1>3
  <2>2. j = [r EXCEPT !.state = "CONNECTING2"] BY DEF Joined
  <2> HIDE DEF r, j
  <2> QED BY <2>1, <2>2 DEF ClientRec, Linked
<1>6. c.run + c.unread <= c.sent /\ c.run \in Nat BY DEF ClientOK, ClientRec
<1> HIDE DEF a, j, n
<1>7. Answered(j) BY <1>1, <1>2, <1>4 DEF Answered, Due
<1>8. ClientOK(j) BY <1>1, <1>4, <1>6, <1>7 DEF ClientOK
<1> QED BY <1>4, <1>5, <1>8 DEF j

\* A TH_SYN|TH_ACK in device_tcp_input connects both sides of a connection.
LEMMA ConnectedKeeps ==
  ASSUME NEW w, Sound(w), NEW c \in w.conns, c.state = "CONNECTING"
  PROVE  Sound(Connected(w, c)) /\ Less(Connected(w, c), w)
<1> DEFINE k == w.cl[c.h]
           u == Reply(w, c.h, k.tag)
           e == [c EXCEPT !.state = "CONNECTED"]
           v == Connected(w, c)
<1>1. w \in Worlds /\ c \in Conn /\ c.h \in Handles /\ k \in ClientRec /\ k.tag \in Nat
  BY DEF Sound, Held, Worlds, Conn, ClientRec
<1>2. k.state = "CONNECTING1" /\ k.device = c.dev /\ ClientOK(k)
  BY <1>1 DEF Sound, Held, Good, Matched, Owned, StatesOf
<1>3. /\ u \in Worlds /\ u.dev = w.dev /\ u.conns = w.conns /\ u.ok = w.ok
      /\ u.cl = [w.cl EXCEPT ![c.h] = Replied(k, k.tag)]
  BY <1>1, ReplyIs
<1>4. v = [u EXCEPT !.cl[c.h].state = "CONNECTING2", !.conns = (@ \ {c}) \cup {e}]
  BY DEF Connected
<1>5. e \in Conn /\ e.dev = c.dev /\ e.port = c.port /\ e.id = c.id /\ e.h = c.h
      /\ e.heard = c.heard /\ e.state = "CONNECTED"
  BY <1>1 DEF Conn
<1> HIDE DEF u, e, v
<1>6. u.cl[c.h] = Replied(k, k.tag) BY <1>1, <1>3 DEF Worlds
<1>7. [u.cl[c.h] EXCEPT !.state = "CONNECTING2"] = Joined(k) BY <1>6 DEF Joined
<1>8. Joined(k) \in ClientRec /\ ClientOK(Joined(k)) /\ Joined(k).state = "CONNECTING2"
      /\ Joined(k).device = k.device /\ Joined(k).run = k.run /\ Joined(k).seen = k.seen
  BY <1>1, <1>2, JoinedOK
<1> HIDE DEF k
<1>9. v = [[u EXCEPT !.cl = [u.cl EXCEPT ![c.h] = Joined(k)]] EXCEPT !.conns = (w.conns \ {c}) \cup {e}]
  <2> DEFINE x == [u EXCEPT !.cl = [u.cl EXCEPT ![c.h] = Joined(k)]]
  <2>1. v = [x EXCEPT !.conns = (x.conns \ {c}) \cup {e}] BY <1>4, <1>7
  <2>2. x.conns = w.conns BY <1>3 DEF Worlds
  <2> QED BY <2>1, <2>2
<1>10. [u.cl EXCEPT ![c.h] = Joined(k)] \in [Handles -> ClientRec]
       /\ (w.conns \ {c}) \cup {e} \subseteq Conn
  BY <1>1, <1>3, <1>5, <1>8 DEF Worlds
<1>11. /\ v \in Worlds /\ v.dev = w.dev /\ v.conns = (w.conns \ {c}) \cup {e}
       /\ v.cl = [u.cl EXCEPT ![c.h] = Joined(k)]
  BY <1>3, <1>9, <1>10 DEF Worlds
<1>12. v.cl[c.h] = Joined(k) /\ \A h \in Handles \ {c.h} : v.cl[h] = w.cl[h]
  BY <1>1, <1>3, <1>11 DEF Worlds
<1>13. e.heard \subseteq {e.id} BY <1>5 DEF Sound, Held, HeardOK
<1>14. Joined(k).state \in StatesOf(e) BY <1>5, <1>8 DEF StatesOf
<1>15. /\ ClientOK(v.cl[c.h]) /\ v.cl[c.h].device = c.dev /\ v.cl[c.h].state \in StatesOf(e)
       /\ v.cl[c.h].run = w.cl[c.h].run /\ v.cl[c.h].seen = w.cl[c.h].seen
  BY <1>2, <1>8, <1>12, <1>14 DEF k
<1>16. Sound(v) /\ Less(v, w) BY <1>5, <1>11, <1>12, <1>13, <1>15, Moved
<1> QED BY <1>16 DEF v

\* device_tcp_input, for a packet of a connection that is there.
LEMMA InputKeeps ==
  ASSUME NEW w, Sound(w), NEW d \in Devices, NEW p \in Packet,
         \E k \in w.conns : k.dev = d /\ k.port = p.port,
         \A k \in w.conns : k.dev = d /\ k.port = p.port => k.id = p.id,
         p.kind = "rst" => \A o \in w.dev[d].open : o.port # p.port
  PROVE  Sound(Input(w, d, p)) /\ Less(Input(w, d, p), w)
<1> DEFINE c == CHOOSE k \in w.conns : k.dev = d /\ k.port = p.port
           e == [c EXCEPT !.heard = @ \cup {p.id}]
           x == [w EXCEPT !.conns = (@ \ {c}) \cup {e}]
           t == Teardown(w, c, p.kind # "rst")
<1>1. c \in w.conns /\ c.dev = d /\ c.port = p.port /\ c.id = p.id OBVIOUS
<1>2. Input(w, d, p) = CASE c.state = "CONNECTING" /\ p.kind = "synack" -> Connected(w, c)
                         [] c.state = "CONNECTED" /\ p.kind = "ack" -> x
                         [] OTHER -> t
  BY DEF Input
<1> HIDE DEF c
<1>3. w \in Worlds /\ Good(w) /\ c \in Conn /\ c.h \in Handles /\ w.cl[c.h] \in ClientRec /\ ClientOK(w.cl[c.h])
  BY <1>1 DEF Sound, Held, Worlds, Conn, Good
<1>4. CASE c.state = "CONNECTING" /\ p.kind = "synack" BY <1>1, <1>2, <1>4, ConnectedKeeps
<1>5. CASE c.state = "CONNECTED" /\ p.kind = "ack"
  <2>1. Input(w, d, p) = x BY <1>2, <1>5
  <2>2. c.heard \cup {p.id} \in SUBSET Nat BY <1>3 DEF Conn, Packet
  <2>3. e \in Conn /\ e.dev = c.dev /\ e.port = c.port /\ e.id = c.id /\ e.h = c.h
        /\ e.heard = c.heard \cup {p.id} /\ e.state = c.state
    BY <1>3, <2>2 DEF Conn
  <2> HIDE DEF e
  <2>4. x \in Worlds /\ x.dev = w.dev /\ x.cl = w.cl /\ x.conns = (w.conns \ {c}) \cup {e}
    BY <1>3, <2>3 DEF Worlds
  <2> HIDE DEF x
  <2>5. e.heard \subseteq {e.id} BY <1>1, <2>3 DEF Sound, Held, HeardOK
  <2>6. w.cl[c.h].device = c.dev /\ w.cl[c.h].state \in StatesOf(e)
    BY <1>1, <1>3, <2>3 DEF Good, Matched, Owned, StatesOf
  <2> QED BY <1>1, <1>3, <2>1, <2>3, <2>4, <2>5, <2>6, Moved
<1>6. CASE ~(c.state = "CONNECTING" /\ p.kind = "synack") /\ ~(c.state = "CONNECTED" /\ p.kind = "ack")
  <2>1. Input(w, d, p) = t BY <1>2, <1>6
  <2>2. (p.kind # "rst") \in BOOLEAN OBVIOUS
  <2>3. /\ t \in Worlds /\ Good(t) /\ Fewer(t, w) /\ SameDevices(t, w) /\ t.conns = w.conns \ {c}
        /\ p.kind = "rst" => t.dev = w.dev
        /\ p.kind # "rst" /\ OpenOK(w) => OpenOK(t)
    <3> DEFINE b == p.kind # "rst"
    <3>1. b \in BOOLEAN /\ t = Teardown(w, c, b) OBVIOUS
    <3> HIDE DEF b, t
    <3>2. /\ t \in Worlds /\ Good(t) /\ Fewer(t, w) /\ SameDevices(t, w) /\ t.conns = w.conns \ {c}
          /\ ~b => t.dev = w.dev
          /\ b /\ OpenOK(w) => OpenOK(t)
      BY <1>1, <1>3, <3>1, TeardownKeeps
    <3> QED BY <3>2 DEF b
  <2> HIDE DEF t
  <2>4. OpenOK(t)
    <3>1. CASE p.kind # "rst" BY <2>3, <3>1 DEF Sound, Held
    <3>2. CASE p.kind = "rst"
      <4> SUFFICES ASSUME NEW f \in Devices, NEW o \in t.dev[f].open
                   PROVE  \E k \in t.conns : k.dev = f /\ k.port = o.port /\ k.id = o.id
        BY DEF OpenOK
      <4>1. PICK k \in w.conns : k.dev = f /\ k.port = o.port /\ k.id = o.id
        BY <2>3, <3>2 DEF Sound, Held, OpenOK
      <4>2. k # c BY <1>1, <2>3, <3>2, <4>1
      <4> QED BY <2>3, <4>1, <4>2
    <3> QED BY <3>1, <3>2
  <2>5. IsFiniteSet(t.conns) /\ t.conns \subseteq w.conns BY <2>3, FS_Subset DEF Sound, Held
  <2>6. HeardOK(t) BY <2>5 DEF HeardOK, Sound, Held
  <2> QED BY <2>1, <2>3, <2>4, <2>5, <2>6, SubsetLess DEF Sound, Held
<1> QED BY <1>4, <1>5, <1>6

\* The same for a packet of none: the device forgets what it thinks is open.
LEMMA RstKeeps ==
  ASSUME NEW w, Sound(w), NEW d \in Devices, NEW port \in Nat
  PROVE  Sound(Rst(w, d, port)) /\ Less(Rst(w, d, port), w)
<1> DEFINE f == [w.dev[d] EXCEPT !.open = {o \in @ : o.port # port}]
           v == Rst(w, d, port)
<1>1. w \in Worlds /\ w.dev[d] \in DeviceRec BY DEF Sound, Held, Worlds
<1>2. v = [w EXCEPT !.dev = [w.dev EXCEPT ![d] = f]] BY DEF Rst
<1>3. f \in DeviceRec /\ f.open \subseteq w.dev[d].open /\ f.state = w.dev[d].state
  <2> DEFINE x == {o \in w.dev[d].open : o.port # port}
  <2>1. x \subseteq w.dev[d].open /\ x \subseteq OpenRec BY <1>1 DEF DeviceRec
  <2>2. f = [w.dev[d] EXCEPT !.open = x] OBVIOUS
  <2> HIDE DEF x
  <2> QED BY <1>1, <2>1, <2>2 DEF DeviceRec
<1> HIDE DEF f, v
<1>4. /\ v \in Worlds /\ v.cl = w.cl /\ v.conns = w.conns /\ v.dev = [w.dev EXCEPT ![d] = f]
  BY <1>1, <1>2, <1>3 DEF Worlds
<1>5. \A e \in Devices : v.dev[e].state = w.dev[e].state /\ v.dev[e].open \subseteq w.dev[e].open
  BY <1>1, <1>3, <1>4 DEF Worlds
<1>6. Less(v, w) BY <1>4, <1>5 DEF Less, Fewer, Known, Alive
<1>7. OpenOK(v) BY <1>4, <1>5 DEF OpenOK, Sound, Held
<1>8. Good(v)
  <2>1. Owned(v)
    <3> SUFFICES ASSUME NEW c \in v.conns
                 PROVE  /\ v.dev[c.dev].state = "active"
                        /\ v.cl[c.h].device = c.dev /\ v.cl[c.h].state \in StatesOf(c)
      BY DEF Owned
    <3>1. c \in w.conns /\ c.dev \in Devices BY <1>1, <1>4 DEF Worlds, Conn
    <3> QED BY <1>4, <1>5, <3>1 DEF Sound, Held, Good, Matched, Owned
  <2> QED BY <1>4, <2>1 DEF Sound, Held, Good, Matched, Apart, Linking
<1> QED BY <1>4, <1>6, <1>7, <1>8 DEF Sound, Held, HeardOK, v

-----------------------------------------------------------------------------
(***************************************************************************)
(* Commands.                                                               *)
(***************************************************************************)

\* A set of natural numbers has a least one.
LEMMA MinIs ==
  ASSUME NEW N \in SUBSET Nat, N # {}
  PROVE  Min(N) \in N
<1> SUFFICES ASSUME \A x \in N : \E y \in N : ~(x <= y) PROVE FALSE
  BY DEF Min
<1>1. PICK n \in Nat : n \in N OBVIOUS
<1> DEFINE A == 0 .. n - 1
           Good1 == {T \in SUBSET A : \A m \in Nat : T = 0 .. m - 1 => m \notin N}
<1>2. IsFiniteSet(A) BY <1>1, FS_Interval
<1>3. ASSUME NEW T \in SUBSET A, \A U \in SUBSET T : U # T => U \in Good1 PROVE T \in Good1
  <2> SUFFICES ASSUME NEW m \in Nat, T = 0 .. m - 1, m \in N PROVE FALSE
    OBVIOUS
  <2>1. PICK y \in N : ~(m <= y) OBVIOUS
  <2>2. y \in Nat /\ y \in T /\ y \notin 0 .. y - 1 BY <2>1
  <2>3. 0 .. y - 1 \in SUBSET T /\ 0 .. y - 1 # T BY <2>1, <2>2
  <2>4. 0 .. y - 1 \in Good1 BY <1>3, <2>3
  <2> QED BY <2>2, <2>4
<1>4. A \in Good1
  <2> HIDE DEF A, Good1
  <2> QED BY <1>2, <1>3, SubsetInduction
<1> QED BY <1>1, <1>4

\* find_sport: no number that a connection of the device has.
LEMMA FreePortIs ==
  ASSUME NEW d \in Devices, dev[d].next \in 0..PortMod - 1, Ports(d) \subseteq 1..PortMod - 1
  PROVE  FreePort(d) \in 0..PortMod - 1 /\ FreePort(d) \notin Ports(d)
<1> DEFINE next == dev[d].next
           Up(k) == (next + k) % PortMod
           N == {k \in 0..PortMod - 1 : Up(k) \notin Ports(d)}
           z == IF next = 0 THEN 0 ELSE PortMod - next
<1>1. PortMod \in Nat /\ PortMod > 2 BY ClientsAssumption
<1>2. FreePort(d) = Up(Min(N)) BY DEF FreePort
<1>3. z \in 0..PortMod - 1 /\ Up(z) = 0
  <2> HIDE DEF next
  <2>1. next \in 0..PortMod - 1 BY DEF next
  <2>2. CASE next = 0 BY <1>1, <2>2
  <2>3. CASE next # 0
    <3>1. z = PortMod - next /\ next + z = PortMod BY <1>1, <2>1, <2>3
    <3>2. PortMod % PortMod = 0 BY <1>1
    <3> QED BY <1>1, <2>1, <2>3, <3>1, <3>2
  <2> QED BY <2>2, <2>3
<1>4. z \in N BY <1>3
<1>5. N \subseteq Nat OBVIOUS
<1>6. Min(N) \in N
  <2> HIDE DEF N
  <2> QED BY <1>4, <1>5, MinIs
<1>7. Min(N) \in 0..PortMod - 1 /\ Up(Min(N)) \notin Ports(d)
  <2> DEFINE m == Min(N)
  <2>1. m \in N BY <1>6
  <2> HIDE DEF m
  <2> QED BY <2>1 DEF m
<1> DEFINE m == Min(N)
<1> HIDE DEF m, N, next
<1>8. next \in Nat /\ m \in Nat BY <1>1, <1>7 DEF next, m
<1>9. Up(m) \in 0..PortMod - 1 BY <1>1, <1>8
<1> QED BY <1>1, <1>2, <1>7, <1>9 DEF m

\* A client is replaced.
Put(w, h, r) == [w EXCEPT !.cl = [@ EXCEPT ![h] = r]]

\* To put a client at a handle changes this handle only.
LEMMA PutIs ==
  ASSUME NEW w \in Worlds, NEW h \in Handles, NEW r \in ClientRec
  PROVE  LET v == Put(w, h, r)
         IN /\ v \in Worlds /\ v.dev = w.dev /\ v.conns = w.conns /\ v.ok = w.ok
            /\ v.cl[h] = r /\ \A k \in Handles \ {h} : v.cl[k] = w.cl[k]
BY DEF Worlds, Put

\* The client that is put last is there.
LEMMA PutTwice ==
  ASSUME NEW w \in Worlds, NEW h \in Handles, NEW r, NEW q
  PROVE  Put(Put(w, h, r), h, q) = Put(w, h, q)
BY DEF Worlds, Put

\* process_recv takes a command from the buffer and runs it.
Ran(c) == [c EXCEPT !.unread = @ - 1, !.part = FALSE, !.run = @ + 1]

\* What process_recv changes when it takes a command: the client whose command it is.
LEMMA RanIs ==
  ASSUME NEW w \in Worlds, NEW h \in Handles, w.cl[h].unread > 0
  PROVE  LET r == Ran(w.cl[h])
         IN /\ r \in ClientRec
            /\ r.state = w.cl[h].state /\ r.unread = w.cl[h].unread - 1
            /\ r.run = w.cl[h].run + 1 /\ r.sent = w.cl[h].sent /\ r.tag = w.cl[h].tag
            /\ r.got = w.cl[h].got /\ r.replies = w.cl[h].replies
            /\ r.device = w.cl[h].device /\ r.seen = w.cl[h].seen
            /\ [w EXCEPT !.cl[h].unread = @ - 1, !.cl[h].part = FALSE, !.cl[h].run = @ + 1]
                 = Put(w, h, r)
<1> DEFINE c == w.cl[h]
           r1 == [c EXCEPT !.unread = @ - 1]
           r2 == [r1 EXCEPT !.part = FALSE]
           r3 == [r2 EXCEPT !.run = @ + 1]
           w1 == Put(w, h, r1)
           w2 == Put(w1, h, r2)
           w3 == Put(w2, h, r3)
<1>1. c \in ClientRec BY DEF Worlds
<1>2. c.unread > 0 OBVIOUS
<1>3. r3 = Ran(c) BY DEF Ran
<1> HIDE DEF c
<1>4. r1 \in ClientRec /\ r1.unread = c.unread - 1 /\ r1.state = c.state /\ r1.run = c.run
      /\ r1.sent = c.sent /\ r1.tag = c.tag /\ r1.got = c.got /\ r1.replies = c.replies
      /\ r1.device = c.device /\ r1.seen = c.seen
  <2>1. c.unread - 1 \in Nat BY <1>1, <1>2 DEF ClientRec
  <2> QED BY <1>1, <2>1 DEF ClientRec
<1> HIDE DEF r1
<1>5. r2 \in ClientRec /\ r2.unread = r1.unread /\ r2.state = r1.state /\ r2.run = r1.run
      /\ r2.sent = r1.sent /\ r2.tag = r1.tag /\ r2.got = r1.got /\ r2.replies = r1.replies
      /\ r2.device = r1.device /\ r2.seen = r1.seen
  BY <1>4 DEF ClientRec
<1> HIDE DEF r2
<1>6. r3 \in ClientRec /\ r3.unread = r2.unread /\ r3.state = r2.state /\ r3.run = r2.run + 1
      /\ r3.sent = r2.sent /\ r3.tag = r2.tag /\ r3.got = r2.got /\ r3.replies = r2.replies
      /\ r3.device = r2.device /\ r3.seen = r2.seen
  <2>1. r2.run + 1 \in Nat BY <1>5 DEF ClientRec
  <2> QED BY <1>5, <2>1 DEF ClientRec
<1> HIDE DEF r3, w1, w2, w3
<1>7. w1 \in Worlds /\ w1.cl[h] = r1 BY <1>4, PutIs DEF w1
<1>8. w2 \in Worlds /\ w2.cl[h] = r2 BY <1>5, <1>7, PutIs DEF w2
<1> DEFINE n == w.cl[h].unread - 1
           m == w.cl[h].run + 1
<1>9. w1 = [w EXCEPT !.cl[h].unread = n] BY DEF w1, r1, c, Put
<1>10. w2 = [w1 EXCEPT !.cl[h].part = FALSE] BY <1>7 DEF w2, r2, Put
<1>11. w3 = [w2 EXCEPT !.cl[h].run = m]
  <2>1. w3 = [w2 EXCEPT !.cl[h].run = w2.cl[h].run + 1] BY <1>8 DEF w3, r3, Put
  <2>2. w2.cl[h].run + 1 = m BY <1>4, <1>5, <1>8 DEF c
  <2> QED BY ONLY <2>1, <2>2
<1>12. w3 = [w EXCEPT !.cl[h].unread = @ - 1, !.cl[h].part = FALSE, !.cl[h].run = @ + 1]
  <2> HIDE DEF n, m
  <2>1. w3 = [w EXCEPT !.cl[h].unread = n, !.cl[h].part = FALSE, !.cl[h].run = m]
    BY ONLY <1>9, <1>10, <1>11
  <2> QED BY ONLY <2>1 DEF n, m
<1>13. w3 = Put(w, h, r3)
  <2>1. w2 = Put(w, h, r2) BY PutTwice DEF w1, w2
  <2> QED BY <2>1, PutTwice DEF w3
<1> QED BY <1>3, <1>4, <1>5, <1>6, <1>12, <1>13 DEF c

\* The fields of a client whose command is taken, and that it keeps its type.
LEMMA RanRec ==
  ASSUME NEW c \in ClientRec, c.unread > 0
  PROVE  LET r == Ran(c)
         IN /\ r \in ClientRec /\ r.got = c.got /\ r.replies = c.replies /\ r.run = c.run + 1
            /\ r.unread = c.unread - 1 /\ r.sent = c.sent /\ r.tag = c.tag /\ r.state = c.state
            /\ r.device = c.device /\ r.seen = c.seen
<1> DEFINE n == c.unread - 1
           m == c.run + 1
           r == [c EXCEPT !.unread = n, !.part = FALSE, !.run = m]
<1>1. n \in Nat /\ m \in Nat BY DEF ClientRec
<1>2. Ran(c) = r BY DEF Ran
<1>3. r.unread = n /\ r.run = m
  <2> HIDE DEF n, m
  <2> QED BY <1>1 DEF ClientRec
<1> HIDE DEF n, m
<1>4. /\ r \in ClientRec /\ r.got = c.got /\ r.replies = c.replies
      /\ r.sent = c.sent /\ r.tag = c.tag /\ r.state = c.state
      /\ r.device = c.device /\ r.seen = c.seen
  BY <1>1 DEF ClientRec
<1> HIDE DEF r
<1> QED BY <1>2, <1>3, <1>4 DEF n, m

\* A command that is answered at once.
LEMMA AnsweredOK ==
  ASSUME NEW c \in ClientRec, ClientOK(c), c.state = "COMMAND", c.unread > 0
  PROVE  LET q == Replied(Ran(c), c.run + 1)
         IN /\ q \in ClientRec /\ ClientOK(q) /\ q.state = "COMMAND" /\ q.device = c.device
            /\ q.run = c.run + 1 /\ q.seen = c.seen
<1> DEFINE r == Ran(c)
           a == Append(r.replies, c.run + 1)
           q == Replied(r, c.run + 1)
<1>1. c.run \in Nat /\ c.unread \in Nat /\ c.sent \in Nat /\ c.tag \in Nat /\ c.unread - 1 \in Nat
  BY ClientsAssumption DEF ClientRec
<1>2. c.run + c.unread <= c.sent /\ c.tag <= c.run /\ c.got \o c.replies = [i \in 1..c.run |-> i]
  BY DEF ClientOK, Answered, Due
<1>3. /\ r \in ClientRec /\ r.got = c.got /\ r.replies = c.replies /\ r.run = c.run + 1
      /\ r.unread = c.unread - 1 /\ r.sent = c.sent /\ r.tag = c.tag /\ r.state = c.state
      /\ r.device = c.device /\ r.seen = c.seen
  BY RanRec
<1>4. a \in Seq(Nat) /\ c.got \o a = [i \in 1..c.run + 1 |-> i]
  <2>1. a = Append(c.replies, c.run + 1) BY <1>3
  <2> HIDE DEF a
  <2> QED BY <1>1, <1>2, <2>1, NextReply
<1>5. q = [r EXCEPT !.replies = a] BY DEF Replied
<1> HIDE DEF r, a, q
<1>6. /\ q \in ClientRec /\ q.got = r.got /\ q.replies = a /\ q.run = r.run
      /\ q.unread = r.unread /\ q.sent = r.sent /\ q.tag = r.tag /\ q.state = r.state
      /\ q.device = r.device /\ q.seen = r.seen
  BY <1>3, <1>4, <1>5 DEF ClientRec
<1>7. Answered(q) BY <1>3, <1>4, <1>6 DEF Answered, Due
<1>8. q.run + q.unread <= q.sent /\ q.tag <= q.run BY <1>1, <1>2, <1>3, <1>6
<1>9. ClientOK(q) BY <1>3, <1>6, <1>7, <1>8 DEF ClientOK
<1> QED BY <1>3, <1>6, <1>9 DEF q, r

\* A command that waits for the answer of the device.
Waiting(c, d) == [c EXCEPT !.state = "CONNECTING1", !.device = d, !.tag = c.run]

\* A client that has sent a connect request waits for the reply of just this command.
LEMMA WaitingOK ==
  ASSUME NEW c \in ClientRec, ClientOK(c), c.state = "COMMAND", c.unread > 0, NEW d \in Devices
  PROVE  LET q == Waiting(Ran(c), d)
         IN /\ q \in ClientRec /\ ClientOK(q) /\ q.state = "CONNECTING1" /\ q.device = d
            /\ q.run = c.run + 1 /\ q.seen = c.seen
<1> DEFINE r == Ran(c)
           q == Waiting(r, d)
<1>1. c.run \in Nat /\ c.unread \in Nat /\ c.sent \in Nat /\ c.tag \in Nat /\ c.unread - 1 \in Nat
  BY ClientsAssumption DEF ClientRec
<1>2. c.run + c.unread <= c.sent /\ c.tag <= c.run /\ c.got \o c.replies = [i \in 1..c.run |-> i]
  BY DEF ClientOK, Answered, Due
<1>3. /\ r \in ClientRec /\ r.got = c.got /\ r.replies = c.replies /\ r.run = c.run + 1
      /\ r.unread = c.unread - 1 /\ r.sent = c.sent /\ r.tag = c.tag /\ r.state = c.state
      /\ r.device = c.device /\ r.seen = c.seen
  BY RanRec
<1> HIDE DEF r
<1>4. /\ q \in ClientRec /\ q.got = r.got /\ q.replies = r.replies /\ q.run = r.run
      /\ q.unread = r.unread /\ q.sent = r.sent /\ q.tag = r.run /\ q.state = "CONNECTING1"
      /\ q.device = d /\ q.seen = r.seen
  BY <1>3 DEF ClientRec, Waiting, Linked
<1> HIDE DEF q
<1>5. Answered(q)
  <2>1. Due(q) = c.run BY <1>1, <1>3, <1>4 DEF Due
  <2> QED BY <1>2, <1>3, <1>4, <2>1 DEF Answered
<1>6. q.run + q.unread <= q.sent /\ q.tag <= q.run /\ q.tag = q.run /\ q.run > 0
  BY <1>1, <1>2, <1>3, <1>4
<1>7. ClientOK(q) BY <1>4, <1>5, <1>6 DEF ClientOK
<1> QED BY <1>3, <1>4, <1>7 DEF q, r

\* device_start_connect takes the next port.
Up(w, d, n) == [w EXCEPT !.dev[d].next = n]

\* find_sport changes where the device looks for the next port, nothing else.
LEMMA UpIs ==
  ASSUME NEW w \in Worlds, NEW d \in Devices, NEW n \in 0..PortMod - 1
  PROVE  LET v == Up(w, d, n)
         IN /\ v \in Worlds /\ v.cl = w.cl /\ v.conns = w.conns /\ v.ok = w.ok
            /\ v.dev[d].open = w.dev[d].open /\ v.dev[d].state = w.dev[d].state
            /\ \A e \in Devices \ {d} : v.dev[e] = w.dev[e]
<1> DEFINE r == [w.dev[d] EXCEPT !.next = n]
           v == Up(w, d, n)
<1>1. w.dev \in [Devices -> DeviceRec] /\ w.dev[d] \in DeviceRec BY DEF Worlds
<1>2. r \in DeviceRec /\ r.open = w.dev[d].open /\ r.state = w.dev[d].state
  BY <1>1 DEF DeviceRec
<1>3. v = [w EXCEPT !.dev = [w.dev EXCEPT ![d] = r]] BY DEF Up
<1> HIDE DEF r, v
<1>4. v \in Worlds /\ v.cl = w.cl /\ v.conns = w.conns /\ v.ok = w.ok /\ v.dev = [w.dev EXCEPT ![d] = r]
  BY <1>1, <1>2, <1>3 DEF Worlds
<1> QED BY <1>1, <1>2, <1>4 DEF v

\* The connection that waits for the answer to its TH_SYN.
Opened(w, h, d, e, o) ==
  [w EXCEPT !.cl[h].state = "CONNECTING1", !.cl[h].device = d, !.cl[h].tag = w.cl[h].run,
            !.conns = @ \cup {e}, !.dev[d].open = @ \cup {o}]

\* What device_start_connect changes when it opens a connection: the client, the device, one connection.
LEMMA OpenedIs ==
  ASSUME NEW w \in Worlds, NEW h \in Handles, NEW d \in Devices, NEW e \in Conn, NEW o \in OpenRec
  PROVE  LET v == Opened(w, h, d, e, o)
         IN /\ v \in Worlds /\ v.conns = w.conns \cup {e}
            /\ v.cl[h] = Waiting(w.cl[h], d) /\ \A k \in Handles \ {h} : v.cl[k] = w.cl[k]
            /\ v.dev[d].open = w.dev[d].open \cup {o} /\ v.dev[d].state = w.dev[d].state
            /\ \A k \in Devices \ {d} : v.dev[k] = w.dev[k]
<1> DEFINE c == w.cl[h]
           r1 == [c EXCEPT !.state = "CONNECTING1"]
           r2 == [r1 EXCEPT !.device = d]
           r3 == [r2 EXCEPT !.tag = c.run]
           w1 == Put(w, h, r1)
           w2 == Put(w1, h, r2)
           w3 == Put(w2, h, r3)
           w4 == [w3 EXCEPT !.conns = @ \cup {e}]
           f == [w.dev[d] EXCEPT !.open = @ \cup {o}]
           w5 == [w4 EXCEPT !.dev = [@ EXCEPT ![d] = f]]
<1>1. c \in ClientRec /\ c.run \in Nat BY DEF Worlds, ClientRec
<1>2. r1 \in ClientRec BY <1>1 DEF ClientRec, Linked
<1>3. r2 \in ClientRec
  <2> HIDE DEF r1
  <2> QED BY <1>2 DEF ClientRec
<1>4. r3 \in ClientRec
  <2> HIDE DEF r2
  <2> QED BY <1>1, <1>3 DEF ClientRec
<1>5. r3 = Waiting(c, d) BY DEF Waiting
<1>6. w1 \in Worlds /\ w1.cl[h] = r1 /\ w1.dev = w.dev /\ w1.conns = w.conns
  <2> HIDE DEF r1
  <2> QED BY <1>2, PutIs
<1>7. w2 \in Worlds /\ w2.cl[h] = r2 /\ w2.dev = w.dev /\ w2.conns = w.conns
  <2> HIDE DEF r2, w1
  <2> QED BY <1>3, <1>6, PutIs
<1>8. w3 = Put(w, h, r3)
  <2> HIDE DEF r1, r2, r3
  <2>1. w2 = Put(w, h, r2) BY PutTwice
  <2> QED BY <2>1, PutTwice
<1>9. /\ w3 \in Worlds /\ w3.dev = w.dev /\ w3.conns = w.conns
      /\ w3.cl[h] = r3 /\ \A k \in Handles \ {h} : w3.cl[k] = w.cl[k]
  <2> HIDE DEF r3, w2, w3
  <2> QED BY <1>4, <1>8, PutIs
<1>10. w4 \in Worlds /\ w4.dev = w.dev /\ w4.conns = w.conns \cup {e} /\ w4.cl = w3.cl
  <2> HIDE DEF w3
  <2> QED BY <1>9 DEF Worlds
<1>11. f \in DeviceRec /\ f.open = w.dev[d].open \cup {o} /\ f.state = w.dev[d].state
  <2>1. w.dev[d] \in DeviceRec BY DEF Worlds
  <2> DEFINE x == w.dev[d].open \cup {o}
  <2>2. x \in SUBSET OpenRec BY <2>1 DEF DeviceRec
  <2> HIDE DEF x
  <2>3. f = [w.dev[d] EXCEPT !.open = x] BY DEF x
  <2> HIDE DEF f
  <2> QED BY <2>1, <2>2, <2>3 DEF DeviceRec, x
<1>12. /\ w5 \in Worlds /\ w5.conns = w4.conns /\ w5.cl = w4.cl
       /\ w5.dev[d] = f /\ \A k \in Devices \ {d} : w5.dev[k] = w.dev[k]
  <2> HIDE DEF f, w4
  <2> QED BY <1>10, <1>11 DEF Worlds
<1> HIDE DEF c
<1>13. w5 = Opened(w, h, d, e, o)
  <2> HIDE DEF r1, r2, r3, w1, w2, w3, w4, w5, f
  <2>1. w1 = [w EXCEPT !.cl[h].state = "CONNECTING1"] BY DEF w1, r1, c, Put
  <2>2. w2 = [w1 EXCEPT !.cl[h].device = d] BY <1>6 DEF w2, r2, Put
  <2>3. w3 = [w2 EXCEPT !.cl[h].tag = w.cl[h].run] BY <1>7 DEF w3, r3, c, Put
  <2>4. w4 = [w3 EXCEPT !.conns = @ \cup {e}] BY DEF w4
  <2>5. w5 = [w4 EXCEPT !.dev[d].open = @ \cup {o}] BY <1>10 DEF w5, f
  <2> QED BY <2>1, <2>2, <2>3, <2>4, <2>5 DEF Opened
<1> HIDE DEF r3, w5, w4, w3, f
<1>14. /\ w5 \in Worlds /\ w5.conns = w.conns \cup {e}
       /\ w5.cl[h] = Waiting(c, d) /\ \A k \in Handles \ {h} : w5.cl[k] = w.cl[k]
       /\ w5.dev[d].open = w.dev[d].open \cup {o} /\ w5.dev[d].state = w.dev[d].state
       /\ \A k \in Devices \ {d} : w5.dev[k] = w.dev[k]
  BY ONLY <1>5, <1>9, <1>10, <1>11, <1>12
<1> QED BY ONLY <1>13, <1>14 DEF c

\* What a command may do: it counts for its client, and it opens one connection at most,
\* with a number of its own and a port that no other connection of the device has.
Counts(v, h) ==
  /\ \A k \in Handles \ {h} : v.cl[k].state # "none" =>
       cl[k].state # "none" /\ v.cl[k].run = cl[k].run /\ v.cl[k].seen = cl[k].seen
  /\ v.cl[h].state # "none" =>
       cl[h].state # "none" /\ v.cl[h].run = cl[h].run + 1 /\ v.cl[h].seen = cl[h].seen
Opens(v, e) ==
  /\ e \in Conn /\ e \notin conns /\ v.conns = conns \cup {e}
  /\ e.id = syns + 1 /\ e.port \notin Ports(e.dev)
  /\ v.dev[e.dev].open = dev[e.dev].open \cup {[port |-> e.port, id |-> e.id, up |-> FALSE]}
  /\ \A d \in Devices \ {e.dev} : v.dev[d].open = dev[d].open
OpensNone(v) ==
  /\ v.conns \subseteq conns
  /\ \A d \in Devices : v.dev[d].open \subseteq dev[d].open
Outcome(v, h) ==
  /\ Sound(v) /\ Counts(v, h)
  /\ \A d \in Devices : v.dev[d].state = dev[d].state
  /\ OpensNone(v) \/ \E e : Opens(v, e)

\* A command that is only answered ends as RecvCommand may.
LEMMA RepliesOut ==
  ASSUME Sound(World), NEW h \in Handles, cl[h].state = "COMMAND", cl[h].unread > 0,
         NEW v \in Worlds, v.conns = conns,
         \A d \in Devices : v.dev[d].state = dev[d].state /\ v.dev[d].open = dev[d].open,
         \A k \in Handles \ {h} : v.cl[k] = cl[k],
         v.cl[h] = Replied(Ran(cl[h]), cl[h].run + 1)
  PROVE  Outcome(v, h)
<1>1. World.cl = cl /\ World.dev = dev /\ World.conns = conns BY DEF World
<1>2. /\ World \in Worlds /\ OpenOK(World) /\ HeardOK(World) /\ IsFiniteSet(conns) /\ Good(World)
  BY <1>1 DEF Sound, Held
<1>3. cl[h] \in ClientRec /\ ClientOK(cl[h]) BY <1>1, <1>2 DEF Worlds, Good
<1>4. /\ ClientOK(v.cl[h]) /\ v.cl[h].state = "COMMAND"
      /\ v.cl[h].run = cl[h].run + 1 /\ v.cl[h].seen = cl[h].seen
  BY <1>3, AnsweredOK
<1>5. Counts(v, h) BY <1>4 DEF Counts
<1>6. OpensNone(v) BY DEF OpensNone
<1>7. OpenOK(v) /\ HeardOK(v) BY <1>1, <1>2 DEF OpenOK, HeardOK
<1>8. Owned(v)
  <2> SUFFICES ASSUME NEW c \in v.conns
               PROVE  /\ v.dev[c.dev].state = "active"
                      /\ v.cl[c.h].device = c.dev /\ v.cl[c.h].state \in StatesOf(c)
    BY DEF Owned
  <2>1. c \in conns /\ c.dev \in Devices /\ c.h \in Handles BY <1>1, <1>2 DEF Worlds, Conn
  <2>2. dev[c.dev].state = "active" /\ cl[c.h].device = c.dev /\ cl[c.h].state \in StatesOf(c)
    BY <1>1, <1>2, <2>1 DEF Good, Matched, Owned
  <2>3. c.h # h BY <2>2 DEF StatesOf
  <2> QED BY <2>1, <2>2, <2>3
<1>9. Apart(v) BY <1>1, <1>2 DEF Good, Matched, Apart
<1>10. Linking(v) BY <1>1, <1>2, <1>4 DEF Good, Matched, Linking, Linked
<1>11. \A k \in Handles : ClientOK(v.cl[k]) BY <1>1, <1>2, <1>4 DEF Good
<1>12. Sound(v) BY <1>2, <1>7, <1>8, <1>9, <1>10, <1>11 DEF Sound, Held, Good, Matched
<1> QED BY <1>5, <1>6, <1>12 DEF Outcome

\* A connect request that opens a connection, at a port no other connection has, ends as RecvCommand may.
LEMMA OpensOut ==
  ASSUME Sound(World), syns \in Nat, NEW h \in Handles, cl[h].state = "COMMAND", cl[h].unread > 0,
         NEW d \in Devices, dev[d].state = "active",
         NEW v \in Worlds, NEW e \in Conn,
         e.dev = d, e.h = h, e.id = syns + 1, e.heard = {}, e.state = "CONNECTING",
         e.port \notin Ports(d), v.conns = conns \cup {e},
         v.cl[h] = Waiting(Ran(cl[h]), d), \A k \in Handles \ {h} : v.cl[k] = cl[k],
         v.dev[d].state = dev[d].state,
         v.dev[d].open = dev[d].open \cup {[port |-> e.port, id |-> e.id, up |-> FALSE]},
         \A f \in Devices \ {d} : v.dev[f].state = dev[f].state /\ v.dev[f].open = dev[f].open
  PROVE  Outcome(v, h)
<1>1. World.cl = cl /\ World.dev = dev /\ World.conns = conns BY DEF World
<1>2. /\ World \in Worlds /\ OpenOK(World) /\ HeardOK(World) /\ IsFiniteSet(conns) /\ Good(World)
  BY <1>1 DEF Sound, Held
<1>3. cl[h] \in ClientRec /\ ClientOK(cl[h]) BY <1>1, <1>2 DEF Worlds, Good
<1>4. /\ ClientOK(v.cl[h]) /\ v.cl[h].state = "CONNECTING1" /\ v.cl[h].device = d
      /\ v.cl[h].run = cl[h].run + 1 /\ v.cl[h].seen = cl[h].seen
  BY <1>3, WaitingOK
<1>5. Counts(v, h) BY <1>4 DEF Counts
<1>6. \A c \in conns : c.dev \in Devices /\ c.h \in Handles /\ c.h # h /\ ~(c.dev = d /\ c.port = e.port)
  <2> TAKE c \in conns
  <2>1. c.dev \in Devices /\ c.h \in Handles BY <1>1, <1>2 DEF Worlds, Conn
  <2>2. cl[c.h].state \in StatesOf(c) BY <1>1, <1>2, <2>1 DEF Good, Matched, Owned
  <2>3. c.h # h BY <2>2 DEF StatesOf
  <2> QED BY <2>1, <2>3 DEF Ports
<1>7. e \notin conns BY <1>6
<1>8. Opens(v, e) BY <1>7 DEF Opens
<1>9. HeardOK(v) BY <1>1, <1>2 DEF HeardOK
<1>10. OpenOK(v)
  <2> SUFFICES ASSUME NEW f \in Devices, NEW o \in v.dev[f].open
               PROVE  \E k \in v.conns : k.dev = f /\ k.port = o.port /\ k.id = o.id
    BY DEF OpenOK
  <2>1. CASE o \in dev[f].open BY <1>1, <1>2, <2>1 DEF OpenOK
  <2>2. CASE o \notin dev[f].open
    <3>1. f = d /\ o = [port |-> e.port, id |-> e.id, up |-> FALSE] BY <2>2
    <3> QED BY <3>1
  <2> QED BY <2>1, <2>2
<1>11. Owned(v)
  <2> SUFFICES ASSUME NEW c \in v.conns
               PROVE  /\ v.dev[c.dev].state = "active"
                      /\ v.cl[c.h].device = c.dev /\ v.cl[c.h].state \in StatesOf(c)
    BY DEF Owned
  <2>1. CASE c = e BY <1>4, <2>1 DEF StatesOf
  <2>2. CASE c # e
    <3>1. c \in conns /\ c.dev \in Devices /\ c.h \in Handles /\ c.h # h BY <1>6, <2>2
    <3>2. dev[c.dev].state = "active" /\ cl[c.h].device = c.dev /\ cl[c.h].state \in StatesOf(c)
      BY <1>1, <1>2, <3>1 DEF Good, Matched, Owned
    <3> QED BY <3>1, <3>2
  <2> QED BY <2>1, <2>2
<1>12. Apart(v)
  <2> SUFFICES ASSUME NEW x \in v.conns, NEW y \in v.conns
               PROVE  /\ x.dev = y.dev /\ x.port = y.port => x = y
                      /\ x.h = y.h => x = y
    BY DEF Apart
  <2>1. CASE x \in conns /\ y \in conns BY <1>1, <1>2, <2>1 DEF Good, Matched, Apart
  <2>2. CASE x = e \/ y = e BY <1>6, <2>2
  <2> QED BY <2>1, <2>2
<1>13. Linking(v) BY <1>1, <1>2, <1>4 DEF Good, Matched, Linking
<1>14. \A k \in Handles : ClientOK(v.cl[k]) BY <1>1, <1>2, <1>4 DEF Good
<1>15. IsFiniteSet(v.conns) BY <1>2, FS_AddElement
<1>16. Sound(v) BY <1>9, <1>10, <1>11, <1>12, <1>13, <1>14, <1>15 DEF Sound, Held, Good, Matched
<1> QED BY <1>5, <1>8, <1>16 DEF Outcome

\* A command in the wrong state ends its client.
LEMMA WrongOut ==
  ASSUME Sound(World), NEW h \in Handles, cl[h].state = "CONNECTING1", cl[h].unread > 0,
         NEW u \in Worlds, u.conns = conns, u.dev = dev,
         \A k \in Handles \ {h} : u.cl[k] = cl[k],
         u.cl[h].state = cl[h].state, u.cl[h].device = cl[h].device
  PROVE  Outcome(ClientClose(u, h), h)
<1>1. World.cl = cl /\ World.dev = dev /\ World.conns = conns BY DEF World
<1>2. /\ World \in Worlds /\ OpenOK(World) /\ HeardOK(World) /\ IsFiniteSet(conns) /\ Good(World)
  BY <1>1 DEF Sound, Held
<1>3. Held(u) BY <1>1, <1>2 DEF Held, OpenOK, HeardOK
<1>4. Owned(u)
  <2> SUFFICES ASSUME NEW c \in u.conns
               PROVE  /\ u.dev[c.dev].state = "active"
                      /\ u.cl[c.h].device = c.dev /\ u.cl[c.h].state \in StatesOf(c)
    BY DEF Owned
  <2>1. c \in conns /\ c.dev \in Devices /\ c.h \in Handles BY <1>1, <1>2 DEF Worlds, Conn
  <2>2. dev[c.dev].state = "active" /\ cl[c.h].device = c.dev /\ cl[c.h].state \in StatesOf(c)
    BY <1>1, <1>2, <2>1 DEF Good, Matched, Owned
  <2> QED BY <2>1, <2>2
<1>5. Apart(u) BY <1>1, <1>2 DEF Good, Matched, Apart
<1>6. Linking(u) BY <1>1, <1>2 DEF Good, Matched, Linking, Linked
<1>7. GoodBut(u, h) BY <1>1, <1>2, <1>4, <1>5, <1>6 DEF Good, GoodBut, Matched
<1> DEFINE v == ClientClose(u, h)
<1>8. /\ Sound(v) /\ Less(v, u) /\ SameDevices(v, u)
      /\ v.conns \subseteq u.conns /\ v.cl[h].state = "none"
  BY <1>3, <1>7, CloseKeeps
<1>9. \A d \in Devices : v.dev[d].state = dev[d].state
  <2> HIDE DEF v
  <2> QED BY <1>8 DEF SameDevices
<1> HIDE DEF v
<1>10. Counts(v, h) BY <1>8 DEF Counts, Less, Fewer
<1>11. OpensNone(v) BY <1>8 DEF OpensNone, Less
<1> QED BY <1>8, <1>9, <1>10, <1>11 DEF Outcome, v

\* device_start_connect ends as RecvCommand may: a refusal for want of a device or a port, or a connection.
LEMMA ConnectOut ==
  ASSUME Sound(World), syns \in Nat, NEW h \in Handles, cl[h].state = "COMMAND", cl[h].unread > 0,
         NEW d \in Devices, NEW w, w = Put(World, h, Ran(cl[h]))
  PROVE  Outcome(Connect(w, h, d), h)
<1>1. World.cl = cl /\ World.dev = dev /\ World.conns = conns BY DEF World
<1>2. World \in Worlds BY DEF Sound, Held
<1>3. cl[h] \in ClientRec BY <1>1, <1>2 DEF Worlds
<1>4. Ran(cl[h]) \in ClientRec /\ Ran(cl[h]).run = cl[h].run + 1 /\ cl[h].run + 1 \in Nat
  <2>1. cl[h].run + 1 \in Nat BY <1>3 DEF ClientRec
  <2> QED BY <1>3, <2>1, RanRec
<1>5. /\ w \in Worlds /\ w.dev = dev /\ w.conns = conns
      /\ w.cl[h] = Ran(cl[h]) /\ \A k \in Handles \ {h} : w.cl[k] = cl[k]
  BY <1>1, <1>2, <1>4, PutIs
<1> DEFINE port == FreePort(d)
           n == (port + 1) % PortMod
           up == Up(w, d, n)
           tag == w.cl[h].run
           e == [dev |-> d, port |-> port, h |-> h, id |-> syns + 1, state |-> "CONNECTING", heard |-> {}]
           o == [port |-> port, id |-> syns + 1, up |-> FALSE]
<1>6. port \in 0..PortMod - 1 /\ port \notin Ports(d)
  <2>1. dev[d] \in DeviceRec /\ conns \subseteq Conn BY <1>1, <1>2 DEF Worlds
  <2>2. dev[d].next \in 0..PortMod - 1 BY <2>1 DEF DeviceRec
  <2>3. Ports(d) \subseteq 1..PortMod - 1 BY <2>1 DEF Ports, Conn
  <2> QED BY <2>2, <2>3, FreePortIs
<1>7. tag = cl[h].run + 1 /\ tag \in Nat BY <1>4, <1>5
<1>8. Connect(w, h, d) =
        IF d \notin There \/ (dev[d].state = "active" /\ Full(d)) THEN Reply(w, h, tag)
        ELSE IF dev[d].state = "init" THEN [Reply(w, h, tag) EXCEPT !.ok = FALSE]
        ELSE IF port = 0 THEN Reply(up, h, tag)
        ELSE [up EXCEPT !.cl[h].state = "CONNECTING1", !.cl[h].device = d, !.cl[h].tag = tag,
                        !.conns = @ \cup {e}, !.dev[d].open = @ \cup {o}]
  BY DEF Connect, Up
<1> HIDE DEF port
<1>9. n \in 0..PortMod - 1
  <2>1. PortMod \in Nat /\ PortMod > 2 BY ClientsAssumption
  <2> QED BY <1>6, <2>1
<1> HIDE DEF n
<1>10. /\ up \in Worlds /\ up.cl = w.cl /\ up.conns = w.conns
       /\ up.dev[d].open = w.dev[d].open /\ up.dev[d].state = w.dev[d].state
       /\ \A f \in Devices \ {d} : up.dev[f] = w.dev[f]
  BY <1>5, <1>9, UpIs
<1> HIDE DEF up, tag
<1>11. ASSUME NEW u \in Worlds, u.cl = w.cl, u.conns = conns,
              \A f \in Devices : u.dev[f].state = dev[f].state /\ u.dev[f].open = dev[f].open
       PROVE  Outcome(Reply(u, h, tag), h)
  <2> DEFINE v == Reply(u, h, tag)
  <2>1. /\ v \in Worlds /\ v.dev = u.dev /\ v.conns = u.conns
        /\ v.cl = [u.cl EXCEPT ![h] = Replied(u.cl[h], tag)]
    BY <1>7, <1>11, ReplyIs
  <2> HIDE DEF v
  <2>2. u.cl \in [Handles -> ClientRec] BY DEF Worlds
  <2>3. /\ v.cl[h] = Replied(Ran(cl[h]), cl[h].run + 1)
        /\ \A k \in Handles \ {h} : v.cl[k] = cl[k]
    BY <1>5, <1>7, <1>11, <2>1, <2>2
  <2>4. v.conns = conns /\ \A f \in Devices : v.dev[f].state = dev[f].state /\ v.dev[f].open = dev[f].open
    BY <1>11, <2>1
  <2>5. Outcome(v, h) BY <2>1, <2>3, <2>4, RepliesOut
  <2> QED BY <2>5 DEF v
<1>12. CASE d \notin There \/ (dev[d].state = "active" /\ Full(d)) BY <1>5, <1>8, <1>11, <1>12
<1>13. CASE d \in There /\ dev[d].state = "init"
  <2> DEFINE v == Reply(w, h, tag)
             x == [v EXCEPT !.ok = FALSE]
  <2>1. /\ v \in Worlds /\ v.dev = w.dev /\ v.conns = w.conns
        /\ v.cl = [w.cl EXCEPT ![h] = Replied(w.cl[h], tag)]
    BY <1>5, <1>7, ReplyIs
  <2>2. Connect(w, h, d) = x BY <1>8, <1>13 DEF v
  <2> HIDE DEF v
  <2>3. x \in Worlds /\ x.dev = v.dev /\ x.conns = v.conns /\ x.cl = v.cl BY <2>1 DEF Worlds
  <2> HIDE DEF x
  <2>4. w.cl \in [Handles -> ClientRec] BY <1>5 DEF Worlds
  <2>5. /\ x.cl[h] = Replied(Ran(cl[h]), cl[h].run + 1)
        /\ \A k \in Handles \ {h} : x.cl[k] = cl[k]
    BY <1>5, <1>7, <2>1, <2>3, <2>4
  <2>6. x.conns = conns /\ \A f \in Devices : x.dev[f].state = dev[f].state /\ x.dev[f].open = dev[f].open
    BY <1>5, <2>1, <2>3
  <2>7. Outcome(x, h) BY <2>3, <2>5, <2>6, RepliesOut
  <2> QED BY <2>2, <2>7
<1>14. CASE dev[d].state = "active" /\ ~Full(d) /\ port = 0
  <2>1. \A f \in Devices : up.dev[f].state = dev[f].state /\ up.dev[f].open = dev[f].open
    BY <1>5, <1>10
  <2>2. d \in There BY <1>14 DEF There
  <2> QED BY <1>5, <1>8, <1>10, <1>11, <1>14, <2>1, <2>2
<1>15. CASE dev[d].state = "active" /\ ~Full(d) /\ port # 0
  <2> DEFINE v == Opened(up, h, d, e, o)
  <2>1. Connect(w, h, d) = v
    <3>1. up.cl[h].run = tag BY <1>10 DEF tag
    <3>2. d \in There BY <1>15 DEF There
    <3> QED BY <1>8, <1>15, <3>1, <3>2 DEF Opened
  <2>2. /\ e \in Conn /\ e.dev = d /\ e.h = h /\ e.id = syns + 1 /\ e.heard = {}
        /\ e.state = "CONNECTING" /\ e.port = port
    <3>1. port \in 1..PortMod - 1 BY <1>6, <1>15, ClientsAssumption
    <3> QED BY <3>1 DEF Conn
  <2>3. o \in OpenRec /\ o = [port |-> e.port, id |-> e.id, up |-> FALSE]
    <3>1. port \in Nat BY <1>6, ClientsAssumption
    <3> QED BY <2>2, <3>1 DEF OpenRec
  <2> HIDE DEF e, o
  <2>4. /\ v \in Worlds /\ v.conns = up.conns \cup {e}
        /\ v.cl[h] = Waiting(up.cl[h], d) /\ \A k \in Handles \ {h} : v.cl[k] = up.cl[k]
        /\ v.dev[d].open = up.dev[d].open \cup {o} /\ v.dev[d].state = up.dev[d].state
        /\ \A k \in Devices \ {d} : v.dev[k] = up.dev[k]
    <3>1. up \in Worlds /\ e \in Conn /\ o \in OpenRec /\ h \in Handles /\ d \in Devices
      BY <1>10, <2>2, <2>3
    <3> QED BY ONLY <3>1, OpenedIs
  <2> HIDE DEF v
  <2>5. /\ v.conns = conns \cup {e}
        /\ v.cl[h] = Waiting(Ran(cl[h]), d) /\ \A k \in Handles \ {h} : v.cl[k] = cl[k]
        /\ v.dev[d].state = dev[d].state
        /\ v.dev[d].open = dev[d].open \cup {[port |-> e.port, id |-> e.id, up |-> FALSE]}
        /\ \A f \in Devices \ {d} : v.dev[f].state = dev[f].state /\ v.dev[f].open = dev[f].open
    BY <1>5, <1>10, <2>3, <2>4
  <2>6. e.port \notin Ports(d) BY <1>6, <1>15, <2>2
  <2>7. Outcome(v, h) BY <1>15, <2>2, <2>4, <2>5, <2>6, OpensOut
  <2> QED BY <2>1, <2>7
<1>16. CASE d \in There /\ dev[d].state # "init" /\ ~(dev[d].state = "active" /\ Full(d))
  <2>1. dev[d].state = "active" /\ ~Full(d) BY <1>16 DEF There
  <2> QED BY <1>14, <1>15, <2>1
<1> QED BY <1>12, <1>13, <1>16

\* client_command ends as RecvCommand may, whatever the command.
LEMMA ExecutedOut ==
  ASSUME Sound(World), syns \in Nat, NEW h \in Handles, cl[h].state \in {"COMMAND", "CONNECTING1"},
         cl[h].unread > 0, NEW command \in Commands,
         NEW w, w = [World EXCEPT !.cl[h].unread = @ - 1, !.cl[h].part = FALSE, !.cl[h].run = @ + 1]
  PROVE  Outcome(Executed(w, h, command), h)
<1>1. World.cl = cl /\ World.dev = dev /\ World.conns = conns BY DEF World
<1>2. World \in Worlds BY DEF Sound, Held
<1>3. cl[h] \in ClientRec BY <1>1, <1>2 DEF Worlds
<1> DEFINE c == Ran(cl[h])
<1>4. /\ c \in ClientRec /\ c.run = cl[h].run + 1 /\ c.run \in Nat
      /\ c.state = cl[h].state /\ c.device = cl[h].device /\ w = Put(World, h, c)
  <2>1. LET r == Ran(World.cl[h])
        IN /\ r \in ClientRec
           /\ r.state = World.cl[h].state
           /\ r.run = World.cl[h].run + 1
           /\ r.device = World.cl[h].device
           /\ [World EXCEPT !.cl[h].unread = @ - 1, !.cl[h].part = FALSE, !.cl[h].run = @ + 1]
                 = Put(World, h, r)
    BY <1>1, <1>2, RanIs
  <2>2. c.run \in Nat BY <1>1, <2>1 DEF ClientRec
  <2> QED BY <1>1, <2>1, <2>2
<1> HIDE DEF c
<1>5. /\ w \in Worlds /\ w.dev = dev /\ w.conns = conns
      /\ w.cl[h] = c /\ \A k \in Handles \ {h} : w.cl[k] = cl[k]
  <2>1. LET v == Put(World, h, c)
        IN /\ v \in Worlds /\ v.dev = World.dev /\ v.conns = World.conns /\ v.ok = World.ok
           /\ v.cl[h] = c /\ \A k \in Handles \ {h} : v.cl[k] = World.cl[k]
    <3>1. World \in Worlds /\ h \in Handles /\ c \in ClientRec BY <1>2, <1>4
    <3> QED BY ONLY <3>1, PutIs
  <2> QED BY <1>1, <1>4, <2>1
<1> DEFINE u == Reply(w, h, w.cl[h].run)
<1>6. /\ u \in Worlds /\ u.dev = dev /\ u.conns = conns
      /\ u.cl[h] = Replied(c, c.run) /\ \A k \in Handles \ {h} : u.cl[k] = cl[k]
  <2> HIDE DEF u
  <2>1. u = Reply(w, h, c.run) BY <1>5 DEF u
  <2>2. /\ u \in Worlds /\ u.dev = w.dev /\ u.conns = w.conns
        /\ u.cl = [w.cl EXCEPT ![h] = Replied(w.cl[h], c.run)]
    <3>1. w \in Worlds /\ h \in Handles /\ c.run \in Nat BY <1>4, <1>5
    <3>2. LET x == Reply(w, h, c.run)
          IN /\ x \in Worlds /\ x.dev = w.dev /\ x.conns = w.conns
             /\ x.cl = [w.cl EXCEPT ![h] = Replied(w.cl[h], c.run)]
      BY ONLY <3>1, ReplyIs
    <3> QED BY <2>1, <3>2
  <2>3. w.cl \in [Handles -> ClientRec] BY <1>5 DEF Worlds
  <2> QED BY <1>5, <2>2, <2>3
<1>7. u.cl[h].state = cl[h].state /\ u.cl[h].device = cl[h].device
  <2>1. ASSUME NEW x PROVE [c EXCEPT !.replies = x].state = c.state /\ [c EXCEPT !.replies = x].device = c.device
    BY <1>4 DEF ClientRec
  <2>2. PICK x : Replied(c, c.run) = [c EXCEPT !.replies = x] BY DEF Replied
  <2>3. u.cl[h] = [c EXCEPT !.replies = x] BY ONLY <1>6, <2>2
  <2>4. u.cl[h].state = c.state /\ u.cl[h].device = c.device BY ONLY <2>1, <2>3
  <2> QED BY <1>4, <2>4
<1>8. Executed(w, h, command) = IF ~RightState(cl[h]) THEN ClientClose(u, h)
                               ELSE IF command # 0 THEN Connect(w, h, command) ELSE u
  BY DEF Executed
<1> HIDE DEF u
<1>9. CASE cl[h].state = "CONNECTING1" BY <1>6, <1>7, <1>8, <1>9, WrongOut DEF RightState
<1>10. CASE cl[h].state = "COMMAND"
  <2>1. CASE command = 0
    <3>1. \A d \in Devices : u.dev[d].state = dev[d].state /\ u.dev[d].open = dev[d].open BY <1>6
    <3>2. u.cl[h] = Replied(Ran(cl[h]), cl[h].run + 1) BY <1>4, <1>6 DEF c
    <3>3. Outcome(u, h) BY <1>6, <1>10, <3>1, <3>2, RepliesOut
    <3> QED BY <1>8, <1>10, <2>1, <3>3 DEF RightState
  <2>2. CASE command # 0
    <3>1. command \in Devices BY <2>2 DEF Commands
    <3>2. w = Put(World, h, Ran(cl[h])) BY <1>4 DEF c
    <3>3. Outcome(Connect(w, h, command), h) BY <1>10, <3>1, <3>2, ConnectOut
    <3> QED BY <1>8, <1>10, <2>2, <3>3 DEF RightState
  <2> QED BY <2>1, <2>2
<1> QED BY <1>9, <1>10

-----------------------------------------------------------------------------
(***************************************************************************)
(* The invariant.                                                          *)
(***************************************************************************)

\* Each connection takes one of the commands that the applications may send: those
\* that are left are the ones of the clients that are there.
Left == {p \in Handles \X (1..MaxCommands) : cl[p[1]].state # "none" /\ p[2] > cl[p[1]].run}
Counted ==
  /\ syns \in Nat /\ accepts \in 0..MaxAccepts
  /\ \A c \in conns : c.id \in 1..syns
  /\ syns + Cardinality(Left) <= accepts * MaxCommands

\* A packet for a port that a connection has was sent in this connection, and one that
\* ends a connection is the device's last word on it.
Packets(d, p) ==
  /\ \A c \in conns : c.dev = d /\ c.port = p.port => c.id = p.id
  /\ p.kind = "rst" => \A o \in dev[d].open : o.port # p.port
AirOK ==
  /\ air \in [Devices -> Seq(Packet)]
  /\ \A d \in Devices : \A i \in DOMAIN air[d] : Packets(d, air[d][i])
  /\ \A d \in Devices : \A o, q \in dev[d].open : o.port = q.port => o = q

\* A client that select() reported was there then, and is still, until the first accept.
Phases == {"select", "accept", "device", "usb", "clients", "usbShutdown",
           "clientShutdown", "done", "undefined"}
LoopOK ==
  /\ phase \in Phases
  /\ readable \subseteq Handles /\ writable \subseteq Handles
  /\ \A h \in readable \cup writable : cl[h].state # "none" => cl[h].seen
  /\ phase = "accept" => \A h \in readable \cup writable : cl[h].state # "none"
  /\ phase \in {"clientShutdown", "done"} => conns = {}

MuxInv == Sound(World) /\ IsFiniteSet(There) /\ Counted /\ AirOK /\ LoopOK

\* The fields of the world of a step.
LEMMA WorldIs == World.cl = cl /\ World.dev = dev /\ World.conns = conns
BY DEF World

\* What a sound world says of each variable.
LEMMA SoundIs ==
  ASSUME Sound(World)
  PROVE  /\ cl \in [Handles -> ClientRec] /\ dev \in [Devices -> DeviceRec] /\ conns \subseteq Conn
         /\ \A h \in Handles : cl[h] \in ClientRec /\ ClientOK(cl[h])
         /\ World \in Worlds
<1>1. World \in Worlds /\ Good(World) BY DEF Sound, Held
<1>2. cl \in [Handles -> ClientRec] /\ dev \in [Devices -> DeviceRec] /\ conns \subseteq Conn
  BY <1>1, WorldIs DEF Worlds
<1> QED BY <1>1, <1>2, WorldIs DEF Good

\* What a world is sound for does not depend on its flag.
LEMMA SoundNext ==
  ASSUME NEW v, Sound(v), cl' = v.cl, dev' = v.dev, conns' = v.conns
  PROVE  Sound(World)'
<1> DEFINE u == [cl |-> v.cl, dev |-> v.dev, conns |-> v.conns, ok |-> TRUE]
<1>1. World' = u BY DEF World
<1>2. u.cl = v.cl /\ u.dev = v.dev /\ u.conns = v.conns OBVIOUS
<1>3. u \in Worlds BY DEF Sound, Held, Worlds
<1> HIDE DEF u
<1>4. Sound(u)
  BY <1>2, <1>3 DEF Sound, Held, OpenOK, HeardOK, Good, Matched, Owned, Apart, Linking
<1> QED BY <1>1, <1>4

\* The commands that are left are finitely many.
LEMMA LeftFinite ==
  IsFiniteSet(Left) /\ Cardinality(Left) \in Nat
<1>1. IsFiniteSet(Handles) /\ MaxCommands \in Nat BY ClientsAssumption
<1>2. IsFiniteSet(1..MaxCommands) BY <1>1, FS_Interval
<1>3. IsFiniteSet(Handles \X (1..MaxCommands)) BY <1>1, <1>2, FS_Product
<1>4. IsFiniteSet(Left) BY <1>3, FS_Subset DEF Left
<1> QED BY <1>4, FS_CardinalityType

\* A step that runs no command and accepts no client leaves the count of connections within its bound.
LEMMA CountedKept ==
  ASSUME Counted, \A c \in conns' : \E k \in conns : k.id = c.id,
         accepts' = accepts, syns' = syns,
         \A h \in Handles : cl'[h].state # "none" => cl[h].state # "none" /\ cl'[h].run = cl[h].run
  PROVE  Counted'
<1>1. Left' \subseteq Left BY DEF Left
<1>2. Cardinality(Left') <= Cardinality(Left) /\ Cardinality(Left') \in Nat
  BY <1>1, LeftFinite, FS_Subset, FS_CardinalityType
<1>3. accepts * MaxCommands \in Nat
  <2>1. accepts \in Nat /\ MaxCommands \in Nat BY ClientsAssumption DEF Counted
  <2> QED BY <2>1
<1>4. syns' + Cardinality(Left') <= accepts' * MaxCommands
  <2> DEFINE a == accepts * MaxCommands
  <2>1. syns + Cardinality(Left) <= a BY DEF Counted
  <2>2. accepts' * MaxCommands = a OBVIOUS
  <2>3. a \in Nat /\ syns \in Nat BY <1>3 DEF Counted
  <2> HIDE DEF a
  <2> QED BY <1>2, <2>1, <2>2, <2>3, LeftFinite
<1>5. \A c \in conns' : c.id \in 1..syns' BY DEF Counted
<1> QED BY <1>4, <1>5 DEF Counted

\* Packets under way stay right when connections, open ends and packets only become fewer.
LEMMA AirKept ==
  ASSUME AirOK,
         \A c \in conns' : \E k \in conns : k.dev = c.dev /\ k.port = c.port /\ k.id = c.id,
         \A d \in Devices : dev'[d].open \subseteq dev[d].open,
         air' \in [Devices -> Seq(Packet)],
         \A d \in Devices : \A i \in DOMAIN air'[d] : \E j \in DOMAIN air[d] : air'[d][i] = air[d][j]
  PROVE  AirOK'
<1>1. ASSUME NEW d \in Devices, NEW i \in DOMAIN air'[d] PROVE Packets(d, air[d][i])'
  <2>1. PICK j \in DOMAIN air[d] : air'[d][i] = air[d][j] OBVIOUS
  <2> DEFINE p == air[d][j]
  <2>2. Packets(d, p) BY DEF AirOK
  <2> HIDE DEF p
  <2>3. /\ \A c \in conns' : c.dev = d /\ c.port = p.port => c.id = p.id
        /\ p.kind = "rst" => \A o \in dev'[d].open : o.port # p.port
    BY <2>2 DEF Packets
  <2> QED BY <2>1, <2>3 DEF Packets, p
<1> QED BY <1>1 DEF AirOK

\* Nothing has arrived.
LEMMA AirSame ==
  ASSUME AirOK, air' = air
  PROVE  /\ air' \in [Devices -> Seq(Packet)]
         /\ \A d \in Devices : \A i \in DOMAIN air'[d] : \E j \in DOMAIN air[d] : air'[d][i] = air[d][j]
BY DEF AirOK

\* A handler that has done no more than it may.
Handled(v) ==
  /\ Sound(v) /\ Fewer(v, World) /\ Known(v, World)
  /\ \A d \in Devices : v.dev[d].open \subseteq dev[d].open

\* A step keeps the invariant when its handler makes a sound world that is no more than the one before.
LEMMA Frame ==
  ASSUME MuxInv, NEW v, Handled(v), cl' = v.cl, dev' = v.dev, conns' = v.conns, IsFiniteSet(There'),
         accepts' = accepts, syns' = syns,
         air' \in [Devices -> Seq(Packet)],
         \A d \in Devices : \A i \in DOMAIN air'[d] : \E j \in DOMAIN air[d] : air'[d][i] = air[d][j],
         readable' \subseteq readable, writable' \subseteq writable,
         phase' \in Phases \ {"accept"}, phase' \in {"clientShutdown", "done"} => v.conns = {}
  PROVE  MuxInv'
<1>1. Sound(World)' BY SoundNext DEF Handled
<1>2. \A h \in Handles : cl'[h].state # "none" =>
        cl[h].state # "none" /\ cl'[h].run = cl[h].run /\ cl'[h].seen = cl[h].seen
  BY WorldIs DEF Handled, Fewer
<1>3. \A c \in conns' : \E k \in conns : k.dev = c.dev /\ k.port = c.port /\ k.id = c.id
  BY WorldIs DEF Handled, Known
<1>4. Counted' BY <1>2, <1>3, CountedKept DEF MuxInv
<1>5. AirOK' BY <1>3, AirKept DEF MuxInv, Handled
<1>6. LoopOK' BY <1>2 DEF MuxInv, LoopOK
<1> QED BY <1>1, <1>4, <1>5, <1>6 DEF MuxInv

\* No device comes by a handler that makes less of the world.
LEMMA ThereLess ==
  ASSUME IsFiniteSet(There), NEW v, Less(v, World), dev' = v.dev
  PROVE  IsFiniteSet(There')
<1>1. There' \subseteq There BY WorldIs DEF There, Less, Alive
<1> QED BY <1>1, FS_Subset

\* A sound world that is less is one a handler may make.
LEMMA LessHandled ==
  ASSUME NEW v, Sound(v), Less(v, World)
  PROVE  Handled(v)
BY WorldIs DEF Less, Handled

\* The same of a step whose handler may end in undefined behaviour.
LEMMA BecomesKept ==
  ASSUME MuxInv, NEW v, Sound(v), Less(v, World), NEW next \in Phases \ {"accept"}, Becomes(v, next),
         next \in {"clientShutdown", "done"} => v.conns = {},
         accepts' = accepts, syns' = syns,
         air' \in [Devices -> Seq(Packet)],
         \A d \in Devices : \A i \in DOMAIN air'[d] : \E j \in DOMAIN air[d] : air'[d][i] = air[d][j],
         readable' \subseteq readable, writable' \subseteq writable
  PROVE  MuxInv'
<1>1. cl' = v.cl /\ dev' = v.dev /\ conns' = v.conns /\ phase' \in {next, "undefined"} BY DEF Becomes
<1>2. Handled(v) BY LessHandled
<1>3. IsFiniteSet(There') BY <1>1, ThereLess DEF MuxInv
<1>4. phase' \in Phases \ {"accept"} /\ (phase' \in {"clientShutdown", "done"} => v.conns = {})
  BY <1>1 DEF Phases
<1> QED BY <1>1, <1>2, <1>3, <1>4, Frame

\* device_tcp_input takes the first packet of a device.
LEMMA AirTaken ==
  ASSUME AirOK, NEW d \in Devices, air[d] # <<>>, air' = [air EXCEPT ![d] = Tail(@)]
  PROVE  /\ air' \in [Devices -> Seq(Packet)]
         /\ \A e \in Devices : \A i \in DOMAIN air'[e] : \E j \in DOMAIN air[e] : air'[e][i] = air[e][j]
<1> DEFINE s == air[d]
<1>1. air \in [Devices -> Seq(Packet)] /\ s \in Seq(Packet) /\ s # <<>> BY DEF AirOK
<1>2. Tail(s) \in Seq(Packet) /\ \A i \in DOMAIN Tail(s) : \E j \in DOMAIN s : Tail(s)[i] = s[j]
  <2> HIDE DEF s
  <2>1. Tail(s) \in Seq(Packet) /\ Len(Tail(s)) = Len(s) - 1 BY <1>1
  <2>2. ASSUME NEW i \in DOMAIN Tail(s) PROVE \E j \in DOMAIN s : Tail(s)[i] = s[j]
    <3>1. i \in 1..Len(s) - 1 BY <2>1
    <3>2. i + 1 \in DOMAIN s /\ Tail(s)[i] = s[i + 1] BY <1>1, <3>1
    <3> QED BY <3>2
  <2> QED BY <2>1, <2>2
<1>3. air'[d] = Tail(s) /\ \A e \in Devices \ {d} : air'[e] = air[e] BY <1>1
<1> HIDE DEF s
<1> QED BY <1>1, <1>2, <1>3 DEF s

\* The packets of devices that are removed are lost.
LEMMA AirCleared ==
  ASSUME AirOK, NEW s \in SUBSET Devices,
         air' = [d \in Devices |-> IF d \in s THEN <<>> ELSE air[d]]
  PROVE  /\ air' \in [Devices -> Seq(Packet)]
         /\ \A e \in Devices : \A i \in DOMAIN air'[e] : \E j \in DOMAIN air[e] : air'[e][i] = air[e][j]
<1>1. air \in [Devices -> Seq(Packet)] /\ <<>> \in Seq(Packet) BY DEF AirOK
<1>2. DOMAIN <<>> = {} OBVIOUS
<1> QED BY <1>1, <1>2

\* Clients change in themselves.
Follows(r, c) ==
  /\ c.state \in Linked =>
       /\ r.device = c.device
       /\ r.state = c.state \/ (c.state = "CONNECTING2" /\ r.state = "CONNECTED")
  /\ r.state \in Linked => c.state \in Linked

\* Clients that change in themselves, each still linked to what it was linked to, leave the world sound.
LEMMA Following ==
  ASSUME Sound(World), NEW v \in Worlds, v.dev = dev, v.conns = conns,
         \A h \in Handles : ClientOK(v.cl[h]) /\ Follows(v.cl[h], cl[h])
  PROVE  Sound(v)
<1>1. /\ OpenOK(World) /\ HeardOK(World) /\ IsFiniteSet(conns)
      /\ Owned(World) /\ Apart(World) /\ Linking(World)
  BY WorldIs DEF Sound, Held, Good, Matched
<1>2. OpenOK(v) /\ HeardOK(v) /\ Apart(v) BY <1>1, WorldIs DEF OpenOK, HeardOK, Apart
<1>3. Owned(v)
  <2> SUFFICES ASSUME NEW c \in v.conns
               PROVE  /\ v.dev[c.dev].state = "active"
                      /\ v.cl[c.h].device = c.dev /\ v.cl[c.h].state \in StatesOf(c)
    BY DEF Owned
  <2>1. c \in conns /\ c.h \in Handles BY SoundIs DEF Conn
  <2>2. dev[c.dev].state = "active" /\ cl[c.h].device = c.dev /\ cl[c.h].state \in StatesOf(c)
    BY <1>1, <2>1, WorldIs DEF Owned
  <2>3. cl[c.h].state \in Linked BY <2>2 DEF StatesOf, Linked
  <2>4. /\ v.cl[c.h].device = cl[c.h].device
        /\ v.cl[c.h].state = cl[c.h].state
           \/ (cl[c.h].state = "CONNECTING2" /\ v.cl[c.h].state = "CONNECTED")
    BY <2>1, <2>3 DEF Follows
  <2> QED BY <2>2, <2>4 DEF StatesOf
<1>4. Linking(v) BY <1>1, WorldIs DEF Linking, Follows
<1> QED BY <1>1, <1>2, <1>3, <1>4 DEF Sound, Held, Good, Matched

\* A step of one client that changes nothing but this client keeps the invariant.
LEMMA CellKept ==
  ASSUME MuxInv, NEW h \in Handles, NEW r \in ClientRec, ClientOK(r),
         r.device = cl[h].device, r.run = cl[h].run, r.seen = cl[h].seen,
         r.state = cl[h].state \/ (cl[h].state = "CONNECTING2" /\ r.state = "CONNECTED"),
         cl' = [cl EXCEPT ![h] = r],
         UNCHANGED <<phase, accepts, dev, conns, air, syns>>, phase # "accept",
         readable' \subseteq readable, writable' \subseteq writable
  PROVE  MuxInv'
<1> DEFINE v == [cl |-> cl', dev |-> dev, conns |-> conns, ok |-> TRUE]
<1>1. v.cl = cl' /\ v.dev = dev /\ v.conns = conns OBVIOUS
<1>2. Sound(World) BY DEF MuxInv
<1>3. cl'[h] = r /\ \A k \in Handles \ {h} : cl'[k] = cl[k] BY <1>2, SoundIs
<1>4. v \in Worlds
  <2>1. cl' \in [Handles -> ClientRec] BY <1>2, SoundIs
  <2> QED BY <1>2, <2>1, SoundIs DEF Worlds
<1> HIDE DEF v
<1>5. \A k \in Handles : ClientOK(v.cl[k]) /\ Follows(v.cl[k], cl[k])
  <2> TAKE k \in Handles
  <2>1. CASE k = h BY <1>1, <1>3, <2>1 DEF Follows, Linked
  <2>2. CASE k # h BY <1>1, <1>2, <1>3, <2>2, SoundIs DEF Follows
  <2> QED BY <2>1, <2>2
<1>6. Sound(v) BY <1>1, <1>2, <1>4, <1>5, Following
<1>7. Fewer(v, World) BY <1>1, <1>3, WorldIs DEF Fewer
<1>8. Known(v, World) BY <1>1, WorldIs DEF Known
<1>9. Handled(v) BY <1>1, <1>6, <1>7, <1>8 DEF Handled
<1>10. There' = There BY DEF There
<1>11. phase \in Phases /\ (phase \in {"clientShutdown", "done"} => v.conns = {})
  BY <1>1 DEF MuxInv, LoopOK
<1> QED BY <1>1, <1>9, <1>10, <1>11, AirSame, Frame DEF MuxInv

\* A device is added, or its version has come.
LEMMA DeviceKept ==
  ASSUME MuxInv, NEW d \in Devices, NEW r \in DeviceRec, r.open = dev[d].open,
         dev[d].state = "active" => r.state = "active",
         dev' = [dev EXCEPT ![d] = r],
         UNCHANGED <<phase, readable, writable, accepts, cl, conns, air, syns>>, phase # "accept"
  PROVE  MuxInv'
<1> DEFINE v == [cl |-> cl, dev |-> dev', conns |-> conns, ok |-> TRUE]
<1>1. v.cl = cl /\ v.dev = dev' /\ v.conns = conns OBVIOUS
<1>2. Sound(World) BY DEF MuxInv
<1>3. dev'[d] = r /\ \A k \in Devices \ {d} : dev'[k] = dev[k] BY <1>2, SoundIs
<1>4. v \in Worlds
  <2>1. dev' \in [Devices -> DeviceRec] BY <1>2, SoundIs
  <2> QED BY <1>2, <2>1, SoundIs DEF Worlds
<1> HIDE DEF v
<1>5. \A k \in Devices : v.dev[k].open = dev[k].open /\ (dev[k].state = "active" => v.dev[k].state = "active")
  BY <1>1, <1>3
<1>6. Sound(v)
  <2>1. /\ OpenOK(World) /\ HeardOK(World) /\ IsFiniteSet(conns)
        /\ Owned(World) /\ Apart(World) /\ Linking(World) /\ \A h \in Handles : ClientOK(cl[h])
    BY <1>2, WorldIs DEF Sound, Held, Good, Matched
  <2>2. OpenOK(v) /\ HeardOK(v) /\ Apart(v) /\ Linking(v)
    BY <1>1, <1>5, <2>1, WorldIs DEF OpenOK, HeardOK, Apart, Linking
  <2>3. Owned(v)
    <3> SUFFICES ASSUME NEW c \in v.conns
                 PROVE  /\ v.dev[c.dev].state = "active"
                        /\ v.cl[c.h].device = c.dev /\ v.cl[c.h].state \in StatesOf(c)
      BY DEF Owned
    <3>1. c \in conns /\ c.dev \in Devices BY <1>1, <1>2, SoundIs DEF Conn
    <3>2. dev[c.dev].state = "active" /\ cl[c.h].device = c.dev /\ cl[c.h].state \in StatesOf(c)
      BY <2>1, <3>1, WorldIs DEF Owned
    <3> QED BY <1>1, <1>5, <3>1, <3>2
  <2> QED BY <1>1, <1>4, <2>1, <2>2, <2>3 DEF Sound, Held, Good, Matched
<1>7. Fewer(v, World) /\ Known(v, World) BY <1>1, WorldIs DEF Fewer, Known
<1>8. Handled(v) BY <1>5, <1>6, <1>7 DEF Handled
<1>9. IsFiniteSet(There')
  <2>1. There' \subseteq There \cup {d} BY <1>3 DEF There
  <2>2. IsFiniteSet(There \cup {d}) BY FS_AddElement DEF MuxInv
  <2> QED BY <2>1, <2>2, FS_Subset
<1>10. phase \in Phases /\ (phase \in {"clientShutdown", "done"} => v.conns = {})
  BY <1>1 DEF MuxInv, LoopOK
<1> QED BY <1>1, <1>8, <1>9, <1>10, AirSame, Frame DEF MuxInv

\* The main loop goes on and nothing else happens.
LEMMA IdleKept ==
  ASSUME MuxInv, UNCHANGED <<accepts, cl, dev, conns, air, syns>>,
         readable' \subseteq readable, writable' \subseteq writable,
         phase' \in Phases \ {"accept", "clientShutdown", "done"}
  PROVE  MuxInv'
<1>1. World.cl = cl' /\ World.dev = dev' /\ World.conns = conns' BY WorldIs
<1>2. Handled(World) BY WorldIs DEF Handled, MuxInv, Fewer, Known
<1>3. There' = There BY DEF There
<1> QED BY <1>1, <1>2, <1>3, AirSame, Frame DEF MuxInv

\* The main loop goes on to the next part of an iteration.
LEMMA SkipKept == ASSUME MuxInv, Skip PROVE MuxInv'
<1>1. phase \in {"accept", "device", "usb"} /\ phase' = After(phase)
      /\ UNCHANGED <<readable, writable, accepts, cl, dev, conns, air, syns>>
  BY DEF Skip
<1>2. phase' \in {"device", "usb", "clients"} BY <1>1 DEF After
<1> QED BY <1>1, <1>2, IdleKept DEF Phases

\* The main loop begins a new iteration.
LEMMA EndKept == ASSUME MuxInv, EndOfIteration PROVE MuxInv'
BY IdleKept DEF EndOfIteration, Phases

\* A device of an unknown version: nothing is said of what follows.
LEMMA UnknownKept == ASSUME MuxInv, NEW d \in Devices, UnknownVersion(d) PROVE MuxInv'
BY IdleKept DEF UnknownVersion, Phases

\* A client that was closed earlier in this iteration is passed over.
LEMMA GoneKept == ASSUME MuxInv, NEW h \in Handles, Gone(h) PROVE MuxInv'
BY IdleKept DEF Gone, Processed, Phases

\* device_version_input makes a device active.
LEMMA VersionKept == ASSUME MuxInv, NEW d \in Devices, Version(d) PROVE MuxInv'
<1> DEFINE r == [dev[d] EXCEPT !.state = "active", !.socket = TRUE]
<1>1. phase = "device" /\ dev[d].state = "init"
      /\ UNCHANGED <<phase, readable, writable, accepts, cl, conns, air, syns>>
  BY DEF Version
<1>2. dev[d] \in DeviceRec /\ dev \in [Devices -> DeviceRec] BY SoundIs DEF MuxInv
<1>3. r \in DeviceRec /\ r.open = dev[d].open /\ r.state = "active" BY <1>2 DEF DeviceRec
<1>4. dev' = [dev EXCEPT ![d] = r]
  <2>1. dev' = [dev EXCEPT ![d].state = "active", ![d].socket = TRUE] BY DEF Version
  <2> QED BY <1>2, <2>1
<1> HIDE DEF r
<1> QED BY <1>1, <1>3, <1>4, DeviceKept

\* device_add in usb_process.
LEMMA AddKept == ASSUME MuxInv, NEW d \in Devices, AddDevice(d) PROVE MuxInv'
<1> DEFINE r == [dev[d] EXCEPT !.state = "init"]
<1>1. phase = "usb" /\ dev[d].state = "none"
      /\ UNCHANGED <<phase, readable, writable, accepts, cl, conns, air, syns>>
  BY DEF AddDevice
<1>2. dev[d] \in DeviceRec /\ dev \in [Devices -> DeviceRec] BY SoundIs DEF MuxInv
<1>3. r \in DeviceRec /\ r.open = dev[d].open BY <1>2 DEF DeviceRec
<1>4. dev' = [dev EXCEPT ![d] = r]
  <2>1. dev' = [dev EXCEPT ![d].state = "init"] BY DEF AddDevice
  <2> QED BY <1>2, <2>1
<1> HIDE DEF r
<1> QED BY <1>1, <1>3, <1>4, DeviceKept

\* An application that sends or closes, and a client that is read.
LEMMA AppSendKept == ASSUME MuxInv, phase = "clients", NEW h \in Handles, AppSend(h) PROVE MuxInv'
<1> DEFINE c == cl[h]
           n == c.unread + 1
           m == c.sent + 1
           r == [c EXCEPT !.unread = n, !.sent = m]
<1>1. c \in ClientRec /\ ClientOK(c) /\ cl \in [Handles -> ClientRec] BY SoundIs DEF MuxInv
<1>2. cl' = [cl EXCEPT ![h] = r]
  <2>1. cl' = [cl EXCEPT ![h].unread = @ + 1, ![h].sent = @ + 1] BY DEF AppSend
  <2>2. [c EXCEPT !.unread = n].sent = c.sent BY <1>1 DEF ClientRec
  <2> QED BY <1>1, <2>1, <2>2
<1>3. n \in Nat /\ m \in 0..MaxCommands
  <2>1. c.sent < MaxCommands /\ MaxCommands \in Nat BY ClientsAssumption DEF AppSend
  <2>2. c.unread \in Nat /\ c.sent \in 0..MaxCommands BY <1>1 DEF ClientRec
  <2> HIDE DEF c
  <2> QED BY <2>1, <2>2
<1>4. c.run + n <= m /\ c.run \in Nat
  <2>1. c.run + c.unread <= c.sent /\ c.run \in Nat /\ c.unread \in Nat /\ c.sent \in 0..MaxCommands
    BY <1>1 DEF ClientOK, ClientRec
  <2>2. MaxCommands \in Nat BY ClientsAssumption
  <2> HIDE DEF c
  <2> QED BY <2>1, <2>2
<1> HIDE DEF n, m, c
<1>5. /\ r \in ClientRec /\ r.unread = n /\ r.sent = m /\ r.run = c.run /\ r.state = c.state
      /\ r.tag = c.tag /\ r.got = c.got /\ r.replies = c.replies
      /\ r.device = c.device /\ r.seen = c.seen
  BY <1>1, <1>3 DEF ClientRec
<1> HIDE DEF r
<1>6. ClientOK(r) BY <1>1, <1>4, <1>5 DEF ClientOK, Answered, Due
<1>7. UNCHANGED <<phase, readable, writable, accepts, dev, conns, air, syns>> BY DEF AppSend
<1> QED BY <1>2, <1>5, <1>6, <1>7, CellKept DEF c

\* An application closes its socket.
LEMMA AppCloseKept == ASSUME MuxInv, phase = "clients", NEW h \in Handles, AppClose(h) PROVE MuxInv'
<1> DEFINE c == cl[h]
           r == [c EXCEPT !.app = "closed"]
<1>1. c \in ClientRec /\ ClientOK(c) /\ cl \in [Handles -> ClientRec] BY SoundIs DEF MuxInv
<1>2. cl' = [cl EXCEPT ![h] = r]
  <2>1. cl' = [cl EXCEPT ![h].app = "closed"] BY DEF AppClose
  <2> QED BY <1>1, <2>1
<1> HIDE DEF c
<1>3. /\ r \in ClientRec /\ r.unread = c.unread /\ r.sent = c.sent /\ r.run = c.run
      /\ r.state = c.state /\ r.tag = c.tag /\ r.got = c.got /\ r.replies = c.replies
      /\ r.device = c.device /\ r.seen = c.seen
  BY <1>1 DEF ClientRec
<1> HIDE DEF r
<1>4. ClientOK(r) BY <1>1, <1>3 DEF ClientOK, Answered, Due
<1>5. UNCHANGED <<phase, readable, writable, accepts, dev, conns, air, syns>> BY DEF AppClose
<1> QED BY <1>2, <1>3, <1>4, <1>5, CellKept DEF c

\* process_recv reads the header of a command.
LEMMA HeaderKept == ASSUME MuxInv, NEW h \in Handles, RecvHeader(h) PROVE MuxInv'
<1> DEFINE c == cl[h]
           r == [c EXCEPT !.part = TRUE]
<1>1. c \in ClientRec /\ ClientOK(c) /\ cl \in [Handles -> ClientRec] BY SoundIs DEF MuxInv
<1>2. cl' = [cl EXCEPT ![h] = r]
  <2>1. cl' = [cl EXCEPT ![h].part = TRUE] BY DEF RecvHeader
  <2> QED BY <1>1, <2>1
<1> HIDE DEF c
<1>3. /\ r \in ClientRec /\ r.unread = c.unread /\ r.sent = c.sent /\ r.run = c.run
      /\ r.state = c.state /\ r.tag = c.tag /\ r.got = c.got /\ r.replies = c.replies
      /\ r.device = c.device /\ r.seen = c.seen
  BY <1>1 DEF ClientRec
<1> HIDE DEF r
<1>4. ClientOK(r) BY <1>1, <1>3 DEF ClientOK, Answered, Due
<1>5. /\ UNCHANGED <<phase, accepts, dev, conns, air, syns>> /\ phase = "clients"
      /\ readable' \subseteq readable /\ writable' \subseteq writable
  BY DEF RecvHeader, Processed
<1> QED BY <1>2, <1>3, <1>4, <1>5, CellKept DEF c

\* A step that ends in client_close of a client whose data is not tunnelled keeps the invariant.
LEMMA ClosingKept ==
  ASSUME MuxInv, NEW h \in Handles, cl[h].state # "CONNECTED", Becomes(ClientClose(World, h), "clients"),
         UNCHANGED <<accepts, air, syns>>, readable' \subseteq readable, writable' \subseteq writable
  PROVE  MuxInv'
<1> DEFINE v == ClientClose(World, h)
<1>1. Sound(World) BY DEF MuxInv
<1>2. Held(World) /\ GoodBut(World, h) BY <1>1 DEF Sound, Good, GoodBut
<1>3. World.cl[h].state # "CONNECTED" BY WorldIs
<1>4. Sound(v) /\ Less(v, World) BY <1>2, <1>3, CloseKeeps
<1>5. "clients" \in Phases \ {"accept"} BY DEF Phases
<1> HIDE DEF v
<1>6. Becomes(v, "clients") BY DEF v
<1> QED BY <1>4, <1>5, <1>6, AirSame, BecomesKept DEF MuxInv

\* process_recv closes a client it cannot read from.
LEMMA RecvFailsKept == ASSUME MuxInv, NEW h \in Handles, RecvFails(h) PROVE MuxInv'
BY ClosingKept DEF RecvFails, Processed

\* A sequence that is cut in two is the two parts one after the other.
LEMMA Cut ==
  ASSUME NEW s \in Seq(Nat), NEW n \in 1..Len(s)
  PROVE  LET a == SubSeq(s, 1, n)
             b == SubSeq(s, n + 1, Len(s))
         IN a \in Seq(Nat) /\ b \in Seq(Nat) /\ a \o b = s
<1> DEFINE a == SubSeq(s, 1, n)
           b == SubSeq(s, n + 1, Len(s))
<1>1. /\ a \in Seq(Nat) /\ Len(a) = n /\ \A i \in 1..n : a[i] = s[i]
      /\ b \in Seq(Nat) /\ Len(b) = Len(s) - n /\ \A i \in 1..Len(s) - n : b[i] = s[n + i]
  <2>1. Len(s) \in Nat /\ n \in 1..Len(s) /\ \A i \in 1..Len(s) : s[i] \in Nat OBVIOUS
  <2>2. /\ a \in Seq(Nat) /\ Len(a) = n /\ \A i \in 1..n : a[i] = s[i] BY <2>1
  <2>3. /\ b \in Seq(Nat) /\ Len(b) = Len(s) - n
    <3>1. \A i \in n + 1..Len(s) : s[i] \in Nat BY <2>1
    <3>2. b \in Seq(Nat) /\ Len(b) = IF n + 1 <= Len(s) THEN Len(s) - (n + 1) + 1 ELSE 0
      BY <2>1, <3>1, SubSeqProperties
    <3> QED BY <2>1, <3>2
  <2>4. \A i \in 1..Len(s) - n : b[i] = s[n + i] BY <2>1
  <2> QED BY <2>2, <2>3, <2>4
<1> HIDE DEF a, b
<1>2. /\ a \o b \in Seq(Nat) /\ Len(a \o b) = Len(s)
      /\ \A i \in 1..Len(s) : (a \o b)[i] = IF i <= n THEN a[i] ELSE b[i - n]
  <2>1. /\ a \o b \in Seq(Nat) /\ Len(a \o b) = Len(a) + Len(b)
        /\ \A i \in 1 .. Len(a) + Len(b) : (a \o b)[i] = IF i <= Len(a) THEN a[i] ELSE b[i - Len(a)]
    BY <1>1, ConcatProperties
  <2>2. Len(a) = n /\ Len(a) + Len(b) = Len(s) BY <1>1
  <2> QED BY <2>1, <2>2
<1>3. \A i \in 1..Len(s) : (a \o b)[i] = s[i]
  <2> TAKE i \in 1..Len(s)
  <2>1. CASE i <= n BY <1>1, <1>2, <2>1
  <2>2. CASE i > n
    <3> DEFINE j == i - n
    <3>1. j \in 1..Len(s) - n /\ n + j = i BY <2>2
    <3>2. (a \o b)[i] = b[j] BY <1>2, <2>2
    <3> HIDE DEF j
    <3>3. b[j] = s[n + j] BY <1>1, <3>1
    <3> QED BY <3>1, <3>2, <3>3
  <2>3. i \in Int /\ n \in Int OBVIOUS
  <2>4. i <= n \/ i > n BY <2>3
  <2> QED BY <2>1, <2>2, <2>4
<1>4. a \o b = s BY <1>2, <1>3, SeqEqual
<1> QED BY <1>1, <1>4 DEF a, b

Within(n, s) == n \in 1..Len(s)
Taken(s, n) == SubSeq(s, 1, n)
Kept(s, n) == SubSeq(s, n + 1, Len(s))

\* To send the first of the queued replies moves them after those that were sent.
LEMMA CutAfter ==
  ASSUME NEW g \in Seq(Nat), NEW s \in Seq(Nat), NEW n, Within(n, s)
  PROVE  /\ g \o Taken(s, n) \in Seq(Nat) /\ Kept(s, n) \in Seq(Nat)
         /\ (g \o Taken(s, n)) \o Kept(s, n) = g \o s
<1>1. ASSUME NEW a \in Seq(Nat), NEW b \in Seq(Nat), a \o b = s
      PROVE  g \o a \in Seq(Nat) /\ (g \o a) \o b = g \o s
  <2>1. g \o a \in Seq(Nat) BY ConcatProperties
  <2>2. (g \o a) \o b = g \o (a \o b)
    BY ONLY g \in Seq(Nat), a \in Seq(Nat), b \in Seq(Nat), SMTT(60)
  <2> QED BY <1>1, <2>1, <2>2
<1>2. PICK a, b : a = Taken(s, n) /\ b = Kept(s, n) OBVIOUS
<1>3. a \in Seq(Nat) /\ b \in Seq(Nat) /\ a \o b = s
  <2>1. LET x == SubSeq(s, 1, n)
            y == SubSeq(s, n + 1, Len(s))
        IN x \in Seq(Nat) /\ y \in Seq(Nat) /\ x \o y = s
    BY Cut DEF Within
  <2> QED BY <1>2, <2>1 DEF Taken, Kept
<1>4. g \o a \in Seq(Nat) /\ (g \o a) \o b = g \o s BY <1>1, <1>3
<1> QED BY <1>2, <1>3, <1>4

\* What is sent leaves the buffer from its front.
Cutting(c, n) == [c EXCEPT !.got = @ \o SubSeq(c.replies, 1, n), !.replies = SubSeq(@, n + 1, Len(@))]
SentTo(k) == [k EXCEPT !.state = IF AllSent(k) /\ @ = "CONNECTING2" THEN "CONNECTED" ELSE @]

\* process_send leaves a client with all its replies in order, and connects it when the last is sent.
LEMMA SentOK ==
  ASSUME NEW c \in ClientRec, ClientOK(c), c.state \notin {"none", "CONNECTED"},
         NEW n, Within(n, c.replies)
  PROVE  LET r == SentTo(Cutting(c, n))
         IN /\ r \in ClientRec /\ ClientOK(r)
            /\ r.run = c.run /\ r.device = c.device /\ r.seen = c.seen
            /\ r.state = c.state \/ (c.state = "CONNECTING2" /\ r.state = "CONNECTED")
<1> DEFINE k == Cutting(c, n)
           r == SentTo(k)
           g == c.got \o Taken(c.replies, n)
           b == Kept(c.replies, n)
           q == IF b = <<>> /\ c.state = "CONNECTING2" THEN "CONNECTED" ELSE c.state
<1>1. c.got \in Seq(Nat) /\ c.replies \in Seq(Nat) BY DEF ClientRec
<1>2. g \in Seq(Nat) /\ b \in Seq(Nat) /\ g \o b = c.got \o c.replies
  BY <1>1, CutAfter
<1>3. k = [c EXCEPT !.got = g, !.replies = b]
  <2>1. ASSUME NEW x PROVE [c EXCEPT !.got = x].replies = c.replies BY DEF ClientRec
  <2>2. k = [c EXCEPT !.got = g, !.replies = SubSeq(@, n + 1, Len(@))] BY DEF Cutting, Taken
  <2> HIDE DEF g, k
  <2> QED BY <2>1, <2>2 DEF Kept
<1> HIDE DEF g, b, k
<1>4. /\ k \in ClientRec /\ k.got = g /\ k.replies = b
      /\ k.unread = c.unread /\ k.sent = c.sent /\ k.run = c.run /\ k.state = c.state
      /\ k.tag = c.tag /\ k.device = c.device /\ k.seen = c.seen
  BY <1>2, <1>3 DEF ClientRec
<1>5. r = [k EXCEPT !.state = q] BY <1>4 DEF SentTo, AllSent
<1>6. /\ q \in Linked \cup {"none", "COMMAND", "DEAD"}
      /\ q = c.state \/ (c.state = "CONNECTING2" /\ q = "CONNECTED" /\ b = <<>>)
  BY DEF ClientRec, Linked
<1> HIDE DEF q, r
<1>7. /\ r \in ClientRec /\ r.state = q /\ r.got = k.got /\ r.replies = k.replies
      /\ r.unread = k.unread /\ r.sent = k.sent /\ r.run = k.run
      /\ r.tag = k.tag /\ r.device = k.device /\ r.seen = k.seen
  BY <1>4, <1>5, <1>6 DEF ClientRec
<1>8. Answered(r)
  <2>1. Due(r) = Due(c) BY <1>4, <1>6, <1>7 DEF Due
  <2>2. c.got \o c.replies = [i \in 1..Due(c) |-> i] BY DEF ClientOK, Answered
  <2> QED BY <1>2, <1>4, <1>7, <2>1, <2>2 DEF Answered
<1>9. ClientOK(r)
  <2>1. q # "DEAD" /\ (q = "CONNECTED" => b = <<>>) /\ (q = "CONNECTING1" => c.state = "CONNECTING1")
    BY <1>6 DEF ClientOK
  <2> QED BY <1>4, <1>7, <1>8, <2>1 DEF ClientOK
<1> QED BY <1>4, <1>6, <1>7, <1>9 DEF r, k

\* process_send, also when it fails.
LEMMA SendKept == ASSUME MuxInv, NEW h \in Handles, Send(h) PROVE MuxInv'
<1> DEFINE c == cl[h]
<1>1. c \in ClientRec /\ ClientOK(c) /\ cl \in [Handles -> ClientRec] BY SoundIs DEF MuxInv
<1>2. /\ c.state \notin {"none", "CONNECTED"} /\ phase = "clients"
      /\ readable' \subseteq readable /\ writable' \subseteq writable
      /\ UNCHANGED <<accepts, air, syns>>
  BY DEF Send, Processed
<1>3. CASE cl[h].app = "closed" /\ Becomes(ClientClose(World, h), "clients")
  BY <1>2, <1>3, ClosingKept
<1>4. ASSUME NEW n \in 1..Len(c.replies), cl' = [cl EXCEPT ![h] = SentTo(Cutting(c, n))],
             UNCHANGED <<phase, dev, conns>>
      PROVE  MuxInv'
  <2> DEFINE r == SentTo(Cutting(c, n))
  <2>1. Within(n, c.replies) BY DEF Within
  <2>2. /\ r \in ClientRec /\ ClientOK(r)
        /\ r.run = c.run /\ r.device = c.device /\ r.seen = c.seen
        /\ r.state = c.state \/ (c.state = "CONNECTING2" /\ r.state = "CONNECTED")
    <3> HIDE DEF c
    <3> QED BY <1>1, <1>2, <2>1, SentOK
  <2>3. cl' = [cl EXCEPT ![h] = r] BY <1>4
  <2> HIDE DEF r
  <2> QED BY <1>2, <1>4, <2>2, <2>3, CellKept
<1> QED BY <1>3, <1>4 DEF Send, SentTo, Cutting

\* device_client_process: data for the device, or the end of the connection.
LEMMA TunnelKept == ASSUME MuxInv, NEW h \in Handles, Tunnel(h) PROVE MuxInv'
<1>1. /\ cl[h].state = "CONNECTED" /\ phase = "clients" /\ UNCHANGED <<accepts, air, syns>>
      /\ readable' \subseteq readable /\ writable' \subseteq writable
  BY DEF Tunnel, Processed
<1>2. Sound(World) BY DEF MuxInv
<1>3. CASE h \in readable /\ cl[h].unread = 0
  <2>1. PICK c \in ConnOf(World, h) : Becomes(Teardown(World, c, TRUE), "clients")
    BY <1>3 DEF Tunnel
  <2>2. c \in World.conns /\ World \in Worlds /\ Good(World) /\ TRUE \in BOOLEAN
    BY <1>2 DEF ConnOf, Sound, Held
  <2> DEFINE v == Teardown(World, c, TRUE)
  <2>3. /\ v \in Worlds /\ Good(v) /\ Fewer(v, World) /\ SameDevices(v, World)
        /\ v.ok = World.ok /\ v.conns = World.conns \ {c}
        /\ OpenOK(World) => OpenOK(v)
    BY <2>2, TeardownKeeps
  <2> HIDE DEF v
  <2>4. Torn(v, World, {c}, TRUE) BY <2>3 DEF Torn
  <2>5. Sound(v) /\ Less(v, World) BY <1>2, <2>4, TornLess
  <2>6. Becomes(v, "clients") BY <2>1 DEF v
  <2>7. "clients" \in Phases \ {"accept"} BY DEF Phases
  <2> QED BY <1>1, <2>5, <2>6, <2>7, AirSame, BecomesKept DEF MuxInv
<1>4. CASE ~(h \in readable /\ cl[h].unread = 0) /\ h \notin readable
  <2>1. UNCHANGED <<phase, cl, dev, conns>> BY <1>4 DEF Tunnel
  <2>2. phase \in Phases \ {"accept", "clientShutdown", "done"} BY <1>1 DEF Phases
  <2> QED BY <1>1, <2>1, <2>2, IdleKept
<1>5. CASE ~(h \in readable /\ cl[h].unread = 0) /\ h \in readable
  <2> DEFINE c == cl[h]
             n == c.unread - 1
             r == [c EXCEPT !.unread = n]
  <2>1. c \in ClientRec /\ ClientOK(c) /\ cl \in [Handles -> ClientRec] BY <1>2, SoundIs
  <2>2. cl' = [cl EXCEPT ![h] = r] /\ UNCHANGED <<phase, dev, conns>>
    <3>1. cl' = [cl EXCEPT ![h].unread = @ - 1] /\ UNCHANGED <<phase, dev, conns>> BY <1>5 DEF Tunnel
    <3> QED BY <2>1, <3>1
  <2>3. n \in Nat /\ n <= c.unread /\ c.unread \in Nat /\ c.run \in Nat /\ c.sent \in Nat
        /\ c.run + c.unread <= c.sent
    <3>1. c.unread \in Nat /\ c.unread # 0 /\ c.run \in Nat /\ c.sent \in Nat
      BY <1>5, <2>1, ClientsAssumption DEF ClientRec
    <3>2. c.run + c.unread <= c.sent BY <2>1 DEF ClientOK
    <3> HIDE DEF c
    <3> QED BY <3>1, <3>2
  <2>4. c.run + n <= c.sent
    <3> HIDE DEF c, n
    <3> QED BY <2>3
  <2> HIDE DEF c, n
  <2>5. /\ r \in ClientRec /\ r.unread = n /\ r.sent = c.sent /\ r.run = c.run /\ r.state = c.state
        /\ r.tag = c.tag /\ r.got = c.got /\ r.replies = c.replies
        /\ r.device = c.device /\ r.seen = c.seen
    BY <2>1, <2>3 DEF ClientRec
  <2> HIDE DEF r
  <2>6. ClientOK(r) BY <2>1, <2>4, <2>5 DEF ClientOK, Answered, Due
  <2> QED BY <1>1, <2>2, <2>5, <2>6, CellKept DEF c
<1> QED BY <1>3, <1>4, <1>5

\* A packet is for the connection it was sent in, or for none.
LEMMA InputKept == ASSUME MuxInv, NEW d \in Devices, TcpInput(d) PROVE MuxInv'
<1> DEFINE p == Head(air[d])
<1>1. /\ phase = "device" /\ dev[d].state = "active" /\ air[d] # <<>>
      /\ air' = [air EXCEPT ![d] = Tail(@)]
      /\ UNCHANGED <<readable, writable, accepts, syns>>
  BY DEF TcpInput
<1>2. IF p.port \in Ports(d) THEN Becomes(Input(World, d, p), "device")
      ELSE Becomes(IF p.kind = "rst" THEN World ELSE Rst(World, d, p.port), "device")
  BY DEF TcpInput
<1>3. Sound(World) /\ AirOK /\ World.conns = conns /\ World.dev = dev BY WorldIs DEF MuxInv
<1>4. p \in Packet /\ Packets(d, p)
  <2>1. air[d] \in Seq(Packet) BY <1>3 DEF AirOK
  <2>2. 1 \in DOMAIN air[d] /\ p = air[d][1] /\ p \in Packet BY <1>1, <2>1
  <2>3. Packets(d, air[d][1]) BY <1>3, <2>2 DEF AirOK
  <2> HIDE DEF p
  <2> QED BY <2>2, <2>3
<1> HIDE DEF p
<1>5. p.port \in Nat BY <1>4 DEF Packet
<1>6. "device" \in Phases \ {"accept"} BY DEF Phases
<1>7. ASSUME NEW v, Sound(v), Less(v, World), Becomes(v, "device") PROVE MuxInv'
  <2>1. /\ air' \in [Devices -> Seq(Packet)]
        /\ \A e \in Devices : \A i \in DOMAIN air'[e] : \E j \in DOMAIN air[e] : air'[e][i] = air[e][j]
    BY <1>1, <1>3, AirTaken
  <2> QED BY <1>1, <1>6, <1>7, <2>1, BecomesKept
<1>8. CASE p.port \in Ports(d)
  <2>1. \E k \in World.conns : k.dev = d /\ k.port = p.port BY <1>3, <1>8 DEF Ports
  <2>2. \A k \in World.conns : k.dev = d /\ k.port = p.port => k.id = p.id
    BY <1>3, <1>4 DEF Packets
  <2>3. p.kind = "rst" => \A o \in World.dev[d].open : o.port # p.port
    BY <1>3, <1>4 DEF Packets
  <2>4. Sound(Input(World, d, p)) /\ Less(Input(World, d, p), World)
    BY <1>3, <1>4, <2>1, <2>2, <2>3, InputKeeps
  <2>5. Becomes(Input(World, d, p), "device") BY <1>2, <1>8
  <2> QED BY <1>7, <2>4, <2>5
<1>9. CASE p.port \notin Ports(d) /\ p.kind = "rst"
  <2>1. Becomes(World, "device") BY <1>2, <1>9
  <2>2. Less(World, World) BY DEF Less, Fewer, Known
  <2> QED BY <1>3, <1>7, <2>1, <2>2
<1>10. CASE p.port \notin Ports(d) /\ p.kind # "rst"
  <2>1. Becomes(Rst(World, d, p.port), "device") BY <1>2, <1>10
  <2>2. Sound(Rst(World, d, p.port)) /\ Less(Rst(World, d, p.port), World) BY <1>3, <1>5, RstKeeps
  <2> QED BY <1>7, <2>1, <2>2
<1> QED BY <1>8, <1>9, <1>10

\* A removal, of one device or of all.
LEMMA WithoutLess ==
  ASSUME NEW v, NEW w, Sound(w), NEW s, Without(v, w, s)
  PROVE  Sound(v) /\ Less(v, w)
<1>1. v.conns \subseteq w.conns BY DEF Without
<1>2. IsFiniteSet(v.conns) BY <1>1, FS_Subset DEF Sound, Held
<1>3. Sound(v) BY <1>1, <1>2 DEF Without, Sound, Held, HeardOK
<1>4. Known(v, w) BY <1>1 DEF Known
<1>5. \A d \in Devices : v.dev[d].open \subseteq w.dev[d].open /\ (Alive(v.dev[d]) => Alive(w.dev[d]))
  BY DEF Without, Alive
<1> QED BY <1>3, <1>4, <1>5 DEF Less, Without

\* device_remove in usb_process.
LEMMA RemoveKept == ASSUME MuxInv, NEW d \in Devices, RemoveDevice(d) PROVE MuxInv'
<1> DEFINE v == Removed(World, d)
<1>1. /\ Becomes(v, "usb") /\ air' = [air EXCEPT ![d] = <<>>]
      /\ UNCHANGED <<readable, writable, accepts, syns>>
  BY DEF RemoveDevice
<1>2. Sound(World) /\ AirOK BY DEF MuxInv
<1>3. World \in Worlds /\ Good(World) /\ IsFiniteSet(World.conns) BY <1>2 DEF Sound, Held
<1>4. Without(v, World, {d}) BY <1>3, RemovedKeeps
<1> HIDE DEF v
<1>5. Sound(v) /\ Less(v, World) BY <1>2, <1>4, WithoutLess
<1>6. /\ air' \in [Devices -> Seq(Packet)]
      /\ \A e \in Devices : \A i \in DOMAIN air'[e] : \E j \in DOMAIN air[e] : air'[e][i] = air[e][j]
  <2>0. air \in [Devices -> Seq(Packet)] BY <1>2 DEF AirOK
  <2>1. air' = [e \in Devices |-> IF e \in {d} THEN <<>> ELSE air[e]] BY ONLY <1>1, <2>0
  <2>2. PICK s : s = {d} OBVIOUS
  <2>3. air' = [e \in Devices |-> IF e \in s THEN <<>> ELSE air[e]] BY <2>1, <2>2
  <2>4. s \in SUBSET Devices BY <2>2
  <2> QED BY <1>2, <2>3, <2>4, AirCleared
<1>7. "usb" \in Phases \ {"accept"} BY DEF Phases
<1> QED BY <1>1, <1>5, <1>6, <1>7, BecomesKept

\* The main thread has ended and device_kill_connections runs.
LEMMA StopKept == ASSUME MuxInv, Stop PROVE MuxInv'
<1> DEFINE v == Killed(World)
           A == {d \in Devices : dev[d].state = "active"}
<1>1. /\ Becomes(v, "usbShutdown") /\ UNCHANGED <<accepts, air, syns>>
      /\ readable' \subseteq readable /\ writable' \subseteq writable
  BY DEF Stop
<1>2. Sound(World) /\ AirOK BY DEF MuxInv
<1>3. World \in Worlds /\ Good(World) /\ IsFiniteSet(World.conns) BY <1>2 DEF Sound, Held
<1>4. IsFiniteSet(A)
  <2>1. A \subseteq There BY DEF There
  <2> QED BY <2>1, FS_Subset DEF MuxInv
<1>5. Torn(v, World, On(World, A), TRUE) BY <1>3, <1>4, KilledKeeps
<1> HIDE DEF v, A
<1>6. Sound(v) /\ Less(v, World)
  <2>1. TRUE \in BOOLEAN /\ (TRUE \/ OpenOK(v)) OBVIOUS
  <2> QED BY <1>2, <1>5, <2>1, TornLess
<1>7. "usbShutdown" \in Phases \ {"accept"} BY DEF Phases
<1> QED BY <1>1, <1>2, <1>6, <1>7, AirSame, BecomesKept

\* usb_shutdown removes the devices that are left.
LEMMA UsbShutdownKept == ASSUME MuxInv, UsbShutdown PROVE MuxInv'
<1> DEFINE v == FoldSet(LAMBDA d, w : Removed(w, d), World, There)
<1>1. /\ Becomes(v, "clientShutdown") /\ air' = [d \in Devices |-> <<>>]
      /\ UNCHANGED <<readable, writable, accepts, syns>>
  BY DEF UsbShutdown
<1>2. Sound(World) /\ AirOK /\ IsFiniteSet(There) BY DEF MuxInv
<1>3. World \in Worlds /\ Good(World) /\ IsFiniteSet(World.conns) BY <1>2 DEF Sound, Held
<1>4. Without(v, World, There) BY <1>2, <1>3, AllRemovedKeeps
<1> HIDE DEF v
<1>5. Sound(v) /\ Less(v, World) BY <1>2, <1>4, WithoutLess
<1>6. v.conns = {}
  <2> SUFFICES ASSUME NEW c \in v.conns PROVE FALSE
    OBVIOUS
  <2>1. c \in conns /\ c.dev \notin There BY <1>4, WorldIs DEF Without, On
  <2>2. dev[c.dev].state = "active" /\ c.dev \in Devices
    BY <1>2, <2>1, WorldIs, SoundIs DEF Sound, Good, Matched, Owned, Conn
  <2> QED BY <2>1, <2>2 DEF There
<1>7. /\ air' \in [Devices -> Seq(Packet)]
      /\ \A e \in Devices : \A i \in DOMAIN air'[e] : \E j \in DOMAIN air[e] : air'[e][i] = air[e][j]
  <2>1. air' = [e \in Devices |-> IF e \in Devices THEN <<>> ELSE air[e]] BY <1>1
  <2> QED BY <1>2, <2>1, AirCleared
<1>8. "clientShutdown" \in Phases \ {"accept"} BY DEF Phases
<1> QED BY <1>1, <1>5, <1>6, <1>7, <1>8, BecomesKept

\* client_shutdown closes the clients that are left.
LEMMA ClientShutdownKept == ASSUME MuxInv, ClientShutdown PROVE MuxInv'
<1> DEFINE v == FoldSet(LAMBDA h, w : ClientClose(w, h), World, Present)
<1>1. Becomes(v, "done") /\ UNCHANGED <<readable, writable, accepts, air, syns>> /\ phase = "clientShutdown"
  BY DEF ClientShutdown
<1>2. Sound(World) /\ AirOK /\ World.conns = {} BY <1>1, WorldIs DEF MuxInv, LoopOK
<1>3. World \in Worlds /\ Good(World) BY <1>2 DEF Sound, Held
<1>4. Closed(v, World, Present) BY <1>2, <1>3, AllClosedKeeps
<1> HIDE DEF v
<1>5. v.conns = {} /\ v.dev = World.dev BY <1>4 DEF Closed
<1>6. Fewer(v, World)
  <2> SUFFICES ASSUME NEW h \in Handles, v.cl[h].state # "none"
               PROVE  v.cl[h] = World.cl[h]
    BY DEF Fewer
  <2>1. h \notin Present BY <1>4 DEF Closed, NoClient
  <2> QED BY <1>4, <2>1 DEF Closed
<1>7. Less(v, World) BY <1>5, <1>6 DEF Less, Known
<1>8. Sound(v)
  <2>1. OpenOK(v) BY <1>2, <1>5 DEF OpenOK, Sound, Held
  <2>2. IsFiniteSet(v.conns) /\ HeardOK(v) BY <1>5, FS_EmptySet DEF HeardOK
  <2> QED BY <1>4, <2>1, <2>2 DEF Closed, Sound, Held
<1>9. "done" \in Phases \ {"accept"} BY DEF Phases
<1> QED BY <1>1, <1>2, <1>5, <1>7, <1>8, <1>9, AirSame, BecomesKept

\* A command that opens a connection is one of those that were left.
LEMMA CommandCounted ==
  ASSUME MuxInv, NEW h \in Handles, cl[h].unread > 0, cl[h].state # "none",
         \A k \in Handles \ {h} : cl'[k].state # "none" =>
           cl[k].state # "none" /\ cl'[k].run = cl[k].run,
         cl'[h].state # "none" => cl'[h].run = cl[h].run + 1
  PROVE  Cardinality(Left') \in Nat /\ Cardinality(Left') + 1 <= Cardinality(Left)
<1> DEFINE m == cl[h].run + 1
           x == <<h, m>>
<1>1. \A k \in Handles : cl[k].run \in Nat BY SoundIs DEF MuxInv, ClientRec
<1>2. m \in 1..MaxCommands
  <2>1. cl[h] \in ClientRec /\ ClientOK(cl[h]) BY SoundIs DEF MuxInv
  <2>2. cl[h].run + cl[h].unread <= cl[h].sent /\ cl[h].unread \in Nat /\ cl[h].sent \in 0..MaxCommands
    BY <2>1 DEF ClientOK, ClientRec
  <2>3. MaxCommands \in Nat BY ClientsAssumption
  <2> QED BY <1>1, <2>2, <2>3
<1>3. x \in Left BY <1>1, <1>2 DEF Left
<1>4. Left' \subseteq Left \ {x}
  <2> SUFFICES ASSUME NEW k \in Handles, NEW i \in 1..MaxCommands, cl'[k].state # "none", i > cl'[k].run
               PROVE  <<k, i>> \in Left \ {x}
    BY DEF Left
  <2>1. MaxCommands \in Nat BY ClientsAssumption
  <2>2. CASE k # h BY <2>2 DEF Left
  <2>3. CASE k = h
    <3>1. i > m BY <2>3
    <3>2. i > cl[k].run /\ i # m BY <1>1, <2>1, <2>3, <3>1
    <3> QED BY <2>3, <3>2 DEF Left
  <2> QED BY <2>2, <2>3
<1> HIDE DEF x
<1>5. IsFiniteSet(Left \ {x}) /\ Cardinality(Left \ {x}) = Cardinality(Left) - 1
  BY <1>3, LeftFinite, FS_RemoveElement
<1>6. Cardinality(Left') <= Cardinality(Left \ {x}) /\ Cardinality(Left') \in Nat
  BY <1>4, <1>5, FS_Subset, FS_CardinalityType
<1> QED BY <1>5, <1>6, LeftFinite

\* process_recv has the whole command and client_command runs it.
LEMMA CommandKept == ASSUME MuxInv, NEW h \in Handles, RecvCommand(h) PROVE MuxInv'
<1>1. /\ phase = "clients" /\ UNCHANGED <<accepts, air>>
      /\ readable' \subseteq readable /\ writable' \subseteq writable
      /\ cl[h].state \in {"COMMAND", "CONNECTING1"} /\ cl[h].unread > 0
  BY DEF RecvCommand, Processed
<1> DEFINE read == [World EXCEPT !.cl[h].unread = @ - 1, !.cl[h].part = FALSE, !.cl[h].run = @ + 1]
<1>2. PICK command \in Commands :
        LET v == Executed(read, h, command)
            new == v.conns \ conns
        IN /\ Becomes(v, "clients")
           /\ \A c \in new : ~InAir(c.port, c.dev)
           /\ syns' = syns + Cardinality(new)
  BY DEF RecvCommand
<1>3. PICK w : w = read OBVIOUS
<1>4. PICK v : v = Executed(w, h, command) OBVIOUS
<1>5. /\ Becomes(v, "clients") /\ \A c \in v.conns \ conns : ~InAir(c.port, c.dev)
      /\ syns' = syns + Cardinality(v.conns \ conns)
  BY <1>2, <1>3, <1>4
<1>6. Sound(World) /\ syns \in Nat /\ AirOK /\ Counted /\ LoopOK /\ IsFiniteSet(There)
  BY DEF MuxInv, Counted
<1>7. Outcome(v, h) BY <1>1, <1>3, <1>4, <1>6, ExecutedOut
<1> HIDE DEF read
<1>8. cl' = v.cl /\ dev' = v.dev /\ conns' = v.conns /\ phase' \in {"clients", "undefined"}
  BY <1>5 DEF Becomes
<1>9. Sound(World)' BY <1>7, <1>8, SoundNext DEF Outcome
<1>10. IsFiniteSet(There')
  <2>1. There' = There BY <1>7, <1>8 DEF There, Outcome
  <2> QED BY <1>6, <2>1
<1>11. Cardinality(Left') \in Nat /\ Cardinality(Left') + 1 <= Cardinality(Left)
  BY <1>1, <1>7, <1>8, CommandCounted DEF Outcome, Counts
<1>12. LoopOK'
  <2>1. \A k \in Handles : cl'[k].state # "none" => cl[k].state # "none" /\ cl'[k].seen = cl[k].seen
    BY <1>7, <1>8 DEF Outcome, Counts
  <2> QED BY <1>1, <1>6, <1>8, <2>1 DEF LoopOK, Phases
<1>13. CASE OpensNone(v)
  <2>1. conns' \subseteq conns /\ \A d \in Devices : dev'[d].open \subseteq dev[d].open
    BY <1>8, <1>13 DEF OpensNone
  <2>2. v.conns \ conns = {} BY <1>8, <2>1
  <2>3. syns' = syns BY <1>5, <1>6, <2>2, FS_EmptySet
  <2>4. AirOK' BY <1>1, <1>6, <2>1, AirSame, AirKept
  <2>5. Counted'
    <3> DEFINE a == accepts * MaxCommands
    <3>1. a \in Int BY <1>6, ClientsAssumption DEF Counted
    <3>2. syns + Cardinality(Left) <= a BY <1>6 DEF Counted
    <3>3. accepts' * MaxCommands = a BY <1>1
    <3> HIDE DEF a
    <3>4. syns' + Cardinality(Left') <= a BY <1>6, <1>11, <2>3, <3>1, <3>2, LeftFinite
    <3> QED BY <1>1, <1>6, <2>1, <2>3, <3>3, <3>4 DEF Counted
  <2> QED BY <1>9, <1>10, <1>12, <2>4, <2>5 DEF MuxInv
<1>14. CASE \E e : Opens(v, e)
  <2>1. PICK e : Opens(v, e) BY <1>14
  <2>2. /\ e \in Conn /\ e \notin conns /\ conns' = conns \cup {e}
        /\ e.id = syns + 1 /\ e.port \notin Ports(e.dev) /\ e.dev \in Devices
        /\ dev'[e.dev].open = dev[e.dev].open \cup {[port |-> e.port, id |-> e.id, up |-> FALSE]}
        /\ \A d \in Devices \ {e.dev} : dev'[d].open = dev[d].open
    BY <1>8, <2>1 DEF Opens, Conn
  <2>3. v.conns \ conns = {e} BY <1>8, <2>2
  <2>4. syns' = syns + 1 /\ ~InAir(e.port, e.dev) BY <1>5, <2>3, FS_Singleton
  <2>5. Counted'
    <3> DEFINE a == accepts * MaxCommands
    <3>1. a \in Int BY <1>6, ClientsAssumption DEF Counted
    <3>2. syns + Cardinality(Left) <= a BY <1>6 DEF Counted
    <3>3. accepts' * MaxCommands = a BY <1>1
    <3> HIDE DEF a
    <3>4. syns' + Cardinality(Left') <= a BY <1>6, <1>11, <2>4, <3>1, <3>2, LeftFinite
    <3>5. \A c \in conns' : c.id \in 1..syns' BY <1>6, <2>2, <2>4 DEF Counted
    <3> QED BY <1>1, <1>6, <2>4, <3>3, <3>4, <3>5 DEF Counted
  <2>6. AirOK'
    <3>1. ASSUME NEW d \in Devices, NEW i \in DOMAIN air[d] PROVE Packets(d, air[d][i])'
      <4> DEFINE p == air[d][i]
      <4>1. Packets(d, p) BY <1>6 DEF AirOK
      <4>2. d = e.dev => p.port # e.port BY <2>4 DEF InAir
      <4> HIDE DEF p
      <4>3. \A c \in conns' : c.dev = d /\ c.port = p.port => c.id = p.id
        BY <2>2, <4>1, <4>2 DEF Packets
      <4>4. ASSUME p.kind = "rst", NEW o \in dev'[d].open PROVE o.port # p.port
        <5>1. CASE o \in dev[d].open BY <4>1, <4>4, <5>1 DEF Packets
        <5>2. CASE o \notin dev[d].open
          <6>1. d = e.dev /\ o = [port |-> e.port, id |-> e.id, up |-> FALSE] BY <2>2, <4>4, <5>2
          <6> QED BY <4>2, <6>1
        <5> QED BY <5>1, <5>2
      <4>5. p' = p BY <1>1 DEF p
      <4>6. Packets(d, p)' BY <4>3, <4>4, <4>5 DEF Packets
      <4> QED BY <4>6 DEF p
    <3>2. \A d \in Devices : \A o \in dev[d].open : \E k \in conns : k.dev = d /\ k.port = o.port
      BY <1>6, WorldIs DEF Sound, Held, OpenOK
    <3>3. ASSUME NEW d \in Devices, NEW o \in dev'[d].open, NEW q \in dev'[d].open, o.port = q.port
          PROVE  o = q
      <4>1. CASE d # e.dev BY <1>6, <2>2, <3>3, <4>1 DEF AirOK
      <4>2. CASE d = e.dev
        <5>1. \A z \in dev[d].open : z.port # e.port BY <2>2, <3>2, <4>2 DEF Ports
        <5>2. PICK n : n = [port |-> e.port, id |-> e.id, up |-> FALSE] OBVIOUS
        <5>3. n.port = e.port BY <5>2
        <5>4. o \in dev[d].open \/ o = n BY <2>2, <3>3, <4>2, <5>2
        <5>5. q \in dev[d].open \/ q = n BY <2>2, <3>3, <4>2, <5>2
        <5>6. \A y, z \in dev[d].open : y.port = z.port => y = z BY <1>6 DEF AirOK
        <5> QED BY <3>3, <5>1, <5>3, <5>4, <5>5, <5>6
      <4> QED BY <4>1, <4>2
    <3> QED BY <1>1, <1>6, <3>1, <3>3 DEF AirOK
  <2> QED BY <1>9, <1>10, <1>12, <2>5, <2>6 DEF MuxInv
<1> QED BY <1>7, <1>13, <1>14 DEF Outcome

\* Another application.
LEMMA AcceptKept == ASSUME MuxInv, NEW h \in Handles, Accept(h) PROVE MuxInv'
<1> DEFINE q == [NoClient EXCEPT !.state = "COMMAND", !.app = "open"]
           v == [cl |-> cl', dev |-> dev, conns |-> conns, ok |-> TRUE]
           a == accepts * MaxCommands
           New == {<<h, i>> : i \in 1..MaxCommands}
<1>1. /\ phase = "accept" /\ cl[h].state = "none" /\ accepts < MaxAccepts /\ accepts' = accepts + 1
      /\ phase' = "device" /\ UNCHANGED <<readable, writable, dev, conns, air, syns>>
      /\ cl' = cl \/ cl' = [cl EXCEPT ![h] = q]
  BY DEF Accept, After
<1>2. Sound(World) /\ AirOK /\ Counted /\ LoopOK /\ IsFiniteSet(There) BY DEF MuxInv
<1>3. cl \in [Handles -> ClientRec] BY <1>2, SoundIs
<1>4. /\ q \in ClientRec /\ ClientOK(q) /\ q.state = "COMMAND"
  <2>1. NoClient \in ClientRec /\ ClientOK(NoClient) BY NoClientIs
  <2>2. /\ q \in ClientRec /\ q.state = "COMMAND" /\ q.got = NoClient.got /\ q.replies = NoClient.replies
        /\ q.run = NoClient.run /\ q.unread = NoClient.unread /\ q.sent = NoClient.sent
        /\ q.tag = NoClient.tag
    <3> DEFINE n == NoClient
    <3> HIDE DEF n
    <3>1. n \in ClientRec BY <2>1 DEF n
    <3>2. q = [n EXCEPT !.state = "COMMAND", !.app = "open"] BY DEF n
    <3> QED BY <3>1, <3>2 DEF ClientRec, n
  <2>3. NoClient.state = "none" BY DEF NoClient
  <2> HIDE DEF q
  <2>4. Answered(q) BY <2>1, <2>2, <2>3 DEF ClientOK, Answered, Due
  <2> QED BY <2>1, <2>2, <2>4 DEF ClientOK
<1> HIDE DEF q
<1>5. /\ \A k \in Handles \ {h} : cl'[k] = cl[k]
      /\ cl'[h] = cl[h] \/ cl'[h] = q
      /\ cl' \in [Handles -> ClientRec]
  BY <1>1, <1>3, <1>4
<1>6. Sound(World)'
  <2>1. v.cl = cl' /\ v.dev = dev /\ v.conns = conns OBVIOUS
  <2>2. v \in Worlds BY <1>2, <1>5, SoundIs DEF Worlds
  <2> HIDE DEF v
  <2>3. \A k \in Handles : ClientOK(v.cl[k]) /\ Follows(v.cl[k], cl[k])
    <3> TAKE k \in Handles
    <3>1. CASE v.cl[k] = cl[k] BY <1>2, <3>1, SoundIs DEF Follows
    <3>2. CASE k = h /\ v.cl[k] = q BY <1>1, <1>4, <3>2 DEF Follows, Linked
    <3> QED BY <1>5, <2>1, <3>1, <3>2
  <2>4. Sound(v) BY <1>2, <2>1, <2>2, <2>3, Following
  <2> QED BY <1>1, <2>1, <2>4, SoundNext
<1>7. AirOK'
  <2>1. /\ \A c \in conns' : \E k \in conns : k.dev = c.dev /\ k.port = c.port /\ k.id = c.id
        /\ \A d \in Devices : dev'[d].open \subseteq dev[d].open
    BY <1>1
  <2> QED BY <1>1, <1>2, <2>1, AirSame, AirKept
<1>8. LoopOK' BY <1>1, <1>2, <1>5 DEF LoopOK, Phases
<1>9. Cardinality(Left') <= Cardinality(Left) + MaxCommands /\ Cardinality(Left') \in Nat
  <2>1. MaxCommands \in Nat BY ClientsAssumption
  <2>2. IsFiniteSet(1..MaxCommands) /\ Cardinality(1..MaxCommands) = MaxCommands
    BY <2>1, FS_Interval
  <2>3. IsFiniteSet(New) /\ Cardinality(New) <= Cardinality(1..MaxCommands)
    <3> DEFINE f == [i \in 1..MaxCommands |-> <<h, i>>]
               I == 1..MaxCommands
    <3>1. f \in [I -> New] OBVIOUS
    <3>2. \A y \in New : \E i \in I : f[i] = y OBVIOUS
    <3>3. f \in Surjection(I, New) BY <3>1, <3>2 DEF Surjection
    <3> HIDE DEF f, New, I
    <3>4. IsFiniteSet(New) /\ Cardinality(New) <= Cardinality(I)
      BY <2>2, <3>3, FS_Surjection DEF I
    <3> QED BY <3>4 DEF I
  <2>4. Left' \subseteq Left \cup New
    <3> SUFFICES ASSUME NEW k \in Handles, NEW i \in 1..MaxCommands, cl'[k].state # "none", i > cl'[k].run
                 PROVE  <<k, i>> \in Left \cup New
      BY DEF Left
    <3>1. CASE k = h BY <3>1
    <3>2. CASE k # h BY <1>5, <3>2 DEF Left
    <3> QED BY <3>1, <3>2
  <2> HIDE DEF New
  <2>5. /\ IsFiniteSet(Left \cup New) /\ Cardinality(Left \cap New) \in Nat /\ Cardinality(New) \in Nat
        /\ Cardinality(Left \cup New) = Cardinality(Left) + Cardinality(New) - Cardinality(Left \cap New)
    <3>1. IsFiniteSet(Left \cap New) BY <2>3, FS_Subset
    <3> QED BY <2>3, <3>1, LeftFinite, FS_Union, FS_CardinalityType
  <2>6. Cardinality(Left') <= Cardinality(Left \cup New) /\ Cardinality(Left') \in Nat
    BY <2>4, <2>5, FS_Subset, FS_CardinalityType
  <2> QED BY <2>1, <2>2, <2>3, <2>5, <2>6, LeftFinite
<1>10. Counted'
  <2>1. accepts \in Nat /\ MaxCommands \in Nat /\ MaxAccepts \in Nat /\ syns \in Nat
    BY <1>2, ClientsAssumption DEF Counted
  <2>2. a \in Nat /\ accepts' * MaxCommands = a + MaxCommands BY <1>1, <2>1
  <2>3. syns + Cardinality(Left) <= a BY <1>2 DEF Counted
  <2> HIDE DEF a
  <2>4. syns' + Cardinality(Left') <= a + MaxCommands BY <1>1, <1>9, <2>1, <2>2, <2>3, LeftFinite
  <2>5. accepts' \in 0..MaxAccepts BY <1>1, <1>2, <2>1 DEF Counted
  <2> QED BY <1>1, <1>2, <2>2, <2>4, <2>5 DEF Counted
<1>11. There' = There BY <1>1 DEF There
<1> QED BY <1>2, <1>6, <1>7, <1>8, <1>10, <1>11 DEF MuxInv

\* To note that select() saw a client changes nothing else of it.
LEMMA SeenOK ==
  ASSUME NEW c \in ClientRec, ClientOK(c), NEW b \in BOOLEAN
  PROVE  LET r == [c EXCEPT !.seen = b]
         IN /\ r \in ClientRec /\ ClientOK(r)
            /\ r.state = c.state /\ r.run = c.run /\ r.device = c.device /\ r.seen = b
<1> DEFINE r == [c EXCEPT !.seen = b]
<1>1. /\ r \in ClientRec /\ r.unread = c.unread /\ r.sent = c.sent /\ r.run = c.run
      /\ r.state = c.state /\ r.tag = c.tag /\ r.got = c.got /\ r.replies = c.replies
      /\ r.device = c.device /\ r.seen = b
  BY DEF ClientRec
<1> HIDE DEF r
<1>2. ClientOK(r) BY <1>1 DEF ClientOK, Answered, Due
<1> QED BY <1>1, <1>2 DEF r

\* select() marks the clients that are there.
LEMMA SelectKept == ASSUME MuxInv, Select PROVE MuxInv'
<1> DEFINE v == [cl |-> cl', dev |-> dev, conns |-> conns, ok |-> TRUE]
<1>1. /\ phase' = "accept" /\ UNCHANGED <<accepts, dev, conns, air, syns>>
      /\ readable' \subseteq Present /\ writable' \subseteq Present
      /\ cl' = [h \in Handles |-> [cl[h] EXCEPT !.seen = h \in Present]]
  BY DEF Select, After
<1>2. Sound(World) /\ AirOK /\ Counted /\ LoopOK /\ IsFiniteSet(There) BY DEF MuxInv
<1>3. \A h \in Handles :
        /\ cl'[h] \in ClientRec /\ ClientOK(cl'[h])
        /\ cl'[h].state = cl[h].state /\ cl'[h].run = cl[h].run /\ cl'[h].device = cl[h].device
        /\ cl'[h].seen = (h \in Present)
  <2> TAKE h \in Handles
  <2> DEFINE c == cl[h]
             b == h \in Present
             r == [c EXCEPT !.seen = b]
  <2>1. c \in ClientRec /\ ClientOK(c) /\ b \in BOOLEAN BY <1>2, SoundIs
  <2>2. cl'[h] = r BY <1>1
  <2> HIDE DEF c, b
  <2>3. /\ r \in ClientRec /\ ClientOK(r)
        /\ r.state = c.state /\ r.run = c.run /\ r.device = c.device /\ r.seen = b
    BY <2>1, SeenOK
  <2> HIDE DEF r
  <2> QED BY <2>2, <2>3 DEF c, b
<1>4. Sound(World)'
  <2>1. v.cl = cl' /\ v.dev = dev /\ v.conns = conns OBVIOUS
  <2>2. v \in Worlds
    <3>1. cl' \in [Handles -> ClientRec] BY <1>1, <1>3
    <3> QED BY <1>2, <3>1, SoundIs DEF Worlds
  <2> HIDE DEF v
  <2>3. \A k \in Handles : ClientOK(v.cl[k]) /\ Follows(v.cl[k], cl[k])
    BY <1>3, <2>1 DEF Follows
  <2>4. Sound(v) BY <1>2, <2>1, <2>2, <2>3, Following
  <2> QED BY <1>1, <2>1, <2>4, SoundNext
<1>5. AirOK'
  <2>1. /\ \A c \in conns' : \E k \in conns : k.dev = c.dev /\ k.port = c.port /\ k.id = c.id
        /\ \A d \in Devices : dev'[d].open \subseteq dev[d].open
    BY <1>1
  <2> QED BY <1>1, <1>2, <2>1, AirSame, AirKept
<1>6. Counted' BY <1>1, <1>2, <1>3, CountedKept
<1>7. LoopOK'
  <2>1. /\ readable' \subseteq Handles /\ writable' \subseteq Handles
        /\ \A h \in readable' \cup writable' : h \in Handles /\ cl[h].state # "none"
    BY <1>1 DEF Present
  <2>2. \A h \in readable' \cup writable' : cl'[h].state # "none" /\ cl'[h].seen
    BY ONLY <1>3, <2>1 DEF Present
  <2>3. phase' = "accept" BY <1>1
  <2> QED BY ONLY <2>1, <2>2, <2>3 DEF LoopOK, Phases
<1>8. There' = There BY <1>1 DEF There
<1> QED BY <1>2, <1>4, <1>5, <1>6, <1>7, <1>8 DEF MuxInv

\* A device answers or ends a connection: what it thinks is open is what it was, or less
\* by the connection it ends.
LEMMA SentIn ==
  ASSUME NEW D \in DeviceRec, NEW o \in D.open, NEW b \in BOOLEAN,
         \A x, y \in D.open : x.port = y.port => x = y
  PROVE  LET N == (D.open \ {o}) \cup (IF b THEN {} ELSE {[o EXCEPT !.up = TRUE]})
         IN /\ N \subseteq OpenRec
            /\ \A x \in N : \E y \in D.open : y.port = x.port /\ y.id = x.id
            /\ \A x, y \in N : x.port = y.port => x = y
            /\ b => \A x \in N : x.port # o.port
            /\ o.port \in Nat /\ o.id \in Nat
<1> DEFINE u == [o EXCEPT !.up = TRUE]
           N == (D.open \ {o}) \cup (IF b THEN {} ELSE {u})
<1>1. D.open \subseteq OpenRec /\ o \in OpenRec BY DEF DeviceRec
<1>2. u \in OpenRec /\ u.port = o.port /\ u.id = o.id BY <1>1 DEF OpenRec
<1> HIDE DEF u
<1>3. N \subseteq OpenRec BY <1>1, <1>2
<1>4. \A x \in N : \E y \in D.open : y.port = x.port /\ y.id = x.id BY <1>2
<1>5. \A x \in D.open \ {o} : x.port # o.port OBVIOUS
<1>6. \A x, y \in N : x.port = y.port => x = y BY <1>2, <1>5
<1>7. b => \A x \in N : x.port # o.port BY <1>5
<1>8. o.port \in Nat /\ o.id \in Nat BY <1>1 DEF OpenRec
<1> QED BY <1>3, <1>4, <1>6, <1>7, <1>8 DEF u

\* A device answers in a connection it thinks is open, or ends it: the packet carries the number of
\* the connection that has the port, and after a TH_RST nothing is open there.
LEMMA DeviceSendsKept ==
  ASSUME MuxInv, phase = "device", NEW d \in Devices, DeviceSends(d) PROVE MuxInv'
<1> DEFINE D == dev[d]
<1>1. PICK o \in D.open, kind \in {"synack", "ack", "rst"} :
        /\ air' = [air EXCEPT ![d] = Append(@, [kind |-> kind, port |-> o.port, id |-> o.id])]
        /\ dev' = [dev EXCEPT ![d].open = (@ \ {o}) \cup
                     (IF kind = "rst" THEN {} ELSE {[o EXCEPT !.up = TRUE]})]
  BY DEF DeviceSends
<1>2. UNCHANGED <<phase, readable, writable, accepts, cl, conns, syns>> BY DEF DeviceSends
<1>3. Sound(World) /\ AirOK /\ Counted /\ LoopOK /\ IsFiniteSet(There) BY DEF MuxInv
<1>4. dev \in [Devices -> DeviceRec] /\ D \in DeviceRec BY <1>3, SoundIs
<1> DEFINE b == kind = "rst"
           N == (D.open \ {o}) \cup (IF b THEN {} ELSE {[o EXCEPT !.up = TRUE]})
           r == [D EXCEPT !.open = N]
           q == [kind |-> kind, port |-> o.port, id |-> o.id]
<1>5. /\ N \subseteq OpenRec
      /\ \A x \in N : \E y \in D.open : y.port = x.port /\ y.id = x.id
      /\ \A x, y \in N : x.port = y.port => x = y
      /\ b => \A x \in N : x.port # o.port
      /\ o.port \in Nat /\ o.id \in Nat
  <2>1. \A x, y \in D.open : x.port = y.port => x = y BY <1>3 DEF AirOK
  <2>2. b \in BOOLEAN OBVIOUS
  <2> HIDE DEF b, D
  <2> QED BY <1>1, <1>4, <2>1, <2>2, SentIn
<1>6. dev' = [dev EXCEPT ![d] = r] BY <1>1, <1>4
<1>7. q \in Packet /\ q.kind = kind /\ q.port = o.port /\ q.id = o.id BY <1>1, <1>5 DEF Packet
<1>8. air' = [air EXCEPT ![d] = Append(@, q)] BY <1>1
<1> HIDE DEF N, q
<1>9. /\ r \in DeviceRec /\ r.open = N /\ r.state = D.state
  BY <1>4, <1>5 DEF DeviceRec
<1> HIDE DEF r
<1>10. dev'[d] = r /\ \A e \in Devices \ {d} : dev'[e] = dev[e] BY <1>4, <1>6
<1>11. \A e \in Devices :
         /\ dev'[e].state = dev[e].state
         /\ \A x \in dev'[e].open : \E y \in dev[e].open : y.port = x.port /\ y.id = x.id
         /\ \A x, y \in dev'[e].open : x.port = y.port => x = y
  <2> TAKE e \in Devices
  <2>1. CASE e = d BY <1>5, <1>9, <1>10, <2>1
  <2>2. CASE e # d BY <1>3, <1>10, <2>2 DEF AirOK
  <2> QED BY <2>1, <2>2
<1> DEFINE v == [cl |-> cl, dev |-> dev', conns |-> conns, ok |-> TRUE]
<1>12. v.cl = cl /\ v.dev = dev' /\ v.conns = conns OBVIOUS
<1>13. v \in Worlds
  <2>1. dev' \in [Devices -> DeviceRec] BY <1>4, <1>6, <1>9
  <2> QED BY <1>3, <2>1, SoundIs DEF Worlds
<1> HIDE DEF v
<1>14. Sound(v)
  <2>1. /\ OpenOK(World) /\ HeardOK(World) /\ IsFiniteSet(conns)
        /\ Owned(World) /\ Apart(World) /\ Linking(World) /\ \A h \in Handles : ClientOK(cl[h])
    BY <1>3, WorldIs DEF Sound, Held, Good, Matched
  <2>2. HeardOK(v) /\ Apart(v) /\ Linking(v)
    BY <1>12, <2>1, WorldIs DEF HeardOK, Apart, Linking
  <2>3. Owned(v)
    <3> SUFFICES ASSUME NEW c \in v.conns
                 PROVE  /\ v.dev[c.dev].state = "active"
                        /\ v.cl[c.h].device = c.dev /\ v.cl[c.h].state \in StatesOf(c)
      BY DEF Owned
    <3>1. c \in conns /\ c.dev \in Devices BY <1>3, <1>12, SoundIs DEF Conn
    <3>2. dev[c.dev].state = "active" /\ cl[c.h].device = c.dev /\ cl[c.h].state \in StatesOf(c)
      BY <2>1, <3>1, WorldIs DEF Owned
    <3> QED BY <1>11, <1>12, <3>1, <3>2
  <2>4. OpenOK(v)
    <3> SUFFICES ASSUME NEW e \in Devices, NEW x \in dev'[e].open
                 PROVE  \E k \in conns : k.dev = e /\ k.port = x.port /\ k.id = x.id
      BY <1>12 DEF OpenOK
    <3>1. PICK y \in dev[e].open : y.port = x.port /\ y.id = x.id BY <1>11
    <3>2. \E k \in conns : k.dev = e /\ k.port = y.port /\ k.id = y.id
      BY <2>1, WorldIs DEF OpenOK
    <3> QED BY <3>1, <3>2
  <2> QED BY <1>12, <1>13, <2>1, <2>2, <2>3, <2>4 DEF Sound, Held, Good, Matched
<1>15. Sound(World)' BY <1>2, <1>12, <1>14, SoundNext
<1>16. AirOK'
  <2>1. air \in [Devices -> Seq(Packet)] BY <1>3 DEF AirOK
  <2> DEFINE a == air[d]
  <2>2. a \in Seq(Packet) BY <2>1
  <2>3. air'[d] = Append(a, q) /\ \A e \in Devices \ {d} : air'[e] = air[e] BY <1>8, <2>1
  <2>4. /\ Append(a, q) \in Seq(Packet) /\ DOMAIN Append(a, q) = 1..Len(a) + 1
        /\ DOMAIN a = 1..Len(a) /\ Len(a) \in Nat
        /\ Append(a, q)[Len(a) + 1] = q
        /\ \A i \in 1..Len(a) : Append(a, q)[i] = a[i]
    <3> HIDE DEF a
    <3> QED BY <1>7, <2>2
  <2> HIDE DEF a
  <2>5. air' \in [Devices -> Seq(Packet)] BY <1>8, <2>1, <2>3, <2>4
  <2>6. ASSUME NEW e \in Devices, NEW i \in DOMAIN air[e] PROVE Packets(e, air[e][i])'
    <3> DEFINE p == air[e][i]
    <3>1. Packets(e, p) BY <1>3 DEF AirOK
    <3>2. air'[e][i] = p
      <4>1. CASE e = d BY <2>3, <2>4, <4>1 DEF a
      <4>2. CASE e # d BY <2>3, <4>2
      <4> QED BY <4>1, <4>2
    <3> HIDE DEF p
    <3>3. \A c \in conns' : c.dev = e /\ c.port = p.port => c.id = p.id
      BY <1>2, <3>1 DEF Packets
    <3>4. p.kind = "rst" => \A x \in dev'[e].open : x.port # p.port
      BY <1>11, <3>1 DEF Packets
    <3> QED BY <3>2, <3>3, <3>4 DEF Packets
  <2>7. ASSUME NEW i, i = Len(a) + 1 PROVE Packets(d, air[d][i])'
    <3>1. air'[d][i] = q BY <2>3, <2>4, <2>7
    <3>2. \A c \in conns' : c.dev = d /\ c.port = q.port => c.id = q.id
      <4>1. OpenOK(World) /\ Apart(World) BY <1>3 DEF Sound, Held, Good, Matched
      <4>2. PICK k \in conns : k.dev = d /\ k.port = o.port /\ k.id = o.id
        BY <1>1, <4>1, WorldIs DEF OpenOK
      <4>3. \A c \in conns : c.dev = k.dev /\ c.port = k.port => c = k
        BY <4>1, <4>2, WorldIs DEF Apart
      <4> QED BY <1>2, <1>7, <4>2, <4>3
    <3>3. q.kind = "rst" => \A x \in dev'[d].open : x.port # q.port
      BY <1>5, <1>7, <1>9, <1>10
    <3> QED BY <3>1, <3>2, <3>3 DEF Packets
  <2>8. ASSUME NEW e \in Devices, NEW i \in DOMAIN air'[e] PROVE Packets(e, air[e][i])'
    <3>1. CASE e # d BY <2>3, <2>6, <3>1
    <3>2. CASE e = d
      <4>1. i \in 1..Len(a) + 1 BY <2>3, <2>4, <3>2
      <4>2. i \in DOMAIN air[d] \/ i = Len(a) + 1 BY <2>4, <4>1 DEF a
      <4>3. CASE i \in DOMAIN air[d] BY <2>6, <3>2, <4>3
      <4>4. CASE i = Len(a) + 1 BY <2>7, <3>2, <4>4
      <4> QED BY <4>2, <4>3, <4>4
    <3> QED BY <3>1, <3>2
  <2> QED BY <1>11, <2>5, <2>8 DEF AirOK
<1>17. Counted' BY <1>2, <1>3, CountedKept
<1>18. LoopOK' BY <1>2, <1>3 DEF LoopOK, Phases
<1>19. There' = There BY <1>11 DEF There
<1> QED BY <1>3, <1>15, <1>16, <1>17, <1>18, <1>19 DEF MuxInv

-----------------------------------------------------------------------------
(***************************************************************************)
(* The theorems.                                                           *)
(***************************************************************************)

\* The invariant holds when usbmuxd starts.
LEMMA MuxInit == ASSUME Init PROVE MuxInv
<1>1. /\ phase = "select" /\ readable = {} /\ writable = {} /\ accepts = 0
      /\ cl = [h \in Handles |-> NoClient]
      /\ dev = [d \in Devices |-> [state |-> "none", next |-> 1, open |-> {}, socket |-> FALSE]]
      /\ conns = {} /\ air = [d \in Devices |-> <<>>] /\ syns = 0
  BY DEF Init
<1>2. /\ World.cl = cl /\ World.dev = dev /\ World.conns = {}
      /\ \A h \in Handles : cl[h] = NoClient
      /\ \A d \in Devices : dev[d].open = {} /\ dev[d].state = "none"
  BY <1>1, WorldIs
<1>3. World \in Worlds
  <2>1. cl \in [Handles -> ClientRec] BY <1>1, NoClientIs
  <2>2. 1 \in 0..PortMod - 1 BY ClientsAssumption
  <2>3. [state |-> "none", next |-> 1, open |-> {}, socket |-> FALSE] \in DeviceRec
    BY <2>2 DEF DeviceRec
  <2>4. dev \in [Devices -> DeviceRec] BY <1>1, <2>3
  <2> QED BY <1>1, <2>1, <2>4 DEF World, Worlds
<1>4. NoClient.state = "none" BY DEF NoClient
<1>5. Sound(World)
  <2>1. IsFiniteSet({}) BY FS_EmptySet
  <2>2. OpenOK(World) /\ HeardOK(World) BY <1>2 DEF OpenOK, HeardOK
  <2>3. Owned(World) /\ Apart(World) /\ Linking(World)
    BY <1>2, <1>4 DEF Owned, Apart, Linking, Linked
  <2> QED BY <1>2, <1>3, <2>1, <2>2, <2>3, NoClientIs DEF Sound, Held, Good, Matched
<1>6. There = {} BY <1>2 DEF There
<1>7. Left = {} BY <1>2, <1>4 DEF Left
<1>8. Counted
  <2>1. Cardinality(Left) = 0 BY <1>7, FS_EmptySet
  <2>2. MaxCommands \in Nat /\ MaxAccepts \in Nat BY ClientsAssumption
  <2>3. accepts * MaxCommands = 0 BY <1>1, <2>2
  <2> QED BY <1>1, <2>1, <2>2, <2>3 DEF Counted
<1>9. AirOK
  <2>1. <<>> \in Seq(Packet) /\ DOMAIN <<>> = {} OBVIOUS
  <2> QED BY <1>1, <1>2, <2>1 DEF AirOK
<1>10. LoopOK BY <1>1 DEF LoopOK, Phases
<1> QED BY <1>5, <1>6, <1>8, <1>9, <1>10, FS_EmptySet DEF MuxInv

\* Each step of the main loop, of the shutdown and from outside keeps the invariant.
LEMMA MuxStep == ASSUME MuxInv, [Next]_vars PROVE MuxInv'
<1>1. CASE UNCHANGED vars
  BY <1>1 DEF vars, MuxInv, Sound, Held, OpenOK, HeardOK, Good, Matched, Owned, Apart, Linking,
              World, There, Counted, Left, AirOK, Packets, LoopOK
<1>2. CASE MainLoop
  <2>1. CASE Select BY <2>1, SelectKept
  <2>2. CASE Skip BY <2>2, SkipKept
  <2>3. CASE EndOfIteration BY <2>3, EndKept
  <2>4. ASSUME NEW h \in Handles, Accept(h) \/ ClientProcess(h) PROVE MuxInv'
    <3>1. CASE Accept(h) BY <3>1, AcceptKept
    <3>2. CASE Gone(h) BY <3>2, GoneKept
    <3>3. CASE RecvFails(h) BY <3>3, RecvFailsKept
    <3>4. CASE RecvHeader(h) BY <3>4, HeaderKept
    <3>5. CASE RecvCommand(h) BY <3>5, CommandKept
    <3>6. CASE Send(h) BY <3>6, SendKept
    <3>7. CASE Tunnel(h) BY <3>7, TunnelKept
    <3> QED BY <2>4, <3>1, <3>2, <3>3, <3>4, <3>5, <3>6, <3>7 DEF ClientProcess
  <2>5. ASSUME NEW d \in Devices,
               \/ Version(d) \/ UnknownVersion(d) \/ TcpInput(d)
               \/ AddDevice(d) \/ RemoveDevice(d)
        PROVE  MuxInv'
    BY <2>5, VersionKept, UnknownKept, InputKept, AddKept, RemoveKept
  <2> QED BY <1>2, <2>1, <2>2, <2>3, <2>4, <2>5 DEF MainLoop
<1>3. CASE Shutdown BY <1>3, StopKept, UsbShutdownKept, ClientShutdownKept DEF Shutdown
<1>4. CASE Outside BY <1>4, AppSendKept, AppCloseKept, DeviceSendsKept DEF Outside
<1> QED BY <1>1, <1>2, <1>3, <1>4 DEF Next

\* In every state clients, devices, connections and packets under way fit together (MuxInv), for any
\* number of each.
THEOREM MuxInvCorrect == Spec => []MuxInv
BY MuxInit, MuxStep, PTL DEF Spec

\* The elements of two sequences one after the other.
LEMMA JoinedIs ==
  ASSUME NEW a \in Seq(Nat), NEW b \in Seq(Nat)
  PROVE  /\ Len(a) \in Nat /\ Len(b) \in Nat /\ Len(a \o b) = Len(a) + Len(b)
         /\ \A i \in 1..Len(a) : (a \o b)[i] = a[i]
         /\ \A i \in 1..Len(b) : (a \o b)[Len(a) + i] = b[i]
<1>1. Len(a) \in Nat /\ Len(b) \in Nat /\ Len(a \o b) = Len(a) + Len(b) OBVIOUS
<1>2. \A i \in 1..Len(a) + Len(b) : (a \o b)[i] = IF i <= Len(a) THEN a[i] ELSE b[i - Len(a)]
  BY ConcatProperties
<1>3. ASSUME NEW i \in 1..Len(b) PROVE (a \o b)[Len(a) + i] = b[i]
  <2> DEFINE j == Len(a) + i
  <2>1. j \in 1..Len(a) + Len(b) /\ ~(j <= Len(a)) /\ j - Len(a) = i BY <1>1
  <2> HIDE DEF j
  <2>2. (a \o b)[j] = b[j - Len(a)] BY ONLY <1>2, <2>1
  <2>3. (a \o b)[j] = b[i] BY ONLY <2>1, <2>2
  <2> QED BY ONLY <2>3 DEF j
<1>4. \A i \in 1..Len(a) : (a \o b)[i] = a[i]
  <2> TAKE i \in 1..Len(a)
  <2>1. i \in 1..Len(a) + Len(b) /\ i <= Len(a) BY <1>1
  <2> QED BY ONLY <1>2, <2>1
<1> QED BY <1>1, <1>3, <1>4

\* A sequence of numbers that are all in a set is a sequence over this set.
LEMMA SequenceIn == \A a \in Seq(Nat) : \A S : (\A i \in 1..Len(a) : a[i] \in S) => a \in Seq(S)
<1> SUFFICES ASSUME NEW a \in Seq(Nat), NEW S, \A i \in 1..Len(a) : a[i] \in S
             PROVE  a \in Seq(S)
  OBVIOUS
<1>1. Len(a) \in Nat /\ a \in [1..Len(a) -> Nat] BY LenProperties
<1> DEFINE n == Len(a)
<1> HIDE DEF n
<1>2. a \in [1..n -> S] BY <1>1 DEF n
<1>3. n \in Nat BY <1>1 DEF n
<1> QED BY ONLY <1>2, <1>3, SeqDef

\* The replies sent and queued are numbers of commands.
LEMMA NumbersOf ==
  ASSUME NEW a \in Seq(Nat), NEW b \in Seq(Nat), NEW n \in Nat, NEW m \in Nat, n <= m,
         a \o b = [i \in 1..n |-> i]
  PROVE  a \in Seq(1..m) /\ b \in Seq(1..m)
<1> DEFINE c == a \o b
<1>1. /\ Len(a) \in Nat /\ Len(b) \in Nat /\ Len(c) = Len(a) + Len(b)
      /\ \A i \in 1..Len(a) : c[i] = a[i]
      /\ \A i \in 1..Len(b) : c[Len(a) + i] = b[i]
  BY JoinedIs
<1>2. c = [i \in 1..n |-> i] OBVIOUS
<1> HIDE DEF c
<1>3. Len(a) + Len(b) = n
  <2>1. [i \in 1..n |-> i] \in Seq(Nat) /\ Len([i \in 1..n |-> i]) = n BY ONLY n \in Nat
  <2> QED BY ONLY <1>1, <1>2, <2>1
<1>4. \A i \in 1..n : c[i] = i BY ONLY <1>2
<1>5. \A i \in 1..Len(a) : a[i] \in 1..m
  <2> TAKE i \in 1..Len(a)
  <2>1. i \in 1..n /\ i \in 1..m BY ONLY <1>1, <1>3, n \in Nat, m \in Nat, n <= m, i \in 1..Len(a)
  <2>2. a[i] = i BY ONLY <1>1, <1>4, <2>1, i \in 1..Len(a)
  <2> QED BY ONLY <2>1, <2>2
<1>6. \A i \in 1..Len(b) : b[i] \in 1..m
  <2> TAKE i \in 1..Len(b)
  <2> DEFINE j == Len(a) + i
  <2>1. j \in 1..n /\ j \in 1..m BY ONLY <1>1, <1>3, n \in Nat, m \in Nat, n <= m, i \in 1..Len(b)
  <2>2. c[j] = b[i] BY ONLY <1>1, i \in 1..Len(b)
  <2> HIDE DEF j
  <2>3. b[i] = j BY ONLY <1>4, <2>1, <2>2
  <2> QED BY ONLY <2>1, <2>3
<1> DEFINE S == 1..m
<1>7. (\A i \in 1..Len(a) : a[i] \in S) /\ (\A i \in 1..Len(b) : b[i] \in S) BY ONLY <1>5, <1>6
<1>8. a \in Seq(Nat) /\ b \in Seq(Nat) OBVIOUS
<1> HIDE DEF S
<1>9. a \in Seq(S) BY <1>7, SequenceIn
<1>10. b \in Seq(S) BY <1>7, SequenceIn
<1> QED BY ONLY <1>9, <1>10 DEF S

\* A client that is as it should be has the types of TypeOK.
LEMMA ClientTyped ==
  ASSUME NEW c \in ClientRec, ClientOK(c)
  PROVE  c \in [state : Linked \cup {"none", "COMMAND"},
                unread : 0..MaxCommands, part : BOOLEAN,
                app : {"none", "open", "closed"}, sent : 0..MaxCommands,
                run : 0..MaxCommands, replies : Seq(1..MaxCommands),
                got : Seq(1..MaxCommands), tag : 0..MaxCommands,
                device : Devices \cup {0}, seen : BOOLEAN]
<1>1. MaxCommands \in Nat BY ClientsAssumption
<1>2. /\ c.run \in Nat /\ c.unread \in Nat /\ c.sent \in 0..MaxCommands /\ c.tag \in Nat
      /\ c.replies \in Seq(Nat) /\ c.got \in Seq(Nat)
  BY DEF ClientRec
<1>3. /\ c.state # "DEAD" /\ c.run + c.unread <= c.sent /\ c.tag <= c.run
      /\ (c.state = "CONNECTING1" => c.run > 0) /\ Answered(c)
  BY DEF ClientOK
<1>4. c.unread \in 0..MaxCommands /\ c.run \in 0..MaxCommands /\ c.tag \in 0..MaxCommands
  BY <1>1, <1>2, <1>3
<1>5. Due(c) \in Nat /\ Due(c) <= MaxCommands BY <1>1, <1>2, <1>3, <1>4 DEF Due
<1>6. c.got \in Seq(1..MaxCommands) /\ c.replies \in Seq(1..MaxCommands)
  <2>1. c.got \o c.replies = [i \in 1..Due(c) |-> i] BY <1>3 DEF Answered
  <2> QED BY <1>1, <1>2, <1>5, <2>1, NumbersOf
<1> QED BY <1>2, <1>3, <1>4, <1>6 DEF ClientRec

\* Products of natural numbers grow with the first factor.
LEMMA TimesMonotone ==
  ASSUME NEW n \in Nat, NEW m \in Nat, NEW k \in Nat, n <= m
  PROVE  n * k <= m * k /\ n * k \in Nat /\ m * k \in Nat
OBVIOUS

\* The invariant gives the types.
LEMMA MuxTyped == ASSUME MuxInv PROVE TypeOK
<1>1. Sound(World) /\ Counted /\ LoopOK BY DEF MuxInv
<1>2. /\ cl \in [Handles -> ClientRec] /\ dev \in [Devices -> DeviceRec] /\ conns \subseteq Conn
      /\ \A h \in Handles : cl[h] \in ClientRec /\ ClientOK(cl[h])
  BY <1>1, SoundIs
<1>3. cl \in [Handles -> [state : Linked \cup {"none", "COMMAND"},
                         unread : 0..MaxCommands, part : BOOLEAN,
                         app : {"none", "open", "closed"}, sent : 0..MaxCommands,
                         run : 0..MaxCommands, replies : Seq(1..MaxCommands),
                         got : Seq(1..MaxCommands), tag : 0..MaxCommands,
                         device : Devices \cup {0}, seen : BOOLEAN]]
  BY <1>2, ClientTyped
<1>4. \A c \in conns :
        /\ c.dev \in Devices /\ c.port \in 1..PortMod - 1 /\ c.h \in Handles
        /\ c.id \in 1..syns /\ c.state \in {"CONNECTING", "CONNECTED"}
  BY <1>1, <1>2 DEF Conn, Counted
<1>5. ASSUME NEW d \in Devices
      PROVE  /\ dev[d].state \in {"none", "init", "active", "gone"} /\ dev[d].next \in 0..PortMod - 1
             /\ \A o \in dev[d].open : o.port \in 1..PortMod - 1 /\ o.id \in 1..syns
  <2>1. dev[d] \in DeviceRec BY <1>2
  <2>2. \A o \in dev[d].open : \E k \in conns : k.port = o.port /\ k.id = o.id
    BY <1>1, WorldIs DEF Sound, Held, OpenOK
  <2> QED BY <1>4, <2>1, <2>2 DEF DeviceRec
<1>6. syns \in 0..MaxAccepts * MaxCommands
  <2> DEFINE a == accepts * MaxCommands
             m == MaxAccepts * MaxCommands
  <2>1. /\ MaxAccepts \in Nat /\ MaxCommands \in Nat /\ syns \in Nat
        /\ accepts \in 0..MaxAccepts /\ syns + Cardinality(Left) <= a
    BY <1>1, ClientsAssumption DEF Counted
  <2>2. a <= m /\ a \in Nat /\ m \in Nat BY <2>1, TimesMonotone
  <2> HIDE DEF a, m
  <2>3. syns \in 0..m BY <2>1, <2>2, LeftFinite
  <2> QED BY <2>3 DEF m
<1>7. /\ phase \in {"select", "accept", "device", "usb", "clients", "usbShutdown",
                    "clientShutdown", "done", "undefined"}
      /\ readable \subseteq Handles /\ writable \subseteq Handles /\ accepts \in 0..MaxAccepts
  BY <1>1 DEF LoopOK, Phases, Counted
<1> QED BY <1>3, <1>4, <1>5, <1>6, <1>7 DEF TypeOK

\* Every variable keeps its type; above all no application gets more replies than it sent commands, a
\* device only knows ports and numbers that were given out, and the number of connections stays within
\* the commands of the applications that were accepted (client.cpp 860-941, device.cpp 255-358).
THEOREM TypeCorrect == Spec => []TypeOK
BY MuxInvCorrect, MuxTyped, PTL

\* Every command has one reply, in order, and a client is not connected before it was sent all of them
\* (client.cpp 329-350, 860-941).
THEOREM RepliesInOrderCorrect == Spec => []RepliesInOrder
<1>1. MuxInv => RepliesInOrder
  <2> SUFFICES ASSUME MuxInv, NEW h \in Present
               PROVE  /\ cl[h].got \o cl[h].replies =
                           [i \in 1..(IF cl[h].state = "CONNECTING1" THEN cl[h].run - 1 ELSE cl[h].run) |-> i]
                      /\ cl[h].state = "CONNECTED" => cl[h].replies = <<>>
    BY DEF RepliesInOrder
  <2>1. ClientOK(cl[h]) BY SoundIs DEF MuxInv, Present
  <2> QED BY <2>1 DEF ClientOK, Answered, Due
<1> QED BY <1>1, MuxInvCorrect, PTL

\* Clients and connections belong together one to one whatever side goes first: a client and its
\* request, the device, or a removal (client.cpp 223-240, device.cpp 316-358, 1042-1088).
THEOREM ConnectionsMatchClientsCorrect == Spec => []ConnectionsMatchClients
<1>1. MuxInv => ConnectionsMatchClients
  <2> SUFFICES ASSUME MuxInv PROVE ConnectionsMatchClients OBVIOUS
  <2>1. Owned(World) /\ Apart(World) /\ Linking(World) /\ conns \subseteq Conn
    BY SoundIs DEF MuxInv, Sound, Good, Matched
  <2>2. ASSUME NEW c \in conns
        PROVE  /\ dev[c.dev].state = "active" /\ cl[c.h].device = c.dev
               /\ cl[c.h].state \in StatesOf(c)
               /\ \A k \in conns : k.dev = c.dev /\ k.port = c.port => k = c
    BY <2>1, WorldIs DEF Owned, Apart
  <2>3. ASSUME NEW h \in Handles, cl[h].state \in Linked PROVE Cardinality(ConnOf(World, h)) = 1
    <3>1. PICK c \in conns : c.h = h BY <2>1, <2>3, WorldIs DEF Linking
    <3>2. \A k \in conns : k.h = c.h => k = c BY <2>1, WorldIs DEF Apart
    <3>3. c.dev = cl[h].device BY <2>2, <3>1
    <3>4. ConnOf(World, h) = {c} BY <3>1, <3>2, <3>3, WorldIs DEF ConnOf
    <3> QED BY <3>4, FS_Singleton
  <2> QED BY <2>2, <2>3 DEF ConnectionsMatchClients, StatesOf
<1> QED BY <1>1, MuxInvCorrect, PTL

\* A packet reaches the connection it was sent in though ports are used again, and an event of select()
\* the client it was seen at though handles are (device.cpp 255-273, 819-826, usbmuxd.cpp 428-473).
THEOREM NothingMisdirectedCorrect == Spec => []NothingMisdirected
<1>1. MuxInv => NothingMisdirected
  <2> SUFFICES ASSUME MuxInv PROVE NothingMisdirected OBVIOUS
  <2>1. \A c \in conns : c.heard \subseteq {c.id}
    BY WorldIs DEF MuxInv, Sound, Held, HeardOK
  <2>2. \A h \in (readable \cup writable) \cap Present : cl[h].seen
    BY DEF MuxInv, LoopOK, Present
  <2> QED BY <2>1, <2>2 DEF NothingMisdirected
<1> QED BY <1>1, MuxInvCorrect, PTL

\* The shutdown has ended every connection, and no client is linked to one, before the device list is
\* destroyed (usbmuxd.cpp 145-148, device.cpp 1219-1249, client.cpp 1122-1133).
THEOREM ShutdownLeavesNoConnectionCorrect == Spec => []ShutdownLeavesNoConnection
<1>1. MuxInv => ShutdownLeavesNoConnection
  <2> SUFFICES ASSUME MuxInv, phase \in {"clientShutdown", "done"}
               PROVE  conns = {} /\ \A h \in Handles : cl[h].state \notin Linked
    BY DEF ShutdownLeavesNoConnection
  <2>1. conns = {} BY DEF MuxInv, LoopOK
  <2>2. Linking(World) BY DEF MuxInv, Sound, Good, Matched
  <2> QED BY <2>1, <2>2, WorldIs DEF Linking
<1> QED BY <1>1, MuxInvCorrect, PTL

=============================================================================
