-------------------------- MODULE CtrlConnProofs --------------------------
(***************************************************************************)
(* Proofs about the two halves of a control connection.                    *)
(*                                                                         *)
(* CtrlOut, for messages and queues of any length: OutInv says that what   *)
(* was sent and what waits in the two queues are consecutive pieces of the *)
(* messages, up to the last byte of the last one.  Once the backend has    *)
(* dropped a packet it says so only of what waits.                         *)
(*                                                                         *)
(* CtrlIn, for packets, strings and buffers of any size: InInv says of     *)
(* every byte of inbuf and of the packet being split where in the stream   *)
(* it is from.                                                             *)
(***************************************************************************)
EXTENDS CtrlOut, CtrlIn, TLAPS, WellFoundedInduction

(* Two sequences with the same elements in the same places. *)
LEMMA SameSeq ==
  ASSUME NEW S, NEW a \in Seq(S), NEW b \in Seq(S), Len(a) = Len(b),
         \A i \in 1..Len(a) : a[i] = b[i]
  PROVE  a = b
  OBVIOUS

(* The packets of two queues, one behind the other. *)
LEMMA Joint ==
  ASSUME NEW S, NEW a \in Seq(S), NEW b \in Seq(S)
  PROVE  /\ a \o b \in Seq(S) /\ Len(a \o b) = Len(a) + Len(b)
         /\ \A i \in 1..Len(a) : (a \o b)[i] = a[i]
         /\ \A i \in 1..Len(b) : (a \o b)[Len(a) + i] = b[i]
  OBVIOUS

(* How many packets a flush moves. *)
LEMMA MinOfTwo ==
  ASSUME NEW a \in Int, NEW b \in Int
  PROVE  Min({a, b}) = IF a <= b THEN a ELSE b
  BY DEF Min

(* A queue in two parts. *)
LEMMA Cut ==
  ASSUME NEW S, NEW s \in Seq(S), NEW n \in 0..Len(s)
  PROVE  /\ SubSeq(s, 1, n) \in Seq(S) /\ Len(SubSeq(s, 1, n)) = n
         /\ \A i \in 1..n : SubSeq(s, 1, n)[i] = s[i]
         /\ SubSeq(s, n + 1, Len(s)) \in Seq(S) /\ Len(SubSeq(s, n + 1, Len(s))) = Len(s) - n
         /\ \A i \in 1..(Len(s) - n) : SubSeq(s, n + 1, Len(s))[i] = s[n + i]
  OBVIOUS
(* The two parts, put together again. *)
LEMMA Rejoin ==
  ASSUME NEW S, NEW s \in Seq(S), NEW n \in 0..Len(s)
  PROVE  s = SubSeq(s, 1, n) \o SubSeq(s, n + 1, Len(s))
<1> DEFINE a == SubSeq(s, 1, n)
           b == SubSeq(s, n + 1, Len(s))
<1>1. /\ a \in Seq(S) /\ Len(a) = n /\ \A i \in 1..n : a[i] = s[i]
      /\ b \in Seq(S) /\ Len(b) = Len(s) - n /\ \A i \in 1..(Len(s) - n) : b[i] = s[n + i]
      BY Cut
<1> HIDE DEF a, b
<1>2. /\ a \o b \in Seq(S) /\ Len(a \o b) = Len(a) + Len(b)
      /\ \A i \in 1..Len(a) : (a \o b)[i] = a[i]
      /\ \A i \in 1..Len(b) : (a \o b)[Len(a) + i] = b[i]
  <2>1. a \in Seq(S) /\ b \in Seq(S)
        BY <1>1
  <2> QED BY <2>1, Joint
<1> DEFINE ab == a \o b
<1> HIDE DEF ab
<1>3. Len(s) \in Nat /\ Len(ab) = Len(s)
      BY <1>1, <1>2 DEF ab
<1>4. ASSUME NEW i \in 1..Len(s) PROVE s[i] = ab[i]
  <2>1. CASE i <= n
        BY <1>1, <1>2, <2>1 DEF ab
  <2>2. CASE i > n
    <3> DEFINE j == i - n
    <3>1. j \in 1..Len(b) /\ j \in 1..(Len(s) - n) /\ i = n + j
          BY <1>1, <1>3, <2>2
    <3> HIDE DEF j
    <3> QED BY <1>1, <1>2, <3>1 DEF ab
  <2> QED BY <1>3, <2>1, <2>2
<1>5. s = ab
      BY <1>2, <1>3, <1>4, SameSeq DEF ab
<1> QED BY <1>5 DEF ab, a, b

(* Three queues, one behind the other. *)
Regroups(a, b, c) == (a \o b) \o c = a \o (b \o c)

LEMMA ThreeQueues ==
  ASSUME NEW S, NEW a \in Seq(S), NEW b \in Seq(S), NEW c \in Seq(S)
  PROVE  Regroups(a, b, c)
  BY DEF Regroups

(* The next packet, put back in front. *)
LEMMA NextInFront ==
  ASSUME NEW S, NEW a \in Seq(S), NEW s \in Seq(S), s # <<>>
  PROVE  /\ Head(s) \in S /\ Tail(s) \in Seq(S) /\ Len(Tail(s)) = Len(s) - 1
         /\ s = <<Head(s)>> \o Tail(s)
         /\ Append(a, Head(s)) \o Tail(s) = a \o s
  OBVIOUS

-----------------------------------------------------------------------------
Packet == [msg : Nat \ {0}, first : Nat, size : Nat \ {0}]

(* Where the byte stream of the messages w stands after packet p. *)
AfterIn(p, w) ==
  IF p.first + p.size = w[p.msg] THEN <<p.msg + 1, 0>> ELSE <<p.msg, p.first + p.size>>

(* The packets of q are consecutive pieces of the messages w, *)
Unbroken(q, w) ==
  /\ \A i \in 1..(Len(q) - 1) : AfterIn(q[i], w) = <<q[i + 1].msg, q[i + 1].first>>
  /\ \A i \in 1..Len(q) : q[i].size \in 1..payload_sz /\ q[i].msg \in 1..Len(w)

(* from the first byte of the first message *)
FromStart(q) == q # <<>> => q[1].msg = 1 /\ q[1].first = 0

(* up to the last byte of the last one. *)
UpToEnd(q, w) == q # <<>> => AfterIn(q[Len(q)], w) = <<Len(w) + 1, 0>>

(* cs are the pieces of the m-th message, of n bytes, in order, each small *)
(* enough for a packet.                                                    *)
Pieces(cs, m, n) ==
  /\ cs \in Seq(Packet) /\ Len(cs) >= 1 /\ cs[1].first = 0
  /\ \A i \in 1..Len(cs) : cs[i].msg = m /\ cs[i].size \in 1..payload_sz
  /\ \A i \in 1..(Len(cs) - 1) :
       cs[i].first + cs[i].size = cs[i + 1].first /\ cs[i + 1].first # n
  /\ cs[Len(cs)].first + cs[Len(cs)].size = n

(* That is how ctrl_engine_conn_write cuts a message. *)
LEMMA ChunksCut ==
  ASSUME NEW m \in Nat \ {0}, NEW n \in Nat \ {0}
  PROVE  Pieces(Chunks(m, n), m, n)
<1> DEFINE p == payload_sz
           d == n \div p
           r == n % p
           k == d + (IF r # 0 THEN 1 ELSE 0)
           size(i) == IF i = k /\ r # 0 THEN r ELSE p
           c == [i \in 1..k |-> [msg |-> m, first |-> (i - 1) * p, size |-> size(i)]]
<1>1. p \in Nat \ {0}
      BY OutAssumption
<1>2. n = p * d + r /\ d \in Nat /\ r \in 0..(p - 1)
      BY <1>1
<1>3. Chunks(m, n) = c
      BY DEF Chunks
<1> HIDE DEF p, d, r
<1>4. k \in Nat /\ k >= 1
      BY <1>1, <1>2
<1>5. \A i \in 1..k : (i - 1) * p \in Nat /\ (i - 1) * p + p = i * p
      BY <1>1, <1>4
<1>6. \A i \in 1..k : size(i) \in 1..p
      BY <1>1, <1>2, <1>4
<1>7. c \in Seq(Packet) /\ Len(c) = k
  <2> HIDE DEF k, size
  <2>1. \A i \in 1..k : [msg |-> m, first |-> (i - 1) * p, size |-> size(i)] \in Packet
        BY <1>1, <1>5, <1>6 DEF Packet
  <2> QED BY <1>4, <2>1
<1>8. \A i \in 1..(k - 1) : i * p # n
  <2> SUFFICES ASSUME NEW i \in 1..(k - 1) PROVE i * p # n
      OBVIOUS
  <2>1. CASE r = 0
    <3>1. i < d /\ n = d * p
          BY <1>2, <1>1, <2>1
    <3> QED BY <1>1, <1>2, <3>1
  <2>2. CASE r # 0
    <3>1. i <= d /\ i * p <= d * p
          BY <1>1, <1>2, <2>2
    <3>2. n = d * p + r /\ r > 0 /\ i * p \in Nat /\ d * p \in Nat
          BY <1>1, <1>2, <2>2
    <3> QED BY <1>2, <3>1, <3>2
  <2> QED BY <2>1, <2>2
<1>9. (k - 1) * p + size(k) = n
  <2>1. CASE r = 0
        BY <1>1, <1>2, <1>4, <2>1
  <2>2. CASE r # 0
        BY <1>1, <1>2, <2>2
  <2> QED BY <2>1, <2>2
<1>10. \A i \in 1..k : c[i].msg = m /\ c[i].first = (i - 1) * p /\ c[i].size = size(i)
       OBVIOUS
<1>11. \A i \in 1..(k - 1) : c[i].first + c[i].size = c[i + 1].first /\ c[i + 1].first # n
  <2> SUFFICES ASSUME NEW i \in 1..(k - 1)
               PROVE  c[i].first + c[i].size = c[i + 1].first /\ c[i + 1].first # n
      OBVIOUS
  <2>1. i \in 1..k /\ i + 1 \in 1..k /\ i # k /\ (i + 1) - 1 = i
        BY <1>4
  <2>2. c[i].first = (i - 1) * p /\ c[i].size = p /\ c[i + 1].first = i * p
        BY <1>10, <2>1
  <2> HIDE DEF c
  <2> QED BY <1>5, <1>8, <2>1, <2>2
<1>12. c[1].first = 0
       BY <1>1, <1>4, <1>10
<1>13. c[k].first + c[k].size = n
       BY <1>4, <1>9, <1>10
<1> HIDE DEF c, k, size
<1>14. \A i \in 1..k : c[i].size \in 1..p
       BY <1>6, <1>10
<1> QED BY <1>3, <1>4, <1>7, <1>10, <1>11, <1>12, <1>13, <1>14 DEF p, Pieces

(* A part of an unbroken stream is unbroken. *)
LEMMA PartUnbroken ==
  ASSUME NEW a \in Seq(Packet), NEW b \in Seq(Packet), NEW w, Unbroken(a \o b, w)
  PROVE  /\ Unbroken(a, w) /\ Unbroken(b, w)
         /\ FromStart(a \o b) => FromStart(a)
         /\ UpToEnd(a \o b, w) => UpToEnd(b, w)
<1>1. /\ a \o b \in Seq(Packet) /\ Len(a \o b) = Len(a) + Len(b)
      /\ \A i \in 1..Len(a) : (a \o b)[i] = a[i]
      /\ \A i \in 1..Len(b) : (a \o b)[Len(a) + i] = b[i]
      BY Joint
<1> DEFINE q == a \o b
<1> HIDE DEF q
<1>2. Unbroken(a, w)
      BY <1>1 DEF Unbroken, q
<1>3. Unbroken(b, w)
  <2>1. ASSUME NEW i \in 1..(Len(b) - 1)
        PROVE  AfterIn(b[i], w) = <<b[i + 1].msg, b[i + 1].first>>
    <3>1. /\ Len(a) + i \in 1..(Len(q) - 1) /\ (Len(a) + i) + 1 = Len(a) + (i + 1)
          /\ q[Len(a) + i] = b[i] /\ q[Len(a) + (i + 1)] = b[i + 1]
          BY <1>1 DEF q
    <3>2. AfterIn(q[Len(a) + i], w) = <<q[(Len(a) + i) + 1].msg, q[(Len(a) + i) + 1].first>>
          BY <3>1 DEF Unbroken, q
    <3> QED BY <3>1, <3>2
  <2>2. ASSUME NEW i \in 1..Len(b)
        PROVE  b[i].size \in 1..payload_sz /\ b[i].msg \in 1..Len(w)
    <3>1. Len(a) + i \in 1..Len(q) /\ q[Len(a) + i] = b[i]
          BY <1>1 DEF q
    <3>2. q[Len(a) + i].size \in 1..payload_sz /\ q[Len(a) + i].msg \in 1..Len(w)
          BY <3>1 DEF Unbroken, q
    <3> QED BY <3>1, <3>2
  <2> QED BY <2>1, <2>2 DEF Unbroken
<1>4. FromStart(q) => FromStart(a)
      BY <1>1 DEF FromStart, q
<1>5. UpToEnd(q, w) => UpToEnd(b, w)
  <2> SUFFICES ASSUME UpToEnd(q, w), b # <<>>
               PROVE  AfterIn(b[Len(b)], w) = <<Len(w) + 1, 0>>
      BY DEF UpToEnd
  <2>1. Len(b) \in 1..Len(b) /\ q # <<>> /\ Len(q) = Len(a) + Len(b)
        BY <1>1 DEF q
  <2>2. q[Len(q)] = b[Len(b)]
        BY <1>1, <2>1 DEF q
  <2> QED BY <2>1, <2>2 DEF UpToEnd
<1> QED BY <1>2, <1>3, <1>4, <1>5 DEF q

(* So is one that a further message is written to: its pieces follow the   *)
(* last byte of the message before.                                        *)
LEMMA WriteUnbroken ==
  ASSUME NEW q \in Seq(Packet), NEW w \in Seq(OutLens), NEW n \in OutLens,
         Unbroken(q, w), UpToEnd(q, w)
  PROVE  LET c  == Chunks(Len(w) + 1, n)
             w2 == Append(w, n)
         IN  /\ q \o c \in Seq(Packet)
             /\ Unbroken(q \o c, w2) /\ UpToEnd(q \o c, w2) /\ q \o c # <<>>
             /\ FromStart(q) /\ (q = <<>> => w = <<>>) => FromStart(q \o c)
<1> DEFINE c  == Chunks(Len(w) + 1, n)
           w2 == Append(w, n)
           qc == q \o c
<1>1. n \in Nat \ {0} /\ Len(w) \in Nat /\ Len(w) + 1 \in Nat \ {0}
      BY OutAssumption
<1>2. /\ c \in Seq(Packet) /\ Len(c) >= 1 /\ c[1].first = 0
      /\ \A i \in 1..Len(c) : c[i].msg = Len(w) + 1 /\ c[i].size \in 1..payload_sz
      /\ \A i \in 1..(Len(c) - 1) :
           c[i].first + c[i].size = c[i + 1].first /\ c[i + 1].first # n
      /\ c[Len(c)].first + c[Len(c)].size = n
  <2>1. Pieces(c, Len(w) + 1, n)
        BY <1>1, ChunksCut
  <2> HIDE DEF c
  <2> QED BY <2>1 DEF Pieces
<1>3. /\ Len(w2) = Len(w) + 1 /\ w2[Len(w) + 1] = n
      /\ \A i \in 1..Len(w) : w2[i] = w[i]
      OBVIOUS
<1> HIDE DEF c, w2
<1>4. /\ qc \in Seq(Packet) /\ Len(qc) = Len(q) + Len(c)
      /\ \A i \in 1..Len(q) : qc[i] = q[i]
      /\ \A i \in 1..Len(c) : qc[Len(q) + i] = c[i]
      BY <1>2, Joint
<1> HIDE DEF qc
<1>5. Len(q) \in Nat /\ Len(c) \in Nat
      BY <1>2
<1>6. \A i \in 1..Len(q) : AfterIn(q[i], w2) = AfterIn(q[i], w)
      BY <1>3 DEF Unbroken, AfterIn
<1>7. \A i \in 1..(Len(c) - 1) : AfterIn(c[i], w2) = <<c[i + 1].msg, c[i + 1].first>>
  <2> SUFFICES ASSUME NEW i \in 1..(Len(c) - 1)
               PROVE  AfterIn(c[i], w2) = <<c[i + 1].msg, c[i + 1].first>>
      OBVIOUS
  <2>1. i \in 1..Len(c) /\ i + 1 \in 1..Len(c)
        BY <1>5
  <2>2. c[i].msg = Len(w) + 1 /\ c[i + 1].msg = Len(w) + 1
        BY <1>2, <2>1
  <2>3. c[i].first + c[i].size = c[i + 1].first /\ c[i + 1].first # n
        BY <1>2
  <2> QED BY <1>3, <2>2, <2>3 DEF AfterIn
<1>8. AfterIn(c[Len(c)], w2) = <<Len(w2) + 1, 0>>
  <2>1. Len(c) \in 1..Len(c)
        BY <1>2, <1>5
  <2>2. c[Len(c)].msg = Len(w) + 1
        BY <1>2, <2>1
  <2> QED BY <1>2, <1>3, <2>2 DEF AfterIn
<1>9. ASSUME NEW i \in 1..(Len(qc) - 1)
      PROVE  AfterIn(qc[i], w2) = <<qc[i + 1].msg, qc[i + 1].first>>
  <2>1. CASE i < Len(q)
    <3>1. i \in 1..Len(q) /\ i + 1 \in 1..Len(q) /\ i \in 1..(Len(q) - 1)
          BY <1>5, <2>1
    <3>2. qc[i] = q[i] /\ qc[i + 1] = q[i + 1]
          BY <1>4, <3>1
    <3> QED BY <1>6, <3>1, <3>2 DEF Unbroken
  <2>2. CASE i = Len(q)
    <3>1. i \in 1..Len(q) /\ q # <<>> /\ 1 \in 1..Len(c)
          BY <1>2, <1>5, <2>2
    <3>2. qc[i] = q[i] /\ qc[i + 1] = c[1]
          BY <1>4, <2>2, <3>1
    <3>3. AfterIn(q[i], w) = <<Len(w) + 1, 0>>
          BY <2>2, <3>1 DEF UpToEnd
    <3>4. c[1].msg = Len(w) + 1 /\ c[1].first = 0
          BY <1>2, <3>1
    <3> QED BY <1>6, <3>1, <3>2, <3>3, <3>4
  <2>3. CASE i > Len(q)
    <3> DEFINE j == i - Len(q)
    <3>1. /\ j \in 1..(Len(c) - 1) /\ j \in 1..Len(c) /\ j + 1 \in 1..Len(c)
          /\ i = Len(q) + j /\ i + 1 = Len(q) + (j + 1)
          BY <1>4, <1>5, <2>3
    <3> HIDE DEF j
    <3>2. qc[i] = c[j] /\ qc[i + 1] = c[j + 1]
          BY <1>4, <3>1
    <3> QED BY <1>7, <3>1, <3>2
  <2> QED BY <1>5, <2>1, <2>2, <2>3
<1>10. ASSUME NEW i \in 1..Len(qc)
       PROVE  qc[i].size \in 1..payload_sz /\ qc[i].msg \in 1..Len(w2)
  <2>1. CASE i <= Len(q)
    <3>1. i \in 1..Len(q) /\ qc[i] = q[i]
          BY <1>4, <1>5, <2>1
    <3>2. q[i].size \in 1..payload_sz /\ q[i].msg \in 1..Len(w)
          BY <3>1 DEF Unbroken
    <3> QED BY <1>1, <1>3, <3>1, <3>2
  <2>2. CASE i > Len(q)
    <3> DEFINE j == i - Len(q)
    <3>1. j \in 1..Len(c) /\ i = Len(q) + j
          BY <1>4, <1>5, <2>2
    <3> HIDE DEF j
    <3>2. qc[i] = c[j]
          BY <1>4, <3>1
    <3>3. c[j].msg = Len(w) + 1 /\ c[j].size \in 1..payload_sz
          BY <1>2, <3>1
    <3> QED BY <1>1, <1>3, <3>2, <3>3
  <2> QED BY <1>5, <2>1, <2>2
<1>11. Unbroken(qc, w2)
       BY <1>9, <1>10 DEF Unbroken
<1>12. qc # <<>> /\ qc[Len(qc)] = c[Len(c)]
  <2>1. Len(c) \in 1..Len(c) /\ Len(qc) = Len(q) + Len(c) /\ Len(qc) # 0
        BY <1>2, <1>4, <1>5
  <2>2. qc[Len(q) + Len(c)] = c[Len(c)]
        BY <1>4, <2>1
  <2> QED BY <2>1, <2>2
<1>13. UpToEnd(qc, w2)
       BY <1>8, <1>12 DEF UpToEnd
<1>14. FromStart(q) /\ (q = <<>> => w = <<>>) => FromStart(qc)
  <2> SUFFICES ASSUME FromStart(q), q = <<>> => w = <<>>
               PROVE  qc[1].msg = 1 /\ qc[1].first = 0
      BY DEF FromStart
  <2>1. CASE q = <<>>
    <3>1. Len(q) = 0 /\ Len(w) = 0 /\ 1 \in 1..Len(c)
          BY <1>2, <1>5, <2>1
    <3>2. qc[1] = c[1] /\ c[1].msg = Len(w) + 1
          BY <1>2, <1>4, <3>1
    <3> QED BY <1>2, <3>1, <3>2
  <2>2. CASE q # <<>>
    <3>1. 1 \in 1..Len(q)
          BY <2>2
    <3> QED BY <1>4, <2>2, <3>1 DEF FromStart
  <2> QED BY <2>1, <2>2
<1> QED BY <1>4, <1>11, <1>12, <1>13, <1>14 DEF c, w2, qc

-----------------------------------------------------------------------------
(* A flush loses nothing and keeps the order, leaves the backend within    *)
(* its bound, and stops only at a full backend.                            *)
LEMMA FlushKeeps ==
  ASSUME NEW out \in Seq(Packet), NEW pkt \in Seq(Packet), Len(pkt) <= MAXQLEN,
         Flush(out, pkt), data_ev_wr \in BOOLEAN
  PROVE  /\ pkt_queue' \in Seq(Packet) /\ out_queue' \in Seq(Packet) /\ data_ev_wr' \in BOOLEAN
         /\ Waiting' = pkt \o out
         /\ Len(pkt_queue') <= MAXQLEN
         /\ out_queue' # <<>> => Len(pkt_queue') = MAXQLEN
<1> DEFINE n == Min({Len(out), MAXQLEN - Len(pkt)})
<1>1. n = IF Len(out) <= MAXQLEN - Len(pkt) THEN Len(out) ELSE MAXQLEN - Len(pkt)
      BY MinOfTwo, OutAssumption
<1>2. n \in 0..Len(out) /\ Len(pkt) + n <= MAXQLEN
      BY <1>1, OutAssumption
<1>3. /\ pkt_queue' = pkt \o SubSeq(out, 1, n)
      /\ out_queue' = SubSeq(out, n + 1, Len(out))
      /\ data_ev_wr' \in BOOLEAN
      BY DEF Flush
<1> HIDE DEF n
<1>4. /\ SubSeq(out, 1, n) \in Seq(Packet) /\ Len(SubSeq(out, 1, n)) = n
      /\ out_queue' \in Seq(Packet) /\ Len(out_queue') = Len(out) - n
      BY <1>2, <1>3, Cut
<1>5. pkt_queue' \in Seq(Packet) /\ Len(pkt_queue') = Len(pkt) + n
      BY <1>3, <1>4
<1>6. out = SubSeq(out, 1, n) \o SubSeq(out, n + 1, Len(out))
      BY <1>2, Rejoin
<1>7. Waiting' = pkt \o out
  <2>1. Waiting' = pkt \o (SubSeq(out, 1, n) \o SubSeq(out, n + 1, Len(out)))
    <3> DEFINE a == SubSeq(out, 1, n)
               b == SubSeq(out, n + 1, Len(out))
    <3>1. Waiting' = (pkt \o a) \o b
          BY <1>3 DEF Waiting
    <3>2. a \in Seq(Packet) /\ b \in Seq(Packet)
          BY <1>3, <1>4
    <3> HIDE DEF a, b
    <3>3. Regroups(pkt, a, b)
          BY <3>2, ThreeQueues
    <3> QED BY <3>1, <3>3 DEF Regroups, a, b
  <2> QED BY <1>6, <2>1
<1>8. out_queue' # <<>> => n # Len(out)
      BY <1>4
<1>9. Len(pkt_queue') <= MAXQLEN
      BY <1>2, <1>5
<1>10. out_queue' # <<>> => Len(pkt_queue') = MAXQLEN
       BY <1>1, <1>5, <1>8, OutAssumption
<1> QED BY <1>3, <1>4, <1>5, <1>7, <1>9, <1>10

-----------------------------------------------------------------------------
OutTypeOK ==
  /\ out_queue \in Seq(Packet)
  /\ pkt_queue \in Seq(Packet)
  /\ data_ev_wr \in BOOLEAN
  /\ sending \in BOOLEAN
  /\ out_open \in BOOLEAN
  /\ written \in Seq(OutLens)
  /\ sent \in Seq(Packet)
  /\ lost \in Nat

(* What is still part of the stream: all of it, or what waits if the       *)
(* backend has dropped a packet.                                           *)
Stream == IF lost = 0 THEN sent \o Waiting ELSE Waiting

(* The inductive invariant.  To the two invariants it adds that a packet   *)
(* belongs to a message that was written, that an open connection that     *)
(* lost nothing has packets of all that was written, and that a closed one *)
(* has none left to send.                                                  *)
OutInv ==
  /\ OutTypeOK
  /\ WaitsBehindFullQueue
  /\ Unbroken(Stream, written)
  /\ lost = 0 => FromStart(Stream)
  /\ out_open => UpToEnd(Stream, written)
  /\ out_open /\ lost = 0 /\ Stream = <<>> => written = <<>>
  /\ ~out_open => Waiting = <<>> /\ ~sending

LEMMA InitOut == OutInit => OutInv
<1> SUFFICES ASSUME OutInit PROVE OutInv
    OBVIOUS
<1>1. OutTypeOK
  <2>1. <<>> \in Seq(Packet) /\ <<>> \in Seq(OutLens)
        OBVIOUS
  <2> QED BY <2>1 DEF OutInit, OutTypeOK
<1>2. Stream = <<>> /\ Waiting = <<>>
      BY DEF OutInit, Stream, Waiting
<1>3. WaitsBehindFullQueue
      BY OutAssumption DEF OutInit, WaitsBehindFullQueue
<1>4. Unbroken(<<>>, written)
      BY DEF Unbroken
<1> QED BY <1>1, <1>2, <1>3, <1>4 DEF OutInv, FromStart, UpToEnd, OutInit

(* A reply or a notification is written. *)
LEMMA WriteStep ==
  ASSUME OutInv, NEW out_len \in OutLens, ctrl_engine_conn_write(out_len)
  PROVE  OutInv'
<1> DEFINE c == Chunks(Len(written) + 1, out_len)
<1>1. OutTypeOK /\ Len(pkt_queue) <= MAXQLEN
      BY DEF OutInv, WaitsBehindFullQueue
<1>2. out_len \in Nat \ {0} /\ Len(written) + 1 \in Nat \ {0}
      BY <1>1, OutAssumption DEF OutTypeOK
<1>3. c \in Seq(Packet)
      BY <1>2, ChunksCut DEF Pieces
<1>4. /\ written' = Append(written, out_len) /\ Flush(out_queue \o c, pkt_queue) /\ out_open
      /\ UNCHANGED <<sending, out_open, sent, lost>>
      BY DEF ctrl_engine_conn_write
<1> HIDE DEF c
<1>5. out_queue \o c \in Seq(Packet)
      BY <1>1, <1>3 DEF OutTypeOK
<1>6. /\ pkt_queue' \in Seq(Packet) /\ out_queue' \in Seq(Packet) /\ data_ev_wr' \in BOOLEAN
      /\ Waiting' = pkt_queue \o (out_queue \o c)
      /\ Len(pkt_queue') <= MAXQLEN
      /\ out_queue' # <<>> => Len(pkt_queue') = MAXQLEN
      BY <1>1, <1>4, <1>5, FlushKeeps DEF OutTypeOK
<1>7. OutTypeOK'
      BY <1>1, <1>4, <1>6 DEF OutTypeOK
<1>8. WaitsBehindFullQueue'
      BY <1>6, <1>7, OutAssumption DEF WaitsBehindFullQueue, OutTypeOK
<1>9. Waiting \in Seq(Packet) /\ Stream \in Seq(Packet)
      BY <1>1 DEF OutTypeOK, Waiting, Stream
<1>10. Waiting' = Waiting \o c
  <2>1. pkt_queue \in Seq(Packet) /\ out_queue \in Seq(Packet)
        BY <1>1 DEF OutTypeOK
  <2>2. Regroups(pkt_queue, out_queue, c)
        BY <1>3, <2>1, ThreeQueues
  <2> QED BY <1>6, <2>2 DEF Regroups, Waiting
<1>11. Stream' = Stream \o c
  <2>1. sent \in Seq(Packet)
        BY <1>1 DEF OutTypeOK
  <2>2. Regroups(sent, Waiting, c)
        BY <1>3, <1>9, <2>1, ThreeQueues
  <2> QED BY <1>4, <1>10, <2>2 DEF Regroups, Stream
<1>12. Unbroken(Stream, written) /\ UpToEnd(Stream, written) /\ written \in Seq(OutLens)
       BY <1>1, <1>4 DEF OutInv, OutTypeOK
<1>13. /\ Unbroken(Stream', written') /\ UpToEnd(Stream', written') /\ Stream' # <<>>
       /\ FromStart(Stream) /\ (Stream = <<>> => written = <<>>) => FromStart(Stream')
       BY <1>4, <1>9, <1>11, <1>12, WriteUnbroken DEF c
<1>14. lost' = 0 => FromStart(Stream')
       BY <1>4, <1>13 DEF OutInv
<1> QED BY <1>4, <1>7, <1>8, <1>13, <1>14 DEF OutInv

(* The socket takes a packet. *)
LEMMA SendDoneStep ==
  ASSUME OutInv, SendDone
  PROVE  OutInv'
<1> DEFINE h == Head(pkt_queue)
           t == Tail(pkt_queue)
<1>1. OutTypeOK /\ Len(pkt_queue) <= MAXQLEN /\ pkt_queue # <<>>
      BY DEF OutInv, WaitsBehindFullQueue, SendDone
<1>2. /\ h \in Packet /\ t \in Seq(Packet) /\ Len(t) = Len(pkt_queue) - 1
      /\ pkt_queue = <<h>> \o t
      BY <1>1, NextInFront DEF OutTypeOK
<1>3. /\ sent' = Append(sent, h) /\ Flush(out_queue, t) /\ sending
      /\ UNCHANGED <<sending, out_open, written, lost>>
      BY DEF SendDone
<1> HIDE DEF h, t
<1>4. /\ pkt_queue' \in Seq(Packet) /\ out_queue' \in Seq(Packet) /\ data_ev_wr' \in BOOLEAN
      /\ Waiting' = t \o out_queue
      /\ Len(pkt_queue') <= MAXQLEN
      /\ out_queue' # <<>> => Len(pkt_queue') = MAXQLEN
  <2>1. Len(t) <= MAXQLEN
        BY <1>1, <1>2, OutAssumption DEF OutTypeOK
  <2> QED BY <1>1, <1>2, <1>3, <2>1, FlushKeeps DEF OutTypeOK
<1>5. sent' \in Seq(Packet) /\ sent' = sent \o <<h>>
      BY <1>1, <1>2, <1>3 DEF OutTypeOK
<1>6. OutTypeOK'
      BY <1>1, <1>3, <1>4, <1>5 DEF OutTypeOK
<1>7. WaitsBehindFullQueue'
      BY <1>4, <1>6, OutAssumption DEF WaitsBehindFullQueue, OutTypeOK
<1>8. Waiting' \in Seq(Packet) /\ Waiting \in Seq(Packet) /\ <<h>> \in Seq(Packet)
      BY <1>1, <1>2, <1>6 DEF OutTypeOK, Waiting
<1>9. Waiting = <<h>> \o Waiting'
  <2>1. Waiting = (<<h>> \o t) \o out_queue /\ out_queue \in Seq(Packet)
        BY <1>1, <1>2 DEF OutTypeOK, Waiting
  <2>2. Regroups(<<h>>, t, out_queue)
        BY <1>2, <1>8, <2>1, ThreeQueues
  <2> QED BY <1>4, <2>1, <2>2 DEF Regroups
<1>10. out_open
       BY <1>3 DEF OutInv
<1>11. CASE lost = 0
  <2>1. Stream' = (sent \o <<h>>) \o Waiting'
        BY <1>3, <1>5, <1>11 DEF Stream
  <2>2. Stream' = Stream
    <3>1. sent \in Seq(Packet) /\ Stream = sent \o (<<h>> \o Waiting')
          BY <1>1, <1>9, <1>11 DEF OutTypeOK, Stream
    <3>2. Regroups(sent, <<h>>, Waiting')
          BY <1>8, <3>1, ThreeQueues
    <3> QED BY <2>1, <3>1, <3>2 DEF Regroups
  <2> QED BY <1>3, <1>6, <1>7, <1>10, <2>2 DEF OutInv
<1>12. CASE lost # 0
  <2>1. Stream = <<h>> \o Stream' /\ Stream' \in Seq(Packet)
        BY <1>3, <1>8, <1>9, <1>12 DEF Stream
  <2>2. Unbroken(<<h>> \o Stream', written) /\ UpToEnd(<<h>> \o Stream', written)
        BY <1>10, <2>1 DEF OutInv
  <2>3. Unbroken(Stream', written) /\ UpToEnd(Stream', written)
        BY <1>8, <2>1, <2>2, PartUnbroken
  <2> QED BY <1>3, <1>6, <1>7, <1>10, <1>12, <2>3 DEF OutInv
<1> QED BY <1>11, <1>12

(* The backend drops a packet. *)
LEMMA SendDelayedStep ==
  ASSUME OutInv, SendDelayed
  PROVE  OutInv'
<1> DEFINE h == Head(pkt_queue)
           t == Tail(pkt_queue)
<1>1. OutTypeOK /\ Len(pkt_queue) <= MAXQLEN /\ pkt_queue # <<>>
      BY DEF OutInv, WaitsBehindFullQueue, SendDelayed
<1>2. /\ h \in Packet /\ t \in Seq(Packet) /\ Len(t) = Len(pkt_queue) - 1
      /\ pkt_queue = <<h>> \o t
      BY <1>1, NextInFront DEF OutTypeOK
<1>3. /\ lost' = lost + 1 /\ pkt_queue' = t /\ ~sending' /\ sending
      /\ sending' \in BOOLEAN
      /\ UNCHANGED <<out_queue, data_ev_wr, out_open, written, sent>>
      BY DEF SendDelayed
<1> HIDE DEF h, t
<1>4. lost' \in Nat /\ lost' # 0
      BY <1>1, <1>3 DEF OutTypeOK
<1>5. OutTypeOK'
      BY <1>1, <1>2, <1>3, <1>4 DEF OutTypeOK
<1>6. WaitsBehindFullQueue'
  <2>1. Len(pkt_queue') <= MAXQLEN
        BY <1>1, <1>2, <1>3, OutAssumption DEF OutTypeOK
  <2> QED BY <1>4, <2>1 DEF WaitsBehindFullQueue
<1>7. out_open
      BY <1>3 DEF OutInv
<1>8. Waiting = <<h>> \o Waiting' /\ Waiting' \in Seq(Packet) /\ <<h>> \in Seq(Packet)
  <2>1. Waiting' = t \o out_queue /\ Waiting = (<<h>> \o t) \o out_queue
        BY <1>2, <1>3 DEF Waiting
  <2>2. <<h>> \in Seq(Packet) /\ out_queue \in Seq(Packet)
        BY <1>1, <1>2 DEF OutTypeOK
  <2>3. Regroups(<<h>>, t, out_queue)
        BY <1>2, <2>2, ThreeQueues
  <2>4. Waiting' \in Seq(Packet)
        BY <1>2, <2>1, <2>2
  <2> QED BY <2>1, <2>2, <2>3, <2>4 DEF Regroups
<1>9. Stream' = Waiting'
      BY <1>4 DEF Stream
<1>10. Unbroken(Waiting, written) /\ UpToEnd(Waiting, written)
  <2>1. CASE lost = 0
    <3>1. Unbroken(sent \o Waiting, written) /\ UpToEnd(sent \o Waiting, written)
          BY <1>7, <2>1 DEF OutInv, Stream
    <3>2. sent \in Seq(Packet) /\ Waiting \in Seq(Packet)
          BY <1>1 DEF OutTypeOK, Waiting
    <3> QED BY <3>1, <3>2, PartUnbroken
  <2>2. CASE lost # 0
        BY <1>7, <2>2 DEF OutInv, Stream
  <2> QED BY <2>1, <2>2
<1>11. Unbroken(Waiting', written) /\ UpToEnd(Waiting', written)
       BY <1>8, <1>10, PartUnbroken
<1> QED BY <1>3, <1>4, <1>5, <1>6, <1>7, <1>9, <1>11 DEF OutInv

(* The connection is closed with what still waits. *)
LEMMA CloseStep ==
  ASSUME OutInv, ctrl_engine_errorcb
  PROVE  OutInv'
<1>1. OutTypeOK
      BY DEF OutInv
<1>2. /\ ~out_open' /\ ~sending' /\ data_ev_wr' = FALSE /\ out_queue' = <<>> /\ pkt_queue' = <<>>
      /\ out_open' \in BOOLEAN /\ sending' \in BOOLEAN
      /\ UNCHANGED <<written, sent, lost>>
      BY DEF ctrl_engine_errorcb
<1>3. OutTypeOK'
  <2>1. <<>> \in Seq(Packet)
        OBVIOUS
  <2> QED BY <1>1, <1>2, <2>1 DEF OutTypeOK
<1>4. WaitsBehindFullQueue'
      BY <1>2, OutAssumption DEF WaitsBehindFullQueue
<1>5. Waiting' = <<>>
      BY <1>2 DEF Waiting
<1>6. Unbroken(Stream', written) /\ (lost = 0 => FromStart(Stream'))
  <2>1. CASE lost = 0
    <3>1. Stream' = sent
          BY <1>1, <1>2, <1>5, <2>1 DEF Stream, OutTypeOK
    <3>2. Unbroken(sent \o Waiting, written) /\ FromStart(sent \o Waiting)
          BY <2>1 DEF OutInv, Stream
    <3>3. sent \in Seq(Packet) /\ Waiting \in Seq(Packet)
          BY <1>1 DEF OutTypeOK, Waiting
    <3>4. Unbroken(sent, written) /\ FromStart(sent)
          BY <3>2, <3>3, PartUnbroken
    <3> QED BY <3>1, <3>4
  <2>2. CASE lost # 0
    <3>1. Stream' = <<>>
          BY <1>2, <1>5, <2>2 DEF Stream
    <3>2. Unbroken(<<>>, written)
          BY DEF Unbroken
    <3> QED BY <2>2, <3>1, <3>2
  <2> QED BY <2>1, <2>2
<1> QED BY <1>2, <1>3, <1>4, <1>5, <1>6 DEF OutInv

LEMMA StepOut == OutInv /\ [OutNext]_outvars => OutInv'
<1> SUFFICES ASSUME OutInv, [OutNext]_outvars PROVE OutInv'
    OBVIOUS
<1>1. CASE \E out_len \in OutLens : ctrl_engine_conn_write(out_len)
      BY <1>1, WriteStep
<1>2. CASE WriteEvent
  <2>1. /\ out_open /\ sending' = TRUE
        /\ UNCHANGED <<out_queue, pkt_queue, data_ev_wr, out_open, written, sent, lost>>
        BY <1>2 DEF WriteEvent
  <2>2. Waiting' = Waiting /\ Stream' = Stream
        BY <2>1 DEF Waiting, Stream
  <2> QED BY <2>1, <2>2 DEF OutInv, OutTypeOK, WaitsBehindFullQueue
<1>3. CASE SendDone
      BY <1>3, SendDoneStep
<1>4. CASE SendDelayed
      BY <1>4, SendDelayedStep
<1>5. CASE WriteEventEnds
  <2>1. /\ sending' = FALSE /\ data_ev_wr' = FALSE
        /\ UNCHANGED <<out_queue, pkt_queue, out_open, written, sent, lost>>
        BY <1>5 DEF WriteEventEnds
  <2>2. Waiting' = Waiting /\ Stream' = Stream
        BY <2>1 DEF Waiting, Stream
  <2> QED BY <2>1, <2>2 DEF OutInv, OutTypeOK, WaitsBehindFullQueue
<1>6. CASE ctrl_engine_errorcb
      BY <1>6, CloseStep
<1>7. CASE UNCHANGED outvars
  <2>1. UNCHANGED <<out_queue, pkt_queue, data_ev_wr, sending, out_open, written, sent, lost>>
        BY <1>7 DEF outvars
  <2>2. Waiting' = Waiting /\ Stream' = Stream
        BY <2>1 DEF Waiting, Stream
  <2> QED BY <2>1, <2>2 DEF OutInv, OutTypeOK, WaitsBehindFullQueue
<1> QED BY <1>1, <1>2, <1>3, <1>4, <1>5, <1>6, <1>7 DEF OutNext

(* Whatever the payload, the backend's capacity and the messages, the      *)
(* sending half keeps the inductive invariant.                             *)
THEOREM OutInvariant == OutSpec => []OutInv
<1>1. OutInit => OutInv
      BY InitOut
<1>2. OutInv /\ [OutNext]_outvars => OutInv'
      BY StepOut
<1> QED BY <1>1, <1>2, PTL DEF OutSpec

(* The packets sent and waiting are the written messages cut in order,     *)
(* with nothing missing, doubled or swapped (ctrl_engine_conn_write,       *)
(* ctrl_engine_writecb).                                                   *)
THEOREM StreamIsUnbroken == OutSpec => []StreamUnbroken
<1>1. OutInv => StreamUnbroken
  <2> SUFFICES ASSUME OutInv PROVE StreamUnbroken
      OBVIOUS
  <2>1. \A p : After(p) = AfterIn(p, written)
        BY DEF After, AfterIn
  <2> QED BY <2>1 DEF OutInv, StreamUnbroken, Stream, Unbroken, FromStart, UpToEnd
<1> QED BY <1>1, OutInvariant, PTL

(* The backend's queue stays within its bound, and out_queue holds packets *)
(* back only while it is full, unless a packet was dropped.                *)
THEOREM WaitsOnlyBehindFull == OutSpec => []WaitsBehindFullQueue
<1>1. OutInv => WaitsBehindFullQueue
      BY DEF OutInv
<1> QED BY <1>1, OutInvariant, PTL

-----------------------------------------------------------------------------
(* The place in received of the last separator found, and that of the last *)
(* byte that was looked at.                                                *)
LastEnd == IF ends = <<>> THEN 0 ELSE ends[Len(ends)]
Consumed == Len(received) - Len(buf)

(* The inductive invariant.  It says of each byte in inbuf and in buf      *)
(* where in the stream it is from.                                         *)
InInv ==
  /\ InTypeOK
  /\ splitting => in_open
  /\ ~splitting => buf = <<>>
  /\ Len(buf) <= Len(received)
  /\ \A i \in 1..Len(buf) : buf[i] = received[Consumed + i]
  /\ Len(strings) = Len(ends)
  /\ \A i \in 1..(Len(ends) - 1) : ends[i] < ends[i + 1]
  /\ Range(ends) = {p \in 1..Consumed : received[p] = NUL}
  /\ in_open => /\ LastEnd + Len(inbuf) = Consumed
                /\ \A i \in 1..Len(inbuf) : inbuf[i] = received[LastEnd + i]
  /\ ~in_open => Len(received) - LastEnd > MAX_INBUF_SZ
  /\ \A i \in 1..Len(ends) :
       \E tail \in Tails \cup {<<>>} : strings[i] = StringAt(i) \o tail

-----------------------------------------------------------------------------
(* A part of a stream is still that part when more has come. *)
LEMMA PartOfLonger ==
  ASSUME NEW S, NEW a \in Seq(S), NEW b \in Seq(S),
         NEW m \in Nat \ {0}, NEW n \in 0..Len(a), m <= n + 1
  PROVE  SubSeq(a \o b, m, n) = SubSeq(a, m, n)
  OBVIOUS

(* A part of a stream, byte by byte. *)
LEMMA PartBytes ==
  ASSUME NEW S, NEW a \in Seq(S), NEW m \in Nat \ {0}, NEW n \in 0..Len(a), m <= n + 1
  PROVE  /\ SubSeq(a, m, n) \in Seq(S)
         /\ Len(SubSeq(a, m, n)) = n - m + 1
         /\ \A i \in 1..(n - m + 1) : SubSeq(a, m, n)[i] = a[m + i - 1]
  OBVIOUS

(* memchr finds the first separator. *)
LEMMA FirstSeparator ==
  ASSUME NEW b \in Seq(Bytes \cup {NUL}), Separators(b) # {}
  PROVE  LET next == Min(Separators(b))
         IN  next \in 1..Len(b) /\ b[next] = NUL /\ \A i \in 1..(next - 1) : b[i] # NUL
<1> DEFINE T == Separators(b)
<1>1. T \subseteq Nat
      BY DEF Separators
<1>2. \E x \in T : \A y \in T : ~(<<y, x>> \in OpToRel(<, Nat))
      BY <1>1, NatLessThanWellFounded, WFMin
<1>3. \E x \in T : \A y \in T : x <= y
  <2>1. PICK x \in T : \A y \in T : ~(<<y, x>> \in OpToRel(<, Nat))
        BY <1>2
  <2>2. ASSUME NEW y \in T PROVE x <= y
    <3>1. x \in Nat /\ y \in Nat
          BY <1>1
    <3>2. ~(<<y, x>> \in {ss \in Nat \X Nat : ss[1] < ss[2]})
          BY <2>1 DEF OpToRel
    <3> QED BY <3>1, <3>2
  <2> QED BY <2>2
<1> DEFINE n == Min(T)
<1>4. n \in T /\ \A y \in T : n <= y
      BY <1>3 DEF Min
<1> HIDE DEF n
<1>5. n \in 1..Len(b) /\ b[n] = NUL
      BY <1>4 DEF Separators
<1>6. ASSUME NEW i \in 1..(n - 1) PROVE b[i] # NUL
  <2>1. i \in DOMAIN b /\ ~(n <= i)
        BY <1>5
  <2> QED BY <1>4, <2>1 DEF Separators
<1> QED BY <1>5, <1>6 DEF n

(* Where the strings of the stream begin and end. *)
LEMMA EndsInStream ==
  ASSUME InInv
  PROVE  /\ Consumed \in Nat /\ Consumed <= Len(received) /\ Len(ends) \in Nat
         /\ \A i \in 1..Len(ends) : /\ ends[i] \in 1..Consumed /\ received[ends[i]] = NUL
                                    /\ Start(i) \in Nat \ {0} /\ Start(i) <= ends[i]
         /\ LastEnd \in 0..Consumed /\ Start(Len(ends) + 1) = LastEnd + 1
<1>1. /\ received \in Seq(Bytes \cup {NUL}) /\ buf \in Seq(Bytes \cup {NUL}) /\ ends \in Seq(Nat)
      /\ Len(buf) <= Len(received) /\ Range(ends) = {p \in 1..Consumed : received[p] = NUL}
      /\ \A i \in 1..(Len(ends) - 1) : ends[i] < ends[i + 1]
      BY DEF InInv, InTypeOK
<1>2. Consumed \in Nat /\ Consumed <= Len(received) /\ Len(ends) \in Nat
      BY <1>1 DEF Consumed
<1>3. \A i \in 1..Len(ends) : ends[i] \in 1..Consumed /\ received[ends[i]] = NUL
  <2>1. \A i \in 1..Len(ends) : ends[i] \in Range(ends)
        BY <1>1 DEF Range
  <2> QED BY <1>1, <2>1
<1>4. ASSUME NEW i \in 1..Len(ends)
      PROVE  Start(i) \in Nat \ {0} /\ Start(i) <= ends[i]
  <2>1. CASE i = 1
        BY <1>2, <1>3, <2>1 DEF Start
  <2>2. CASE i # 1
    <3>1. i - 1 \in 1..(Len(ends) - 1) /\ i - 1 \in 1..Len(ends) /\ (i - 1) + 1 = i
          BY <1>2, <2>2
    <3>2. ends[i - 1] < ends[i]
          BY <1>1, <3>1
    <3>3. ends[i - 1] \in 1..Consumed /\ ends[i] \in 1..Consumed
          BY <1>3, <3>1
    <3> QED BY <1>2, <2>2, <3>2, <3>3 DEF Start
  <2> QED BY <2>1, <2>2
<1>5. LastEnd \in 0..Consumed /\ Start(Len(ends) + 1) = LastEnd + 1
  <2>1. CASE ends = <<>>
        BY <1>2, <2>1 DEF LastEnd, Start
  <2>2. CASE ends # <<>>
    <3>1. Len(ends) \in 1..Len(ends) /\ Len(ends) + 1 # 1 /\ (Len(ends) + 1) - 1 = Len(ends)
          BY <1>1, <2>2
    <3> QED BY <1>2, <1>3, <2>2, <3>1 DEF LastEnd, Start
  <2> QED BY <2>1, <2>2
<1> QED BY <1>2, <1>3, <1>4, <1>5

LEMMA InitIn == InInit => InInv
<1> SUFFICES ASSUME InInit PROVE InInv
    OBVIOUS
<1>1. InTypeOK
  <2>1. <<>> \in Seq(Bytes) /\ <<>> \in Seq(Bytes \cup {NUL}) /\ <<>> \in Seq(Seq(Bytes))
        /\ <<>> \in Seq(Nat) /\ Len(<<>>) = 0
        OBVIOUS
  <2>2. Len(inbuf) <= MAX_INBUF_SZ
        BY <2>1, InAssumption DEF InInit
  <2> QED BY <2>1, <2>2 DEF InInit, InTypeOK
<1>2. Consumed = 0 /\ LastEnd = 0
      BY DEF InInit, Consumed, LastEnd
<1>3. Range(ends) = {p \in 1..Consumed : received[p] = NUL}
      BY <1>2 DEF InInit, Range
<1> QED BY <1>1, <1>2, <1>3 DEF InInit, InInv

(* A packet comes in. *)
LEMMA ReadIn ==
  ASSUME InInv, NEW payload \in InPayloads, ctrl_engine_readcb(payload)
  PROVE  InInv'
<1>1. /\ InTypeOK /\ in_open /\ ~splitting /\ buf = <<>>
      BY DEF InInv, ctrl_engine_readcb
<1>2. /\ received' = received \o payload /\ buf' = payload /\ splitting' = TRUE
      /\ UNCHANGED <<inbuf, in_open, strings, ends>>
      BY DEF ctrl_engine_readcb
<1>3. payload \in Seq(Bytes \cup {NUL})
      BY DEF InPayloads
<1>4. received \in Seq(Bytes \cup {NUL})
      BY <1>1 DEF InTypeOK
<1>5. /\ received' \in Seq(Bytes \cup {NUL}) /\ Len(received') = Len(received) + Len(payload)
      /\ \A i \in 1..Len(received) : received'[i] = received[i]
      /\ \A i \in 1..Len(payload) : received'[Len(received) + i] = payload[i]
      BY <1>2, <1>3, <1>4
<1>6. /\ Consumed = Len(received) /\ Consumed' = Len(received) /\ LastEnd' = LastEnd
      /\ Len(received) \in Nat /\ Len(payload) \in Nat
      BY <1>1, <1>2, <1>3, <1>4, <1>5 DEF Consumed, LastEnd
<1>7. InTypeOK'
      BY <1>1, <1>2, <1>3, <1>5 DEF InTypeOK
<1>8. Range(ends') = {p \in 1..Consumed' : received'[p] = NUL}
      BY <1>2, <1>5, <1>6 DEF InInv
<1>9. /\ LastEnd \in 0..Consumed
      /\ \A i \in 1..Len(ends) : /\ ends[i] \in 1..Consumed
                                 /\ Start(i) \in Nat \ {0} /\ Start(i) <= ends[i]
      BY EndsInStream
<1>10. in_open' => /\ LastEnd' + Len(inbuf') = Consumed'
                   /\ \A i \in 1..Len(inbuf') : inbuf'[i] = received'[LastEnd' + i]
  <2>1. LastEnd + Len(inbuf) = Consumed /\ \A i \in 1..Len(inbuf) : inbuf[i] = received[LastEnd + i]
        BY <1>1 DEF InInv
  <2>2. inbuf \in Seq(Bytes) /\ Len(inbuf) \in Nat
        BY <1>1 DEF InTypeOK
  <2>3. \A i \in 1..Len(inbuf) : LastEnd + i \in 1..Len(received)
        BY <1>6, <1>9, <2>1, <2>2
  <2> QED BY <1>2, <1>5, <1>6, <2>1, <2>3
<1>11. ASSUME NEW i \in 1..Len(ends)
       PROVE  StringAt(i)' = StringAt(i)
  <2>1. ends[i] - 1 \in 0..Len(received) /\ Start(i) <= (ends[i] - 1) + 1
        BY <1>6, <1>9
  <2>2. Start(i)' = Start(i)
        BY <1>2 DEF Start
  <2>3. SubSeq(received \o payload, Start(i), ends[i] - 1) = SubSeq(received, Start(i), ends[i] - 1)
        BY <1>3, <1>4, <1>9, <2>1, PartOfLonger
  <2> QED BY <1>2, <2>2, <2>3 DEF StringAt
<1>12. \A i \in 1..Len(ends') :
         \E tail \in Tails \cup {<<>>} : strings'[i] = StringAt(i)' \o tail
       BY <1>2, <1>11 DEF InInv
<1>13. /\ Len(buf') <= Len(received')
       /\ \A i \in 1..Len(buf') : buf'[i] = received'[Consumed' + i]
       BY <1>2, <1>5, <1>6
<1> QED BY <1>1, <1>2, <1>7, <1>8, <1>10, <1>12, <1>13 DEF InInv

(* With no separator in buf all those of the stream have been found. *)
LEMMA NoneLeft ==
  ASSUME InInv, Separators(buf) = {}
  PROVE  /\ buf \in Seq(Bytes)
         /\ Range(ends) = {p \in 1..Len(received) : received[p] = NUL}
<1>1. /\ received \in Seq(Bytes \cup {NUL}) /\ buf \in Seq(Bytes \cup {NUL})
      /\ \A i \in 1..Len(buf) : buf[i] = received[Consumed + i]
      /\ Range(ends) = {p \in 1..Consumed : received[p] = NUL}
      BY DEF InInv, InTypeOK
<1>2. /\ Consumed = Len(received) - Len(buf) /\ Consumed \in Nat
      /\ Len(received) \in Nat /\ Len(buf) \in Nat
      BY <1>1, EndsInStream DEF Consumed
<1>3. \A i \in 1..Len(buf) : buf[i] \in Bytes
      BY <1>1 DEF Separators
<1>4. buf \in Seq(Bytes)
      BY <1>1, <1>3
<1>5. ASSUME NEW p \in 1..Len(received), p > Consumed PROVE received[p] # NUL
  <2>1. p - Consumed \in 1..Len(buf) /\ Consumed + (p - Consumed) = p
        BY <1>2, <1>5
  <2>2. buf[p - Consumed] = received[p]
        BY <1>1, <2>1
  <2> QED BY <1>3, <2>1, <2>2, InAssumption
<1>6. \A p \in 1..Consumed : p \in 1..Len(received)
      BY <1>2
<1>7. \A p \in 1..Len(received) : p \in 1..Consumed \/ p > Consumed
      BY <1>2
<1> QED BY <1>1, <1>4, <1>5, <1>6, <1>7

(* The rest of a packet is kept in inbuf, *)
LEMMA KeepIn ==
  ASSUME InInv, KeepRest
  PROVE  InInv'
<1>1. InTypeOK /\ splitting /\ in_open /\ Separators(buf) = {} /\ (buf = <<>> \/ Fits)
      BY DEF InInv, KeepRest
<1>2. /\ inbuf' = inbuf \o buf /\ buf' = <<>> /\ splitting' = FALSE
      /\ UNCHANGED <<in_open, received, strings, ends>>
      BY DEF KeepRest
<1>3. /\ received \in Seq(Bytes \cup {NUL}) /\ buf \in Seq(Bytes \cup {NUL})
      /\ inbuf \in Seq(Bytes) /\ Len(inbuf) <= MAX_INBUF_SZ
      BY <1>1 DEF InTypeOK
<1>5. buf \in Seq(Bytes) /\ Range(ends) = {p \in 1..Len(received) : received[p] = NUL}
      BY <1>1, NoneLeft
<1>6. /\ inbuf' \in Seq(Bytes) /\ Len(inbuf') = Len(inbuf) + Len(buf)
      /\ \A i \in 1..Len(inbuf) : inbuf'[i] = inbuf[i]
      /\ \A i \in 1..Len(buf) : inbuf'[Len(inbuf) + i] = buf[i]
      BY <1>2, <1>3, <1>5
<1>7. Len(inbuf') <= MAX_INBUF_SZ
  <2>1. CASE buf = <<>>
        BY <1>3, <1>6, <2>1
  <2>2. CASE Fits
        BY <1>3, <1>6, <2>2 DEF Fits
  <2> QED BY <1>1, <2>1, <2>2
<1>8. InTypeOK'
  <2>1. <<>> \in Seq(Bytes \cup {NUL})
        OBVIOUS
  <2> QED BY <1>1, <1>2, <1>6, <1>7, <2>1 DEF InTypeOK
<1>9. /\ Consumed' = Len(received) /\ Consumed = Len(received) - Len(buf)
      /\ Len(received) \in Nat /\ Len(buf) \in Nat /\ Len(inbuf) \in Nat /\ LastEnd' = LastEnd
      BY <1>2, <1>3 DEF Consumed, LastEnd
<1>10. /\ LastEnd \in 0..Consumed /\ Consumed \in Nat
       /\ LastEnd + Len(inbuf) = Consumed
       /\ \A i \in 1..Len(inbuf) : inbuf[i] = received[LastEnd + i]
       /\ \A i \in 1..Len(buf) : buf[i] = received[Consumed + i]
       BY <1>1, EndsInStream DEF InInv
<1>11. Range(ends') = {p \in 1..Consumed' : received'[p] = NUL}
       BY <1>2, <1>5, <1>9
<1>12. /\ LastEnd' + Len(inbuf') = Consumed'
       /\ \A i \in 1..Len(inbuf') : inbuf'[i] = received'[LastEnd' + i]
  <2>1. LastEnd' + Len(inbuf') = Consumed'
        BY <1>6, <1>9, <1>10
  <2>2. ASSUME NEW i \in 1..Len(inbuf') PROVE inbuf'[i] = received[LastEnd + i]
    <3>1. CASE i <= Len(inbuf)
          BY <1>6, <1>9, <1>10, <3>1
    <3>2. CASE i > Len(inbuf)
      <4> DEFINE j == i - Len(inbuf)
      <4>1. i \in Nat /\ i <= Len(inbuf) + Len(buf) /\ LastEnd \in Nat /\ LastEnd + Len(inbuf) = Consumed
            BY <1>6, <1>9, <1>10
      <4>2. j \in 1..Len(buf) /\ i = Len(inbuf) + j /\ LastEnd + i = Consumed + j
            BY <1>9, <3>2, <4>1
      <4> HIDE DEF j
      <4> QED BY <1>6, <1>10, <4>2
    <3> QED BY <1>9, <3>1, <3>2
  <2> QED BY <1>2, <1>9, <2>1, <2>2
<1>13. \A i \in 1..Len(ends') :
         \E tail \in Tails \cup {<<>>} : strings'[i] = StringAt(i)' \o tail
  <2>1. \A i \in 1..Len(ends) : StringAt(i)' = StringAt(i)
        BY <1>2 DEF StringAt, Start
  <2> QED BY <1>2, <2>1 DEF InInv
<1>14. /\ Len(buf') <= Len(received') /\ \A i \in 1..Len(buf') : buf'[i] = received'[Consumed' + i]
       BY <1>2, <1>9
<1> QED BY <1>1, <1>2, <1>8, <1>11, <1>12, <1>13, <1>14 DEF InInv

(* or does not fit. *)
LEMMA DropIn ==
  ASSUME InInv, DropRest
  PROVE  InInv'
<1>1. /\ InTypeOK /\ in_open /\ Separators(buf) = {}
      /\ ~(Len(buf) + Len(inbuf) <= MAX_INBUF_SZ)
      BY DEF InInv, DropRest, Fits
<1>2. /\ inbuf' = <<>> /\ buf' = <<>> /\ splitting' = FALSE /\ in_open' = FALSE
      /\ UNCHANGED <<received, strings, ends>>
      BY DEF DropRest
<1>3. /\ Consumed' = Len(received) /\ Consumed = Len(received) - Len(buf)
      /\ Len(received) \in Nat /\ Len(buf) \in Nat /\ Len(inbuf) \in Nat /\ LastEnd' = LastEnd
      BY <1>1, <1>2 DEF Consumed, LastEnd, InTypeOK
<1>4. InTypeOK'
  <2>1. <<>> \in Seq(Bytes) /\ <<>> \in Seq(Bytes \cup {NUL}) /\ Len(<<>>) = 0
        OBVIOUS
  <2>2. Len(inbuf') <= MAX_INBUF_SZ
        BY <1>2, <2>1, InAssumption
  <2> QED BY <1>1, <1>2, <2>1, <2>2 DEF InTypeOK
<1>5. Range(ends') = {p \in 1..Consumed' : received'[p] = NUL}
      BY <1>1, <1>2, <1>3, NoneLeft
<1>6. Len(received') - LastEnd' > MAX_INBUF_SZ
  <2>1. LastEnd + Len(inbuf) = Consumed /\ LastEnd \in 0..Consumed
        BY <1>1, EndsInStream DEF InInv
  <2> QED BY <1>1, <1>2, <1>3, <2>1, InAssumption
<1>7. \A i \in 1..Len(ends') :
        \E tail \in Tails \cup {<<>>} : strings'[i] = StringAt(i)' \o tail
  <2>1. \A i \in 1..Len(ends) : StringAt(i)' = StringAt(i)
        BY <1>2 DEF StringAt, Start
  <2> QED BY <1>2, <2>1 DEF InInv
<1>8. /\ Len(buf') <= Len(received') /\ \A i \in 1..Len(buf') : buf'[i] = received'[Consumed' + i]
      BY <1>2, <1>3
<1> QED BY <1>2, <1>4, <1>5, <1>6, <1>7, <1>8 DEF InInv

(* A string is complete: it is the part of the stream from the separator   *)
(* before it to its own.                                                   *)
LEMMA CompleteIn ==
  ASSUME InInv, NEW tail \in Tails, CompleteString(tail)
  PROVE  InInv'
<1> DEFINE next == Min(Separators(buf))
           to_serial == inbuf \o SubSeq(buf, 1, next - 1)
           given == IF inbuf = <<>> THEN to_serial ELSE to_serial \o tail
<1>1. /\ InTypeOK /\ splitting /\ in_open /\ Separators(buf) # {}
      /\ received \in Seq(Bytes \cup {NUL}) /\ buf \in Seq(Bytes \cup {NUL})
      /\ inbuf \in Seq(Bytes) /\ ends \in Seq(Nat) /\ strings \in Seq(Seq(Bytes))
      BY DEF InInv, InTypeOK, CompleteString
<1>2. next \in 1..Len(buf) /\ buf[next] = NUL /\ \A i \in 1..(next - 1) : buf[i] # NUL
      BY <1>1, FirstSeparator
<1>3. /\ strings' = Append(strings, given) /\ ends' = Append(ends, Consumed + next)
      /\ buf' = SubSeq(buf, next + 1, Len(buf)) /\ inbuf' = <<>>
      /\ UNCHANGED <<splitting, in_open, received>>
      BY DEF CompleteString, Rest, InbufAfter, Consumed
<1> HIDE DEF next
<1>4. /\ Consumed \in Nat /\ Consumed = Len(received) - Len(buf) /\ next \in Nat /\ next >= 1
      /\ Len(received) \in Nat /\ Len(buf) \in Nat /\ Len(inbuf) \in Nat /\ next <= Len(buf)
      BY <1>1, <1>2, EndsInStream DEF Consumed
<1>5. /\ buf' \in Seq(Bytes \cup {NUL}) /\ Len(buf') = Len(buf) - next
      /\ \A i \in 1..(Len(buf) - next) : buf'[i] = buf[next + i]
  <2>1. next + 1 \in Nat \ {0} /\ Len(buf) \in 0..Len(buf) /\ next + 1 <= Len(buf) + 1
        BY <1>4
  <2> DEFINE m == next + 1
             n == Len(buf)
  <2>2. n - m + 1 = Len(buf) - next /\ \A i \in Int : m + i - 1 = next + i
        BY <1>4
  <2> HIDE DEF m, n
  <2>3. /\ SubSeq(buf, m, n) \in Seq(Bytes \cup {NUL})
        /\ Len(SubSeq(buf, m, n)) = n - m + 1
        /\ \A i \in 1..(n - m + 1) : SubSeq(buf, m, n)[i] = buf[m + i - 1]
    <3>1. buf \in Seq(Bytes \cup {NUL}) /\ m \in Nat \ {0} /\ n \in 0..Len(buf) /\ m <= n + 1
          BY <1>1, <2>1 DEF m, n
    <3> QED BY <3>1, PartBytes
  <2>4. buf' = SubSeq(buf, m, n)
        BY <1>3 DEF m, n
  <2>5. ASSUME NEW i \in 1..(Len(buf) - next) PROVE buf'[i] = buf[next + i]
    <3>1. buf'[i] = buf[m + i - 1]
          BY <2>2, <2>3, <2>4
    <3>2. m + i - 1 = next + i
          BY <2>2
    <3> QED BY <3>1, <3>2
  <2>6. buf' \in Seq(Bytes \cup {NUL}) /\ Len(buf') = Len(buf) - next
        BY <2>2, <2>3, <2>4
  <2> QED BY <2>5, <2>6
<1>6. /\ SubSeq(buf, 1, next - 1) \in Seq(Bytes) /\ Len(SubSeq(buf, 1, next - 1)) = next - 1
      /\ \A i \in 1..(next - 1) : SubSeq(buf, 1, next - 1)[i] = buf[i]
  <2>1. /\ SubSeq(buf, 1, next - 1) \in Seq(Bytes \cup {NUL})
        /\ Len(SubSeq(buf, 1, next - 1)) = next - 1
        /\ \A i \in 1..(next - 1) : SubSeq(buf, 1, next - 1)[i] = buf[i]
        BY <1>1, <1>4
  <2>2. \A i \in 1..(next - 1) : buf[i] \in Bytes
        BY <1>1, <1>2, <1>4
  <2> DEFINE b == SubSeq(buf, 1, next - 1)
  <2> HIDE DEF b
  <2>3. b \in Seq(Bytes)
        BY <2>1, <2>2 DEF b
  <2> QED BY <2>1, <2>3 DEF b
<1>7. /\ to_serial \in Seq(Bytes) /\ Len(to_serial) = Len(inbuf) + (next - 1)
      /\ \A i \in 1..Len(inbuf) : to_serial[i] = inbuf[i]
      /\ \A i \in 1..(next - 1) : to_serial[Len(inbuf) + i] = buf[i]
  <2> DEFINE b == SubSeq(buf, 1, next - 1)
  <2>1. b \in Seq(Bytes) /\ Len(b) = next - 1 /\ \A i \in 1..(next - 1) : b[i] = buf[i]
        BY <1>6
  <2>2. to_serial = inbuf \o b
        OBVIOUS
  <2> HIDE DEF b, to_serial
  <2> QED BY <1>1, <2>1, <2>2
<1> HIDE DEF to_serial
<1>8. given \in Seq(Bytes) /\ \E t \in Tails \cup {<<>>} : given = to_serial \o t
  <2>1. tail \in Seq(Bytes) /\ to_serial \o <<>> = to_serial
        BY <1>7, InAssumption
  <2> QED BY <1>7, <2>1
<1> HIDE DEF given
<1>9. InTypeOK'
  <2>1. strings' \in Seq(Seq(Bytes)) /\ ends' \in Seq(Nat)
        BY <1>1, <1>3, <1>4, <1>8
  <2>2. inbuf' \in Seq(Bytes) /\ Len(inbuf') <= MAX_INBUF_SZ
        BY <1>3, InAssumption
  <2> QED BY <1>1, <1>3, <1>5, <2>1, <2>2 DEF InTypeOK
<1>10. /\ Consumed' = Consumed + next
       /\ ends' # <<>> /\ Len(ends') = Len(ends) + 1 /\ LastEnd' = Consumed + next
       /\ \A i \in 1..Len(ends) : ends'[i] = ends[i]
       /\ ends'[Len(ends) + 1] = Consumed + next /\ Len(ends) \in Nat
  <2>1. Consumed' = Consumed + next
    <3>1. Len(buf') = Len(buf) - next /\ received' = received
          BY <1>3, <1>5
    <3>2. Consumed' = Len(received) - (Len(buf) - next)
          BY <3>1 DEF Consumed
    <3> QED BY <1>4, <3>2
  <2> DEFINE e == Consumed + next
  <2>2. e \in Nat /\ ends' = Append(ends, e)
        BY <1>3, <1>4
  <2> HIDE DEF e
  <2>3. /\ ends' # <<>> /\ Len(ends') = Len(ends) + 1 /\ Len(ends) \in Nat
        /\ \A i \in 1..Len(ends) : ends'[i] = ends[i]
        /\ ends'[Len(ends) + 1] = e
    <3>1. ends \in Seq(Nat)
          BY <1>1
    <3> QED BY <2>2, <3>1
  <2>4. LastEnd' = e
        BY <2>3 DEF LastEnd
  <2> QED BY <2>1, <2>3, <2>4 DEF e
<1>11. /\ \A i \in 1..Len(ends) : ends[i] \in 1..Consumed
       /\ LastEnd \in 0..Consumed /\ Start(Len(ends) + 1) = LastEnd + 1
       /\ LastEnd + Len(inbuf) = Consumed
       /\ \A i \in 1..Len(inbuf) : inbuf[i] = received[LastEnd + i]
       /\ \A i \in 1..Len(buf) : buf[i] = received[Consumed + i]
       BY <1>1, EndsInStream DEF InInv
<1>12. \A i \in 1..Len(buf') : buf'[i] = received'[Consumed' + i]
  <2> SUFFICES ASSUME NEW i \in 1..(Len(buf) - next) PROVE buf'[i] = received[(Consumed + next) + i]
      BY <1>3, <1>5, <1>10
  <2>1. next + i \in 1..Len(buf) /\ Consumed + (next + i) = (Consumed + next) + i
        BY <1>4
  <2> QED BY <1>5, <1>11, <2>1
<1>13. Len(buf') <= Len(received')
       BY <1>3, <1>4, <1>5
<1>14. Len(strings') = Len(ends') /\ \A i \in 1..Len(strings) : strings'[i] = strings[i]
  <2>1. Len(strings) = Len(ends)
        BY DEF InInv
  <2>2. strings \in Seq(Seq(Bytes)) /\ given \in Seq(Bytes) /\ strings' = Append(strings, given)
        BY <1>1, <1>3, <1>8
  <2>3. Len(strings') = Len(strings) + 1 /\ \A i \in 1..Len(strings) : strings'[i] = strings[i]
        BY <2>2
  <2> QED BY <1>10, <2>1, <2>3
<1>15. \A i \in 1..(Len(ends') - 1) : ends'[i] < ends'[i + 1]
  <2> SUFFICES ASSUME NEW i \in 1..Len(ends) PROVE ends'[i] < ends'[i + 1]
      BY <1>10
  <2>1. CASE i = Len(ends)
    <3>1. ends'[i] = ends[i] /\ ends[i] \in 1..Consumed /\ ends'[i + 1] = Consumed + next
          BY <1>10, <1>11, <2>1
    <3> QED BY <1>4, <3>1
  <2>2. CASE i # Len(ends)
    <3>1. i \in 1..(Len(ends) - 1) /\ i + 1 \in 1..Len(ends)
          BY <1>10, <2>2
    <3> QED BY <1>10, <3>1 DEF InInv
  <2> QED BY <2>1, <2>2
<1>16. Range(ends') = {p \in 1..Consumed' : received'[p] = NUL}
  <2>1. Range(ends') = Range(ends) \cup {Consumed + next}
    <3>1. DOMAIN ends' = 1..(Len(ends) + 1) /\ DOMAIN ends = 1..Len(ends)
          BY <1>1, <1>3, <1>10
    <3>2. \A i \in 1..(Len(ends) + 1) : i \in 1..Len(ends) \/ i = Len(ends) + 1
          BY <1>10
    <3>3. 1..Len(ends) \subseteq 1..(Len(ends) + 1) /\ Len(ends) + 1 \in 1..(Len(ends) + 1)
          BY <1>10
    <3> QED BY <1>10, <3>1, <3>2, <3>3 DEF Range
  <2>2. received[Consumed + next] = NUL
        BY <1>2, <1>11
  <2>3. ASSUME NEW p \in 1..(Consumed + next), p > Consumed, p # Consumed + next
        PROVE  received[p] # NUL
    <3>1. p - Consumed \in 1..(next - 1) /\ p - Consumed \in 1..Len(buf) /\ Consumed + (p - Consumed) = p
          BY <1>4, <2>3
    <3>2. buf[p - Consumed] # NUL
          BY <1>2, <3>1
    <3>3. buf[p - Consumed] = received[Consumed + (p - Consumed)]
          BY <1>11, <3>1
    <3> QED BY <3>1, <3>2, <3>3
  <2>4. \A p \in 1..(Consumed + next) : p \in 1..Consumed \/ p > Consumed
        BY <1>4
  <2>5. 1..Consumed \subseteq 1..(Consumed + next) /\ Consumed + next \in 1..(Consumed + next)
        BY <1>4
  <2>6. Range(ends) = {p \in 1..Consumed : received[p] = NUL}
        BY DEF InInv
  <2> QED BY <1>3, <1>10, <2>1, <2>2, <2>3, <2>4, <2>5, <2>6
<1>17. LastEnd' + Len(inbuf') = Consumed'
       BY <1>3, <1>4, <1>10
<1>18. to_serial = SubSeq(received, LastEnd + 1, (Consumed + next) - 1)
  <2> DEFINE m == LastEnd + 1
             n == (Consumed + next) - 1
  <2>1. /\ m \in Nat \ {0} /\ n \in 0..Len(received) /\ m <= n + 1
        /\ n - m + 1 = Len(inbuf) + (next - 1) /\ LastEnd \in Nat
    <3>1. LastEnd \in 0..Consumed /\ LastEnd + Len(inbuf) = Consumed
          BY <1>11
    <3> QED BY <1>4, <3>1
  <2>2. \A i \in Int : m + i - 1 = LastEnd + i
        BY <2>1
  <2> HIDE DEF m, n
  <2> DEFINE part == SubSeq(received, m, n)
  <2>3. /\ part \in Seq(Bytes \cup {NUL}) /\ Len(part) = n - m + 1
        /\ \A i \in 1..(n - m + 1) : part[i] = received[m + i - 1]
        BY <1>1, <2>1, PartBytes
  <2> HIDE DEF part
  <2>4. ASSUME NEW i \in 1..(Len(inbuf) + (next - 1)) PROVE to_serial[i] = part[i]
    <3>1. part[i] = received[LastEnd + i]
      <4>1. part[i] = received[m + i - 1]
            BY <2>1, <2>3
      <4>2. m + i - 1 = LastEnd + i
            BY <2>2
      <4> QED BY <4>1, <4>2
    <3>2. CASE i <= Len(inbuf)
      <4>1. i \in 1..Len(inbuf)
            BY <1>4, <3>2
      <4> QED BY <1>7, <1>11, <3>1, <4>1
    <3>3. CASE i > Len(inbuf)
      <4> DEFINE j == i - Len(inbuf)
      <4>1. j \in 1..(next - 1) /\ j \in 1..Len(buf) /\ i = Len(inbuf) + j
            BY <1>4, <3>3
      <4>2. LastEnd + i = Consumed + j
        <5>1. LastEnd + Len(inbuf) = Consumed
              BY <1>11
        <5> QED BY <1>4, <2>1, <5>1
      <4> HIDE DEF j
      <4> QED BY <1>7, <1>11, <3>1, <4>1, <4>2
    <3> QED BY <1>4, <3>2, <3>3
  <2>5. to_serial \in Seq(Bytes \cup {NUL})
        BY <1>7
  <2>6. to_serial = part
        BY <1>7, <2>1, <2>3, <2>4, <2>5, SameSeq
  <2> QED BY <2>6 DEF part, m, n
<1>19. ASSUME NEW i \in 1..Len(ends')
       PROVE  \E t \in Tails \cup {<<>>} : strings'[i] = StringAt(i)' \o t
  <2>1. CASE i = Len(ends) + 1
    <3>1. Start(i)' = LastEnd + 1
      <4>1. Start(i)' = Start(i)
        <5>1. i = 1 \/ i - 1 \in 1..Len(ends)
              BY <1>10, <2>1
        <5> QED BY <1>10, <5>1 DEF Start
      <4> QED BY <1>11, <2>1, <4>1
    <3>2. StringAt(i)' = to_serial
          BY <1>3, <1>10, <1>18, <2>1, <3>1 DEF StringAt
    <3>3. strings'[i] = given
      <4>1. Len(strings) = Len(ends)
            BY DEF InInv
      <4>2. strings \in Seq(Seq(Bytes)) /\ given \in Seq(Bytes) /\ strings' = Append(strings, given)
            BY <1>1, <1>3, <1>8
      <4>3. strings'[Len(strings) + 1] = given
            BY <4>2
      <4> QED BY <2>1, <4>1, <4>3
    <3> QED BY <1>8, <3>2, <3>3
  <2>2. CASE i # Len(ends) + 1
    <3>1. i \in 1..Len(ends) /\ (i = 1 \/ i - 1 \in 1..Len(ends)) /\ Len(strings) = Len(ends)
          BY <1>10, <2>2 DEF InInv
    <3>2. StringAt(i)' = StringAt(i)
          BY <1>3, <1>10, <3>1 DEF StringAt, Start
    <3> QED BY <1>14, <3>1, <3>2 DEF InInv
  <2> QED BY <2>1, <2>2
<1>20. /\ splitting' => in_open'
       /\ ~splitting' => buf' = <<>>
       /\ ~in_open' => Len(received') - LastEnd' > MAX_INBUF_SZ
       BY <1>1, <1>3
<1>21. in_open' => /\ LastEnd' + Len(inbuf') = Consumed'
                   /\ \A i \in 1..Len(inbuf') : inbuf'[i] = received'[LastEnd' + i]
       BY <1>3, <1>17
<1> QED BY <1>9, <1>12, <1>13, <1>14, <1>15, <1>16, <1>19, <1>20, <1>21 DEF InInv

LEMMA StepIn ==
  ASSUME InInv, [InNext]_invars
  PROVE  InInv'
<1>1. ASSUME NEW payload \in InPayloads, ctrl_engine_readcb(payload)
      PROVE  InInv'
      BY <1>1, ReadIn
<1>2. ASSUME NEW tail \in Tails, CompleteString(tail)
      PROVE  InInv'
      BY <1>2, CompleteIn
<1>3. CASE KeepRest
      BY <1>3, KeepIn
<1>4. CASE DropRest
      BY <1>4, DropIn
<1>5. CASE UNCHANGED invars
  <2>1. /\ InTypeOK' /\ LastEnd' = LastEnd /\ Consumed' = Consumed
        /\ \A i \in 1..Len(ends) : StringAt(i)' = StringAt(i)
        BY <1>5 DEF InInv, InTypeOK, invars, LastEnd, Consumed, StringAt, Start
  <2> QED BY <1>5, <2>1 DEF InInv, invars
<1> QED BY <1>1, <1>2, <1>3, <1>4, <1>5 DEF InNext

(* What of the stream is in inbuf and in buf, for an open connection: all  *)
(* after the last separator found.                                         *)
LEMMA RestOfStream ==
  ASSUME InInv, in_open
  PROVE  inbuf \o buf = SubSeq(received, Start(Len(ends) + 1), Len(received))
<1> DEFINE whole == inbuf \o buf
           m == LastEnd + 1
           n == Len(received)
           part == SubSeq(received, m, n)
<1>1. /\ received \in Seq(Bytes \cup {NUL}) /\ buf \in Seq(Bytes \cup {NUL})
      /\ inbuf \in Seq(Bytes \cup {NUL})
      BY DEF InInv, InTypeOK
<1>2. /\ Consumed = Len(received) - Len(buf) /\ Len(received) \in Nat /\ Len(buf) \in Nat
      /\ Len(inbuf) \in Nat
      BY <1>1 DEF Consumed
<1>3. /\ LastEnd \in 0..Consumed /\ Start(Len(ends) + 1) = LastEnd + 1 /\ Consumed \in Nat
      BY EndsInStream
<1>4. /\ LastEnd + Len(inbuf) = Consumed
      /\ \A i \in 1..Len(inbuf) : inbuf[i] = received[LastEnd + i]
      /\ \A i \in 1..Len(buf) : buf[i] = received[Consumed + i]
      BY DEF InInv
<1>5. /\ whole \in Seq(Bytes \cup {NUL}) /\ Len(whole) = Len(inbuf) + Len(buf)
      /\ \A i \in 1..Len(inbuf) : whole[i] = inbuf[i]
      /\ \A i \in 1..Len(buf) : whole[Len(inbuf) + i] = buf[i]
      BY <1>1
<1>6. /\ m \in Nat \ {0} /\ n \in 0..Len(received) /\ m <= n + 1
      /\ n - m + 1 = Len(inbuf) + Len(buf) /\ LastEnd \in Nat
  <2>1. LastEnd + Len(inbuf) = Consumed
        BY <1>4
  <2> QED BY <1>2, <1>3, <2>1
<1>7. \A i \in Int : m + i - 1 = LastEnd + i
      BY <1>6
<1>8. Start(Len(ends) + 1) = m
      BY <1>3
<1> HIDE DEF m
<1>9. /\ part \in Seq(Bytes \cup {NUL}) /\ Len(part) = n - m + 1
      /\ \A i \in 1..(n - m + 1) : part[i] = received[m + i - 1]
      BY <1>1, <1>6, PartBytes
<1> HIDE DEF part, whole, n
<1>10. ASSUME NEW i \in 1..(Len(inbuf) + Len(buf)) PROVE whole[i] = part[i]
  <2>1. part[i] = received[LastEnd + i]
    <3>1. part[i] = received[m + i - 1]
          BY <1>6, <1>9
    <3>2. m + i - 1 = LastEnd + i
          BY <1>7
    <3> QED BY <3>1, <3>2
  <2>2. CASE i <= Len(inbuf)
    <3>1. i \in 1..Len(inbuf)
          BY <1>2, <2>2
    <3> QED BY <1>4, <1>5, <2>1, <3>1
  <2>3. CASE i > Len(inbuf)
    <3> DEFINE j == i - Len(inbuf)
    <3>1. j \in 1..Len(buf) /\ i = Len(inbuf) + j
          BY <1>2, <2>3
    <3>2. LastEnd + i = Consumed + j
      <4>1. LastEnd + Len(inbuf) = Consumed
            BY <1>4
      <4> QED BY <1>2, <1>6, <4>1
    <3> HIDE DEF j
    <3> QED BY <1>4, <1>5, <2>1, <3>1, <3>2
  <2> QED BY <1>2, <2>2, <2>3
<1>11. whole = part
       BY <1>5, <1>6, <1>9, <1>10, SameSeq
<1> QED BY <1>8, <1>11 DEF whole, part, n

-----------------------------------------------------------------------------
(* Each byte of inbuf and of the packet is where the invariant says.       *)
THEOREM InInvariant == InSpec => []InInv
<1>1. InInit => InInv
      BY InitIn
<1>2. InInv /\ [InNext]_invars => InInv'
      BY StepIn
<1> QED BY <1>1, <1>2, PTL DEF InSpec

(* inbuf never holds more than MAX_INBUF_SZ bytes and never a separator,   *)
(* for packets and buffers of any size.                                    *)
THEOREM InTypeCorrect == InSpec => []InTypeOK
<1>1. InInv => InTypeOK
      BY DEF InInv
<1> QED BY <1>1, InInvariant, PTL

(* However the stream is cut into packets, there is one callback for each  *)
(* separator, in order, with the bytes of its string and whatever memory   *)
(* holds after them when the string came in more than one packet.          *)
THEOREM SplitButForTails == InSpec => []SplitsUpToTails
<1>1. InInv => SplitsUpToTails
  <2> SUFFICES ASSUME InInv PROVE SplitsUpToTails
      OBVIOUS
  <2>1. in_open => inbuf \o buf = SubSeq(received, Start(Len(ends) + 1), Len(received))
        BY RestOfStream
  <2> QED BY <2>1 DEF InInv, SplitsUpToTails, SeparatedInOrder, Consumed
<1> QED BY <1>1, InInvariant, PTL

(* Where a \0 happens to follow each string that was put together, the     *)
(* strings are exactly those of the stream.                                *)
THEOREM SplitExactly ==
  ASSUME Tails \subseteq {<<>>}
  PROVE  InSpec => []SplitsTheStream
<1>1. InInv => SplitsTheStream
  <2> SUFFICES ASSUME InInv PROVE SplitsTheStream
      OBVIOUS
  <2>1. SeparatedInOrder
    <3>1. in_open => inbuf \o buf = SubSeq(received, Start(Len(ends) + 1), Len(received))
          BY RestOfStream
    <3> QED BY <3>1 DEF InInv, SeparatedInOrder, Consumed
  <2>2. ASSUME NEW i \in 1..Len(ends) PROVE strings[i] = StringAt(i)
    <3>1. strings[i] = StringAt(i) \o <<>>
          BY DEF InInv
    <3>2. received \in Seq(Bytes \cup {NUL}) /\ ends \in Seq(Nat)
          BY DEF InInv, InTypeOK
    <3>3. StringAt(i) \in Seq(Bytes \cup {NUL})
      <4>1. ends[i] - 1 \in 0..Len(received)
        <5>1. ends[i] \in 1..Consumed /\ Consumed \in Nat
              BY EndsInStream
        <5>2. Consumed = Len(received) - Len(buf) /\ Len(buf) \in Nat /\ Len(received) \in Nat
              BY <3>2 DEF Consumed, InInv, InTypeOK
        <5> QED BY <5>1, <5>2
      <4>2. Start(i) \in Nat \ {0}
        <5>1. i = 1 \/ i - 1 \in 1..Len(ends)
              BY <3>2
        <5>2. i # 1 => ends[i - 1] \in Nat
              BY <3>2, <5>1
        <5> QED BY <5>2 DEF Start
      <4> QED BY <3>2, <4>1, <4>2 DEF StringAt
    <3> QED BY <3>1, <3>3
  <2> QED BY <2>1, <2>2 DEF SplitsTheStream
<1> QED BY <1>1, InInvariant, PTL

(* The connection is closed if and only if the string that has not ended   *)
(* yet is longer than inbuf.                                               *)
THEOREM ClosedOnlyForLong == InSpec => []ClosedForLongString
<1>1. InInv => ClosedForLongString
  <2> SUFFICES ASSUME InInv, ~splitting
               PROVE  in_open <=> Len(received) - Start(Len(ends) + 1) + 1 <= MAX_INBUF_SZ
      BY DEF ClosedForLongString
  <2>1. Start(Len(ends) + 1) = LastEnd + 1 /\ LastEnd \in 0..Consumed /\ Consumed \in Nat
        BY EndsInStream
  <2>2. buf = <<>> /\ Len(received) \in Nat /\ Len(inbuf) \in Nat /\ Len(inbuf) <= MAX_INBUF_SZ
        BY DEF InInv, InTypeOK
  <2>3. Consumed = Len(received)
        BY <2>2 DEF Consumed
  <2>4. Len(received) - Start(Len(ends) + 1) + 1 = Len(received) - LastEnd
        BY <2>1, <2>2
  <2>5. CASE in_open
    <3>1. LastEnd + Len(inbuf) = Consumed
          BY <2>5 DEF InInv
    <3> QED BY <2>1, <2>2, <2>3, <2>4, <2>5, <3>1, InAssumption
  <2>6. CASE ~in_open
    <3>1. Len(received) - LastEnd > MAX_INBUF_SZ
          BY <2>6 DEF InInv
    <3> QED BY <2>1, <2>2, <2>4, <2>6, <3>1, InAssumption
  <2> QED BY <2>5, <2>6
<1> QED BY <1>1, InInvariant, PTL
=============================================================================
