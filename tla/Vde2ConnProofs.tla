--------------------------- MODULE Vde2ConnProofs ---------------------------
(***************************************************************************)
(* Proofs about Vde2Conn, for every queue length, retry limit and number   *)
(* of packets.                                                             *)
(***************************************************************************)
EXTENDS Vde2Conn, SequenceTheorems, TLAPS

(* The packets in the queue are the last ones written, in order: the i-th  *)
(* of n is number written - n + i.  Packets never overtake each other and  *)
(* leave at the front only, so the queue is determined by its length.      *)
QueueIsSuffix ==
  /\ Len(pkt_queue) <= written
  /\ \A i \in 1..Len(pkt_queue) :
        pkt_queue[i].pkt = written - Len(pkt_queue) + i

(* Only the front packet has been tried, and its counter is the number of  *)
(* attempts that have failed.                                              *)
TriesCounted ==
  /\ tries <= SendMaxTries
  /\ pkt_queue = <<>> => tries = 0
  /\ pkt_queue # <<>> => pkt_queue[1].numtries = tries
  /\ \A i \in 2..Len(pkt_queue) : pkt_queue[i].numtries = 0

(* The packets before the queue's first are split between sent, which is   *)
(* in order, and dropped.                                                  *)
ResolvedSplit ==
  LET resolved == written - Len(pkt_queue)
  IN  /\ \A i \in 1..Len(sent) : sent[i] \in 1..resolved /\ sent[i] \notin dropped
      /\ dropped \subseteq 1..resolved
      /\ \A n \in 1..resolved : n \in dropped \/ \E i \in 1..Len(sent) : sent[i] = n

SentSorted == \A i, j \in 1..Len(sent) : i < j => sent[i] < sent[j]

IInv ==
  /\ TypeOK
  /\ QueueIsSuffix
  /\ QueueBounded
  /\ ArmedWhileQueued
  /\ NothingLeftAfterClose
  /\ TriesCounted
  /\ ResolvedSplit
  /\ SentSorted

(* The initial state satisfies the invariant. *)
LEMMA InitIInv == Init => IInv
<1> SUFFICES ASSUME Init PROVE IInv
  OBVIOUS
<1> USE ConnAssumption, MAXQLENAssumption DEF Init
<1>1. TypeOK
  <2>1. pkt_queue \in Seq(vde2_pkt(Nat)) /\ sent \in Seq(Nat)
    OBVIOUS
  <2>2. dropped \in SUBSET Nat
    OBVIOUS
  <2>3. written \in Nat /\ tries \in Nat
    OBVIOUS
  <2> QED
    BY <2>1, <2>2, <2>3 DEF TypeOK, Handlers, Callbacks
<1>2. QueueIsSuffix /\ QueueBounded /\ TriesCounted
  BY DEF QueueIsSuffix, QueueBounded, TriesCounted
<1>3. ArmedWhileQueued /\ NothingLeftAfterClose
  BY DEF ArmedWhileQueued, NothingLeftAfterClose
<1>4. ResolvedSplit /\ SentSorted
  BY DEF ResolvedSplit, SentSorted
<1> QED
  BY <1>1, <1>2, <1>3, <1>4 DEF IInv

(* A step that touches neither the queue nor the events nor the history,   *)
(* of a connection that is open.                                           *)
LEMMA HandlerStep ==
  ASSUME IInv, open, handler' \in Handlers,
         UNCHANGED <<pkt_queue, events, open, history>>
  PROVE  IInv'
<1> USE DEF IInv, events, history
<1>1. TypeOK'
  BY DEF TypeOK
<1>2. QueueIsSuffix' /\ QueueBounded' /\ TriesCounted' /\ ArmedWhileQueued'
  BY DEF QueueIsSuffix, QueueBounded, TriesCounted, ArmedWhileQueued
<1>3. NothingLeftAfterClose'
  BY DEF NothingLeftAfterClose
<1>4. ResolvedSplit' /\ SentSorted'
  BY DEF ResolvedSplit, SentSorted
<1> QED
  BY <1>1, <1>2, <1>3, <1>4

(* vde2_conn_write accepts a packet. *)
LEMMA WriteStep ==
  ASSUME IInv, open, ~QueueFull(pkt_queue), WriteAccepted
  PROVE  IInv'
<1> DEFINE p == [numtries |-> 0, pkt |-> written + 1]
<1> USE DEF WriteAccepted
<1>0. /\ TypeOK /\ QueueIsSuffix /\ QueueBounded /\ ArmedWhileQueued
      /\ NothingLeftAfterClose /\ TriesCounted /\ ResolvedSplit /\ SentSorted
  BY DEF IInv
<1>1. pkt_queue \in Seq(vde2_pkt(Nat)) /\ p \in vde2_pkt(Nat)
  BY <1>0 DEF TypeOK, vde2_pkt
<1>2. pkt_queue' = Append(pkt_queue, p)
  BY DEF QueuePush
<1> HIDE DEF p
<1>3. /\ pkt_queue' \in Seq(vde2_pkt(Nat))
      /\ pkt_queue' # <<>>
      /\ Len(pkt_queue') = Len(pkt_queue) + 1
      /\ \A i \in 1..Len(pkt_queue) : pkt_queue'[i] = pkt_queue[i]
      /\ pkt_queue'[Len(pkt_queue) + 1] = p
  BY <1>1, <1>2, AppendProperties
<1>4. p.pkt = written + 1 /\ p.numtries = 0
  BY DEF p
<1>5. Len(pkt_queue) \in Nat
  BY <1>1
<1>13. written \in Nat /\ written' = written + 1
  BY <1>0 DEF TypeOK
<1>6. TypeOK'
  BY <1>0, <1>3 DEF TypeOK
<1>7. QueueIsSuffix'
  <2>1. Len(pkt_queue') <= written'
    BY <1>0, <1>3, <1>5, <1>13 DEF QueueIsSuffix
  <2>2. ASSUME NEW i \in 1..Len(pkt_queue')
        PROVE  pkt_queue'[i].pkt = written' - Len(pkt_queue') + i
    <3>1. CASE i \in 1..Len(pkt_queue)
      <4>1. pkt_queue'[i].pkt = written - Len(pkt_queue) + i
        BY <3>1, <1>0, <1>3 DEF QueueIsSuffix
      <4>2. written - Len(pkt_queue) = written' - Len(pkt_queue')
        BY <1>3, <1>5, <1>13
      <4> QED
        BY <4>1, <4>2
    <3>2. CASE i = Len(pkt_queue) + 1
      BY <3>2, <1>3, <1>4, <1>5, <1>13
    <3> QED
      BY <3>1, <3>2, <1>3, <1>5
  <2> QED
    BY <2>1, <2>2 DEF QueueIsSuffix
<1>8. QueueBounded'
  BY <1>0, <1>3, <1>5, MAXQLENAssumption DEF QueueBounded, QueueFull
<1>9. ArmedWhileQueued' /\ NothingLeftAfterClose'
  BY <1>0 DEF ArmedWhileQueued, NothingLeftAfterClose
<1>10. TriesCounted'
  <2>1. pkt_queue'[1].numtries = tries
    <3>1. CASE pkt_queue = <<>>
      BY <3>1, <1>0, <1>3, <1>4 DEF TriesCounted
    <3>2. CASE pkt_queue # <<>>
      BY <3>2, <1>0, <1>1, <1>3, <1>5, EmptySeq DEF TriesCounted
    <3> QED
      BY <3>1, <3>2
  <2>2. \A i \in 2..Len(pkt_queue') : pkt_queue'[i].numtries = 0
    BY <1>0, <1>3, <1>4, <1>5 DEF TriesCounted
  <2> QED
    BY <2>1, <2>2, <1>0, <1>3 DEF TriesCounted
<1>11. written' - Len(pkt_queue') = written - Len(pkt_queue)
  BY <1>3, <1>5, <1>13
<1>12. ResolvedSplit' /\ SentSorted'
  BY <1>0, <1>11 DEF ResolvedSplit, SentSorted
<1> QED
  BY <1>6, <1>7, <1>8, <1>9, <1>10, <1>12 DEF IInv

(* The front packet leaves the queue: either sent or dropped, not both. *)
LEMMA PopStep ==
  ASSUME IInv, PopFront, handler' \in Handlers, open,
         NEW p, p = Head(pkt_queue).pkt,
         \/ sent' = Append(sent, p) /\ dropped' = dropped
         \/ sent' = sent /\ dropped' = dropped \cup {p}
  PROVE  IInv'
<1>0. /\ TypeOK /\ QueueIsSuffix /\ QueueBounded /\ ArmedWhileQueued
      /\ NothingLeftAfterClose /\ TriesCounted /\ ResolvedSplit /\ SentSorted
  BY DEF IInv
<1>1. /\ pkt_queue \in Seq(vde2_pkt(Nat)) /\ pkt_queue # <<>>
      /\ written \in Nat /\ sent \in Seq(Nat) /\ dropped \in SUBSET Nat
      /\ Len(pkt_queue) \in Nat /\ Len(sent) \in Nat
  BY <1>0 DEF TypeOK, PopFront
<1>2. /\ pkt_queue' \in Seq(vde2_pkt(Nat))
      /\ Len(pkt_queue) > 0
      /\ Len(pkt_queue') = Len(pkt_queue) - 1
      /\ \A i \in 1..Len(pkt_queue') : pkt_queue'[i] = pkt_queue[i + 1]
  BY <1>1, EmptySeq, HeadTailProperties DEF PopFront
<1>3. tries' = 0 /\ written' = written /\ UNCHANGED <<events, open>>
  BY DEF PopFront
<1> DEFINE r == written - Len(pkt_queue)
<1>4. r \in Nat /\ p = r + 1 /\ written' - Len(pkt_queue') = r + 1
  BY <1>0, <1>1, <1>2, <1>3 DEF QueueIsSuffix
<1>5. sent' \in Seq(Nat) /\ dropped' \in SUBSET Nat
  <2>1. p \in Nat
    BY <1>4
  <2>2. Append(sent, p) \in Seq(Nat)
    BY <2>1, <1>1, AppendProperties
  <2>3. dropped \cup {p} \in SUBSET Nat
    BY <2>1, <1>1
  <2> QED
    BY <2>2, <2>3, <1>1
<1>6. TypeOK'
  BY <1>0, <1>2, <1>3, <1>5 DEF TypeOK, events
<1>7. QueueIsSuffix' /\ QueueBounded'
  <2>1. ASSUME NEW i \in 1..Len(pkt_queue')
        PROVE  pkt_queue'[i].pkt = written' - Len(pkt_queue') + i
    <3>1. i + 1 \in 1..Len(pkt_queue) /\ i \in Nat
      BY <1>1, <1>2
    <3>2. pkt_queue[i + 1].pkt = r + (i + 1)
      BY <1>0, <3>1 DEF QueueIsSuffix
    <3> QED
      BY <3>1, <3>2, <1>2, <1>4
  <2> QED
    BY <2>1, <1>0, <1>1, <1>2, <1>3, MAXQLENAssumption DEF QueueIsSuffix, QueueBounded
<1>8. ArmedWhileQueued' /\ NothingLeftAfterClose'
  BY <1>0, <1>1, <1>3 DEF ArmedWhileQueued, NothingLeftAfterClose, events
<1>9. TriesCounted'
  <2>1. \A i \in 1..Len(pkt_queue') : pkt_queue'[i].numtries = 0
    <3> SUFFICES ASSUME NEW i \in 1..Len(pkt_queue')
                 PROVE  pkt_queue'[i].numtries = 0
      OBVIOUS
    <3>1. i + 1 \in 2..Len(pkt_queue)
      BY <1>1, <1>2
    <3> QED
      BY <3>1, <1>0, <1>2 DEF TriesCounted
  <2>2. pkt_queue' # <<>> => 1 \in 1..Len(pkt_queue')
    BY <1>2, EmptySeq
  <2>3. 2..Len(pkt_queue') \subseteq 1..Len(pkt_queue')
    BY <1>1, <1>2
  <2> QED
    BY <2>1, <2>2, <2>3, <1>3, ConnAssumption DEF TriesCounted
<1> HIDE DEF r
<1>10. /\ \A i \in 1..Len(sent) : sent[i] \in 1..r /\ sent[i] \notin dropped
       /\ dropped \subseteq 1..r
       /\ \A n \in 1..r : n \in dropped \/ \E i \in 1..Len(sent) : sent[i] = n
  BY <1>0 DEF ResolvedSplit, r
<1>11. (/\ \A i \in 1..Len(sent') : sent'[i] \in 1..(r+1) /\ sent'[i] \notin dropped'
        /\ dropped' \subseteq 1..(r+1)
        /\ \A n \in 1..(r+1) : n \in dropped' \/ \E i \in 1..Len(sent') : sent'[i] = n)
       /\ SentSorted'
  <2>1. CASE sent' = Append(sent, p) /\ dropped' = dropped
    <3>1. /\ Len(sent') = Len(sent) + 1
          /\ \A i \in 1..Len(sent) : sent'[i] = sent[i]
          /\ sent'[Len(sent) + 1] = r + 1
      BY <2>1, <1>1, <1>4, AppendProperties
    <3>2. \A i \in 1..Len(sent') : i \in 1..Len(sent) \/ i = Len(sent) + 1
      BY <3>1, <1>1
    <3>3. \A n \in 1..(r+1) : n \in 1..r \/ n = r + 1
      BY <1>4
    <3>4. \A i \in 1..Len(sent') : sent'[i] \in 1..(r+1) /\ sent'[i] \notin dropped'
      BY <2>1, <3>1, <3>2, <1>4, <1>10
    <3>5. ASSUME NEW n \in 1..(r+1)
          PROVE  n \in dropped' \/ \E i \in 1..Len(sent') : sent'[i] = n
      <4>1. CASE n = r + 1
        BY <4>1, <3>1, <1>1
      <4>2. CASE n \in 1..r
        <5>1. ASSUME NEW i \in 1..Len(sent), sent[i] = n
              PROVE  \E j \in 1..Len(sent') : sent'[j] = n
          BY <5>1, <3>1, <1>1
        <5> QED
          BY <5>1, <4>2, <2>1, <1>10
      <4> QED
        BY <4>1, <4>2, <3>3
    <3>6. SentSorted'
      <4> SUFFICES ASSUME NEW i \in 1..Len(sent'), NEW j \in 1..Len(sent'), i < j
                   PROVE  sent'[i] < sent'[j]
        BY DEF SentSorted
      <4>1. i \in 1..Len(sent)
        BY <3>1, <1>1
      <4>2. CASE j \in 1..Len(sent)
        BY <4>1, <4>2, <3>1, <1>0 DEF SentSorted
      <4>3. CASE j = Len(sent) + 1
        BY <4>1, <4>3, <3>1, <1>10, <1>4
      <4> QED
        BY <4>2, <4>3, <3>2
    <3> QED
      BY <3>4, <3>5, <3>6, <2>1, <1>4, <1>10
  <2>2. CASE sent' = sent /\ dropped' = dropped \cup {p}
    <3>1. \A n \in 1..(r+1) : n \in 1..r \/ n = r + 1
      BY <1>4
    <3>2. r + 1 \notin 1..r /\ 1..r \subseteq 1..(r+1) /\ r + 1 \in 1..(r+1)
      BY <1>4
    <3> QED
      BY <2>2, <3>1, <3>2, <1>0, <1>4, <1>10 DEF SentSorted
  <2> QED
    BY <2>1, <2>2
<1>12. ResolvedSplit'
  BY <1>11, <1>4 DEF ResolvedSplit
<1> QED
  BY <1>6, <1>7, <1>8, <1>9, <1>11, <1>12 DEF IInv

(* The front packet is kept for another attempt. *)
LEMMA RetryStep ==
  ASSUME IInv, SendRetry, open
  PROVE  IInv'
<1>0. /\ TypeOK /\ QueueIsSuffix /\ QueueBounded /\ ArmedWhileQueued
      /\ NothingLeftAfterClose /\ TriesCounted /\ ResolvedSplit /\ SentSorted
  BY DEF IInv
<1>1. /\ pkt_queue \in Seq(vde2_pkt(Nat)) /\ pkt_queue # <<>>
      /\ tries \in Nat /\ tries' = tries + 1 /\ handler' = "idle"
      /\ UNCHANGED <<data_ev_wr, data_ev_rd, ctl_ev, open, written, sent, dropped>>
      /\ ~GivesUp(pkt_queue, SendMaxTries) /\ pkt_queue' = QueueRetry(pkt_queue)
  BY <1>0 DEF TypeOK, SendRetry, events
<1>2. Len(pkt_queue) \in Nat /\ 1 \in 1..Len(pkt_queue)
  BY <1>1, EmptySeq
<1>3. \A i \in 1..Len(pkt_queue) : pkt_queue[i] \in vde2_pkt(Nat)
  BY <1>1, ElementOfSeq
<1>4. /\ pkt_queue' \in Seq(vde2_pkt(Nat))
      /\ Len(pkt_queue') = Len(pkt_queue)
      /\ \A i \in 1..Len(pkt_queue) : pkt_queue'[i].pkt = pkt_queue[i].pkt
      /\ \A i \in 2..Len(pkt_queue) : pkt_queue'[i] = pkt_queue[i]
      /\ pkt_queue'[1].numtries = pkt_queue[1].numtries + 1
  <2> DEFINE p == [pkt_queue[1] EXCEPT !.numtries = @ + 1]
  <2>1. /\ p \in vde2_pkt(Nat) /\ p.pkt = pkt_queue[1].pkt
        /\ p.numtries = pkt_queue[1].numtries + 1
    BY <1>2, <1>3 DEF vde2_pkt
  <2>2. pkt_queue' = [pkt_queue EXCEPT ![1] = p]
    BY <1>1 DEF QueueRetry
  <2> HIDE DEF p
  <2>3. /\ pkt_queue' \in Seq(vde2_pkt(Nat)) /\ Len(pkt_queue') = Len(pkt_queue)
        /\ \A i \in 1..Len(pkt_queue) :
              pkt_queue'[i] = IF i = 1 THEN p ELSE pkt_queue[i]
    BY <2>1, <2>2, <1>1, <1>2, ExceptSeq
  <2>4. \A i \in 2..Len(pkt_queue) : i \in 1..Len(pkt_queue) /\ i # 1
    BY <1>2
  <2> QED
    BY <2>1, <2>3, <2>4, <1>2
<1>5. TypeOK'
  BY <1>0, <1>1, <1>4 DEF TypeOK, Handlers
<1>6. QueueIsSuffix' /\ QueueBounded'
  BY <1>0, <1>1, <1>4 DEF QueueIsSuffix, QueueBounded
<1>7. ArmedWhileQueued' /\ NothingLeftAfterClose'
  BY <1>0, <1>1 DEF ArmedWhileQueued, NothingLeftAfterClose
<1>8. TriesCounted'
  <2>1. pkt_queue[1].numtries = tries /\ Head(pkt_queue) = pkt_queue[1]
    BY <1>0, <1>1 DEF TriesCounted
  <2>2. tries + 1 <= SendMaxTries
    BY <2>1, <1>1, ConnAssumption DEF GivesUp
  <2>3. pkt_queue' # <<>>
    BY <1>2, <1>4
  <2> QED
    BY <2>1, <2>2, <2>3, <1>0, <1>1, <1>4 DEF TriesCounted
<1>9. ResolvedSplit' /\ SentSorted'
  BY <1>0, <1>1, <1>4 DEF ResolvedSplit, SentSorted
<1> QED
  BY <1>5, <1>6, <1>7, <1>8, <1>9 DEF IInv

(* The write event is removed: only from a connection with an empty queue. *)
LEMMA LoopEndStep ==
  ASSUME IInv, SendLoopEnd, open
  PROVE  IInv'
<1>1. /\ UNCHANGED <<pkt_queue, data_ev_rd, ctl_ev, open, written, sent, dropped, tries>>
      /\ handler' = "idle" /\ data_ev_wr' = FALSE /\ pkt_queue = <<>>
  BY DEF SendLoopEnd, history
<1>2. TypeOK'
  BY <1>1 DEF IInv, TypeOK, Handlers
<1>3. QueueIsSuffix' /\ QueueBounded' /\ TriesCounted'
  BY <1>1 DEF IInv, QueueIsSuffix, QueueBounded, TriesCounted
<1>4. ArmedWhileQueued' /\ NothingLeftAfterClose'
  BY <1>1 DEF IInv, ArmedWhileQueued, NothingLeftAfterClose
<1>5. ResolvedSplit' /\ SentSorted'
  BY <1>1 DEF IInv, ResolvedSplit, SentSorted
<1> QED
  BY <1>2, <1>3, <1>4, <1>5 DEF IInv

(* Closing drains the queue into dropped. *)
LEMMA CloseStep ==
  ASSUME IInv, vde2_conn_close
  PROVE  IInv'
<1>0. /\ TypeOK /\ QueueIsSuffix /\ ResolvedSplit /\ SentSorted
  BY DEF IInv
<1>1. /\ pkt_queue \in Seq(vde2_pkt(Nat)) /\ Len(pkt_queue) \in Nat
      /\ written \in Nat /\ dropped \in SUBSET Nat
  BY <1>0 DEF TypeOK
<1>2. /\ pkt_queue' = <<>> /\ tries' = 0 /\ written' = written /\ sent' = sent
      /\ dropped' = dropped \cup {pkt_queue[i].pkt : i \in 1..Len(pkt_queue)}
  BY <1>1 DEF vde2_conn_close
<1> DEFINE r == written - Len(pkt_queue)
<1>3. r \in Nat /\ \A i \in 1..Len(pkt_queue) : pkt_queue[i].pkt = r + i
  BY <1>0, <1>1 DEF QueueIsSuffix
<1>4. /\ \A i \in 1..Len(sent) : sent[i] \in 1..r /\ sent[i] \notin dropped
      /\ dropped \subseteq 1..r
      /\ \A n \in 1..r : n \in dropped \/ \E i \in 1..Len(sent) : sent[i] = n
  BY <1>0 DEF ResolvedSplit
<1>5. written = r + Len(pkt_queue)
  BY <1>1
<1> HIDE DEF r
<1>6. \A n : n \in dropped' <=> n \in dropped \/ n \in (r+1)..written
  <2>1. \A i \in 1..Len(pkt_queue) : r + i \in (r+1)..written
    BY <1>1, <1>3, <1>5
  <2>2. \A n \in (r+1)..written : n - r \in 1..Len(pkt_queue) /\ n = r + (n - r)
    BY <1>1, <1>3, <1>5
  <2> QED
    BY <2>1, <2>2, <1>2, <1>3
<1>7. /\ 1..r \subseteq 1..written /\ (r+1)..written \subseteq 1..written
      /\ \A n \in 1..written : n \in 1..r \/ n \in (r+1)..written
      /\ \A n \in 1..r : n \notin (r+1)..written
      /\ 1..written \subseteq Nat
  BY <1>1, <1>3, <1>5
<1>8. /\ \A i \in 1..Len(sent) : sent[i] \in 1..written /\ sent[i] \notin dropped'
      /\ dropped' \subseteq 1..written
      /\ \A n \in 1..written : n \in dropped' \/ \E i \in 1..Len(sent) : sent[i] = n
  BY <1>4, <1>6, <1>7
<1>9. written' - Len(pkt_queue') = written
  BY <1>1, <1>2
<1>10. ResolvedSplit' /\ SentSorted'
  BY <1>0, <1>2, <1>8, <1>9 DEF ResolvedSplit, SentSorted
<1>11. TypeOK'
  <2>1. dropped' \in SUBSET Nat
    BY <1>7, <1>8
  <2>2. pkt_queue' \in Seq(vde2_pkt(Nat)) /\ tries' \in Nat
    BY <1>2
  <2> QED
    BY <2>1, <2>2, <1>0 DEF TypeOK, vde2_conn_close, Handlers
<1>12. QueueIsSuffix' /\ QueueBounded' /\ TriesCounted'
  BY <1>1, <1>2, ConnAssumption, MAXQLENAssumption
     DEF QueueIsSuffix, QueueBounded, TriesCounted
<1>13. ArmedWhileQueued' /\ NothingLeftAfterClose'
  BY DEF ArmedWhileQueued, NothingLeftAfterClose, vde2_conn_close
<1> QED
  BY <1>10, <1>11, <1>12, <1>13 DEF IInv

(* A handler is running only on an open connection. *)
LEMMA RunningIsOpen ==
  ASSUME IInv, handler # "idle"
  PROVE  open
BY DEF IInv, TypeOK, NothingLeftAfterClose

(* Every step keeps the invariant. *)
LEMMA StepIInv == IInv /\ [Next]_vars => IInv'
<1> SUFFICES ASSUME IInv, [Next]_vars
             PROVE  IInv'
  OBVIOUS
<1>1. ASSUME NEW size \in Sizes, vde2_conn_write(size)
      PROVE  IInv'
  <2>1. CASE UNCHANGED vars
    BY <2>1, <1>1, HandlerStep
       DEF vars, vde2_conn_write, IInv, TypeOK
  <2>2. CASE ~QueueFull(pkt_queue) /\ WriteAccepted
    BY <2>2, <1>1, WriteStep DEF vde2_conn_write
  <2> QED
    BY <2>1, <2>2, <1>1 DEF vde2_conn_write
<1>2. CASE engine_fini
  BY <1>2, CloseStep DEF engine_fini
<1>3. CASE WriteEvent
  BY <1>3, HandlerStep DEF WriteEvent, Handlers
<1>4. CASE SendDone
  <2>1. handler' \in Handlers /\ handler # "idle"
    BY <1>4 DEF SendDone, PopFront, Handlers, Callbacks
  <2> QED
    BY <2>1, <1>4, RunningIsOpen, PopStep DEF SendDone
<1>5. CASE SendFatal \/ SendGivesUp
  <2>1. handler' \in Handlers /\ handler # "idle"
    BY <1>5 DEF SendFatal, SendGivesUp, PopFront, Handlers, Callbacks
  <2> QED
    BY <2>1, <1>5, RunningIsOpen, PopStep DEF SendFatal, SendGivesUp
<1>6. CASE SendRetry
  BY <1>6, RunningIsOpen, RetryStep DEF SendRetry
<1>7. CASE SendLoopEnd
  BY <1>7, RunningIsOpen, LoopEndStep DEF SendLoopEnd
<1>8. ASSUME NEW frame \in BOOLEAN, ReadDataEvent(frame)
      PROVE  IInv'
  BY <1>8, HandlerStep DEF ReadDataEvent, Handlers, Callbacks
<1>9. ASSUME NEW closed \in BOOLEAN, ReadCtlEvent(closed)
      PROVE  IInv'
  BY <1>9, HandlerStep DEF ReadCtlEvent, Handlers, Callbacks
<1>10. ASSUME NEW verdict \in Verdicts, CallbackReturns(verdict)
       PROVE  IInv'
  <2>1. CASE vde2_conn_close
    BY <2>1, CloseStep
  <2>2. CASE /\ handler' \in Handlers
             /\ UNCHANGED <<pkt_queue, events, open, history>>
    <3>1. open
      BY <1>10, RunningIsOpen DEF CallbackReturns, Callbacks
    <3> QED
      BY <3>1, <2>2, HandlerStep
  <2> QED
    BY <2>1, <2>2, <1>10 DEF CallbackReturns, Handlers
<1>11. CASE UNCHANGED vars
  <2>1. UNCHANGED <<pkt_queue, data_ev_wr, data_ev_rd, ctl_ev, open, handler,
                    written, sent, dropped, tries>>
    BY <1>11 DEF vars, events, history
  <2> QED
    BY <2>1 DEF IInv, TypeOK, QueueIsSuffix, QueueBounded, ArmedWhileQueued,
                NothingLeftAfterClose, TriesCounted, ResolvedSplit, SentSorted
<1> QED
  BY <1>1, <1>2, <1>3, <1>4, <1>5, <1>6, <1>7, <1>8, <1>9, <1>10, <1>11
     DEF Next, WriteSteps

(* So it holds in every reachable state. *)
LEMMA Invariance == Spec => []IInv
BY InitIInv, StepIInv, PTL DEF Spec

(* What the invariant says of the packets written. *)
LEMMA IInvAccounts == IInv => EveryPacketAccounted /\ SentInOrder /\ AttemptsBounded
<1> SUFFICES ASSUME IInv
             PROVE  EveryPacketAccounted /\ SentInOrder /\ AttemptsBounded
  OBVIOUS
<1>1. /\ pkt_queue \in Seq(vde2_pkt(Nat)) /\ Len(pkt_queue) \in Nat
      /\ written \in Nat /\ sent \in Seq(Nat)
      /\ DOMAIN pkt_queue = 1..Len(pkt_queue) /\ DOMAIN sent = 1..Len(sent)
  BY DEF IInv, TypeOK
<1> DEFINE r == written - Len(pkt_queue)
<1>2. r \in Nat /\ \A i \in 1..Len(pkt_queue) : pkt_queue[i].pkt = r + i
  <2>1. Len(pkt_queue) <= written
    BY DEF IInv, QueueIsSuffix
  <2>2. r \in Nat
    BY <1>1, <2>1
  <2>3. \A i \in 1..Len(pkt_queue) : pkt_queue[i].pkt = r + i
    BY DEF IInv, QueueIsSuffix
  <2> QED
    BY <2>2, <2>3
<1>3. /\ \A i \in 1..Len(sent) : sent[i] \in 1..r /\ sent[i] \notin dropped
      /\ dropped \subseteq 1..r
      /\ \A n \in 1..r : n \in dropped \/ \E i \in 1..Len(sent) : sent[i] = n
  BY DEF IInv, ResolvedSplit
<1>4. written = r + Len(pkt_queue)
  BY <1>1
<1> HIDE DEF r
<1>5. InQueue = (r+1)..written
  <2>1. \A i \in 1..Len(pkt_queue) : r + i \in (r+1)..written
    BY <1>1, <1>2, <1>4
  <2>2. \A n \in (r+1)..written : n - r \in 1..Len(pkt_queue) /\ n = r + (n - r)
    BY <1>1, <1>2, <1>4
  <2>3. \A n \in InQueue : n \in (r+1)..written
    BY <2>1, <1>1, <1>2 DEF InQueue
  <2>4. ASSUME NEW n \in (r+1)..written
        PROVE  n \in InQueue
    <3>1. pkt_queue[n - r].pkt = n
      BY <2>2, <1>2
    <3> QED
      BY <3>1, <2>2, <1>1 DEF InQueue
  <2> QED
    BY <2>3, <2>4
<1>6. /\ \A n : n \in 1..written <=> n \in 1..r \/ n \in (r+1)..written
      /\ \A n \in 1..r : n \notin (r+1)..written
  BY <1>1, <1>2, <1>4
<1>7. EveryPacketAccounted
  <2>1. \A n : n \in WasSent <=> \E i \in 1..Len(sent) : sent[i] = n
    BY <1>1 DEF WasSent
  <2>2. WasSent \subseteq 1..r /\ WasSent \cap dropped = {}
    BY <2>1, <1>3
  <2>3. WasSent \cup dropped = 1..r
    BY <2>1, <2>2, <1>3
  <2> QED
    BY <2>2, <2>3, <1>3, <1>5, <1>6 DEF EveryPacketAccounted
<1>8. SentInOrder
  BY <1>1 DEF IInv, SentSorted, SentInOrder
<1>9. AttemptsBounded
  BY DEF IInv, TriesCounted, AttemptsBounded
<1> QED
  BY <1>7, <1>8, <1>9

(* Every variable keeps its type. *)
THEOREM TypeCorrect == Spec => []TypeOK
BY Invariance, PTL DEF IInv

(* Whatever MAXQLEN and send_maxtries are, and however many packets the    *)
(* callbacks write: a waiting packet has its write event armed, and the    *)
(* queue stays within MAXQLEN.                                             *)
THEOREM QueueIsServed == Spec => [](ArmedWhileQueued /\ QueueBounded)
BY Invariance, PTL DEF IInv

(* A closed connection holds no event and no packet. *)
THEOREM CloseIsComplete == Spec => []NothingLeftAfterClose
BY Invariance, PTL DEF IInv

(* No packet is lost silently, duplicated, or sent and also dropped.       *)
THEOREM PacketsAccounted == Spec => []EveryPacketAccounted
BY Invariance, IInvAccounts, PTL

(* Packets reach the socket in the order they were written, and none is    *)
(* passed to sendto more than send_maxtries + 1 times.                     *)
THEOREM OrderAndAttempts == Spec => [](SentInOrder /\ AttemptsBounded)
BY Invariance, IInvAccounts, PTL

(* Each step of the connection is a step of the lossy FIFO or leaves it    *)
(* unchanged.                                                              *)
LEMMA StepRefines ==
  ASSUME IInv, [Next]_vars
  PROVE  [Fifo!FifoNext]_(Fifo!fifo)
<1> DEFINE r == written - Len(pkt_queue)
<1>0. /\ pkt_queue \in Seq(vde2_pkt(Nat)) /\ Len(pkt_queue) \in Nat
      /\ written \in Nat /\ r \in Nat
      /\ \A i \in 1..Len(pkt_queue) : pkt_queue[i].pkt = r + i
      /\ MAXQLEN \in Nat
  BY MAXQLENAssumption DEF IInv, TypeOK, QueueIsSuffix
<1>1. ASSUME UNCHANGED <<written, sent, open>>, Len(pkt_queue') = Len(pkt_queue)
      PROVE  UNCHANGED Fifo!fifo
  BY <1>1 DEF Fifo!fifo
<1>2. ASSUME UNCHANGED <<pkt_queue, events, open, history>>
      PROVE  UNCHANGED Fifo!fifo
  BY <1>2, <1>1 DEF history
<1>3. ASSUME open, ~QueueFull(pkt_queue), WriteAccepted
      PROVE  Fifo!Accept
  <2>1. Len(pkt_queue') = Len(pkt_queue) + 1
    BY <1>3, <1>0, AppendProperties DEF WriteAccepted, QueuePush
  <2>2. written' = written + 1 /\ open' = open /\ sent' = sent
    BY <1>3 DEF WriteAccepted
  <2>3. written - r < MAXQLEN /\ written' - Len(pkt_queue') = r
    BY <1>0, <1>3, <2>1, <2>2 DEF QueueFull
  <2> QED
    BY <1>3, <2>2, <2>3 DEF Fifo!Accept
<1>4. ASSUME open, PopFront
      PROVE  /\ open /\ r < written /\ written' - Len(pkt_queue') = r + 1
             /\ Head(pkt_queue).pkt = r + 1 /\ UNCHANGED <<written, open>>
  <2>1. Len(pkt_queue) > 0 /\ Len(pkt_queue') = Len(pkt_queue) - 1
    BY <1>4, <1>0, EmptySeq, HeadTailProperties DEF PopFront
  <2>2. Head(pkt_queue) = pkt_queue[1]
    BY <1>0, <1>4 DEF PopFront
  <2> QED
    BY <1>0, <1>4, <2>1, <2>2 DEF PopFront
<1>5. ASSUME open, vde2_conn_close
      PROVE  Fifo!Close
  BY <1>0, <1>5 DEF vde2_conn_close, Fifo!Close
<1>6. ASSUME handler # "idle"
      PROVE  open
  BY <1>6, RunningIsOpen
<1>7. ASSUME NEW size \in Sizes, vde2_conn_write(size)
      PROVE  Fifo!Accept \/ UNCHANGED Fifo!fifo
  BY <1>7, <1>2, <1>3 DEF vde2_conn_write, vars
<1>8. CASE engine_fini
  BY <1>8, <1>5 DEF engine_fini, Fifo!FifoNext
<1>9. CASE SendDone
  <2>1. open
    BY <1>6, <1>9 DEF SendDone, PopFront
  <2> QED
    BY <2>1, <1>4, <1>9 DEF SendDone, Fifo!Deliver, Fifo!FifoNext
<1>10. CASE SendFatal \/ SendGivesUp
  <2>1. open
    BY <1>6, <1>10 DEF SendFatal, SendGivesUp, PopFront
  <2> QED
    BY <2>1, <1>4, <1>10 DEF SendFatal, SendGivesUp, Fifo!Lose, Fifo!FifoNext
<1>11. CASE SendRetry
  <2>1. Len(pkt_queue') = Len(pkt_queue)
    BY <1>0, <1>11, ExceptSeq DEF SendRetry, QueueRetry
  <2> QED
    BY <2>1, <1>1, <1>11 DEF SendRetry
<1>12. CASE SendLoopEnd
  BY <1>1, <1>12 DEF SendLoopEnd, history
<1>13. CASE WriteEvent
  BY <1>2, <1>13 DEF WriteEvent
<1>14. ASSUME NEW b \in BOOLEAN, ReadDataEvent(b) \/ ReadCtlEvent(b)
       PROVE  UNCHANGED Fifo!fifo
  BY <1>2, <1>14 DEF ReadDataEvent, ReadCtlEvent
<1>15. ASSUME NEW verdict \in Verdicts, CallbackReturns(verdict)
       PROVE  Fifo!Close \/ UNCHANGED Fifo!fifo
  <2>1. open
    BY <1>6, <1>15 DEF CallbackReturns, Callbacks
  <2> QED
    BY <2>1, <1>2, <1>5, <1>15 DEF CallbackReturns
<1>16. CASE UNCHANGED vars
  BY <1>2, <1>16 DEF vars
<1> QED
  BY <1>7, <1>8, <1>9, <1>10, <1>11, <1>12, <1>13, <1>14, <1>15, <1>16
     DEF Next, WriteSteps, Fifo!FifoNext

(* The connection implements a lossy FIFO channel of capacity MAXQLEN.     *)
THEOREM Refinement == Spec => ImplementsLossyFifo
<1>1. Init => Fifo!FifoInit
  <2> SUFFICES ASSUME Init PROVE Fifo!FifoInit
    OBVIOUS
  <2>1. written = 0 /\ Len(pkt_queue) = 0
    BY EmptySeq DEF Init
  <2>2. written - Len(pkt_queue) = 0
    BY <2>1
  <2> QED
    BY <2>2 DEF Init, Fifo!FifoInit
<1> QED
  BY <1>1, StepRefines, Invariance, PTL DEF Spec, ImplementsLossyFifo, Fifo!FifoSpec
=============================================================================
