----------------------------- MODULE HubProofs -----------------------------
(***************************************************************************)
(* Proofs about the hub, for any set of connections, any queue length and  *)
(* any number of frames.  Two invariants: one about the list of ports, and *)
(* one about the channel each connection is.  Every step of the hub is, on *)
(* each connection, one of the few steps a channel can take.               *)
(***************************************************************************)
EXTENDS Hub, ListRemoval

(* Only a port has packets in its queue, and only a port is being served. *)
OnlyPortsQueue ==
  /\ \A c \in Conns : state[c] # "live" => pkt_queue[c] = <<>>
  /\ sending # None => state[sending] = "live"

ListInv == TypeOK /\ PortsAreLive /\ AnnouncedCount /\ OnlyPortsQueue

(* A step in which port c is removed with port_del and closed. *)
Removed(c) ==
  /\ hub_engine_errorcb(c)
  /\ sending' = None
  /\ UNCHANGED history

(* A queue whose first packet leaves. *)
LEMMA PoppedQueue ==
  ASSUME NEW q \in Seq(vde2_pkt(Nat)), q # <<>>
  PROVE  /\ Tail(q) \in Seq(vde2_pkt(Nat))
         /\ Len(q) \in Nat \ {0} /\ Len(Tail(q)) = Len(q) - 1
         /\ \A i \in 1..(Len(q) - 1) : Tail(q)[i] = q[i + 1]
         /\ Head(q) = q[1] /\ q[1] \in vde2_pkt(Nat) /\ q[1].pkt \in Nat
<1>1. /\ Tail(q) \in Seq(vde2_pkt(Nat))
      /\ Len(q) \in Nat \ {0} /\ Len(Tail(q)) = Len(q) - 1
      /\ \A i \in 1..(Len(q) - 1) : Tail(q)[i] = q[i + 1]
      /\ Head(q) = q[1]
      OBVIOUS
<1>2. q[1] \in vde2_pkt(Nat)
      BY <1>1
<1> QED BY <1>1, <1>2 DEF vde2_pkt

(* A queue whose first packet is kept for another attempt. *)
LEMMA RetriedQueue ==
  ASSUME NEW q \in Seq(vde2_pkt(Nat)), q # <<>>
  PROVE  /\ QueueRetry(q) \in Seq(vde2_pkt(Nat))
         /\ Len(QueueRetry(q)) = Len(q)
         /\ \A i \in 1..Len(q) : QueueRetry(q)[i].pkt = q[i].pkt
<1> DEFINE p == [q[1] EXCEPT !.numtries = @ + 1]
<1>1. Len(q) \in Nat /\ 1 \in 1..Len(q) /\ q[1] \in vde2_pkt(Nat)
      BY PoppedQueue
<1>2. p \in vde2_pkt(Nat) /\ p.pkt = q[1].pkt
      BY <1>1 DEF vde2_pkt
<1>3. QueueRetry(q) = [q EXCEPT ![1] = p]
      BY DEF QueueRetry
<1> HIDE DEF p
<1> QED BY <1>1, <1>2, <1>3

(* hub_engine_newconn keeps the list of ports right. *)
LEMMA NewConnList ==
  ASSUME ListInv, NEW c \in Conns, NEW m \in Payloads, hub_engine_newconn(c, m)
  PROVE  ListInv'
<1> USE DEF ListInv
<1>1. CASE UNCHANGED vars
      BY <1>1 DEF vars, hubstate, history, TypeOK, PortsAreLive, AnnouncedCount, OnlyPortsQueue
<1>2. CASE /\ state' = [state EXCEPT ![c] = "live"]
           /\ ports' = vde_list_prepend(ports, c)
           /\ announced' = Len(ports) + 1
           /\ UNCHANGED <<up, pkt_queue, data_ev_wr, sending, history>>
  <2>1. up /\ state[c] = "new" /\ sending = None
        BY DEF hub_engine_newconn
  <2>2. ports \in Seq(Conns) /\ c \notin Range(ports) /\ IsInjective(ports)
        BY <2>1 DEF TypeOK, PortsAreLive
  <2>3. /\ ports' \in Seq(Conns) /\ Range(ports') = Range(ports) \cup {c}
        /\ IsInjective(ports')
        BY <1>2, <2>2, ListPrepend
  <2>4. Len(ports') = Len(ports) + 1 /\ Len(ports) \in Nat
        BY <1>2, <2>2 DEF vde_list_prepend
  <2>5. TypeOK'
        BY <1>2, <2>3, <2>4 DEF TypeOK, history
  <2>6. Range(ports') = {d \in Conns : state'[d] = "live"}
        BY <1>2, <2>3 DEF TypeOK, PortsAreLive
  <2> QED
      BY <1>2, <2>1, <2>3, <2>4, <2>5, <2>6 DEF PortsAreLive, AnnouncedCount, OnlyPortsQueue
<1> QED BY <1>1, <1>2 DEF hub_engine_newconn

(* hub_engine_errorcb and the close that follows it keep it right. *)
LEMMA RemovedList ==
  ASSUME ListInv, NEW c \in Conns, state[c] = "live", Removed(c)
  PROVE  ListInv'
<1> USE DEF ListInv, Removed, hub_engine_errorcb, vde2_conn_close
<1>1. ports \in Seq(Conns) /\ c \in Range(ports) /\ IsInjective(ports)
      BY DEF TypeOK, PortsAreLive
<1>2. /\ ports' \in Seq(Conns) /\ Range(ports') = Range(ports) \ {c}
      /\ IsInjective(ports')
      BY <1>1, ListRemove
<1>3. TypeOK'
  <2>1. Len(ports') \in Nat /\ <<>> \in Seq(vde2_pkt(Nat))
        BY <1>2
  <2> QED BY <1>2, <2>1 DEF TypeOK, history
<1>4. Range(ports') = {d \in Conns : state'[d] = "live"}
      BY <1>2 DEF TypeOK, PortsAreLive
<1>5. up'
  <2>1. ports # <<>>
        BY <1>1, ListEmpty
  <2> QED BY <2>1 DEF PortsAreLive, TypeOK
<1>6. OnlyPortsQueue'
      BY DEF OnlyPortsQueue, TypeOK
<1> QED BY <1>2, <1>3, <1>4, <1>5, <1>6 DEF PortsAreLive, AnnouncedCount

(* engine_hub_fini leaves no port. *)
LEMMA FiniList == ASSUME ListInv, engine_hub_fini PROVE ListInv'
<1> USE DEF ListInv, engine_hub_fini
<1>1. TypeOK'
  <2>1. <<>> \in Seq(vde2_pkt(Nat)) /\ <<>> \in Seq(Conns)
        OBVIOUS
  <2>2. /\ state' \in [Conns -> {"new", "live", "closed"}]
        /\ pkt_queue' \in [Conns -> Seq(vde2_pkt(Nat))]
        BY <2>1 DEF TypeOK
  <2>3. data_ev_wr' \in [Conns -> BOOLEAN]
        BY Zenon DEF TypeOK
  <2> QED BY <2>1, <2>2, <2>3 DEF TypeOK, history
<1>2. Range(ports') = {d \in Conns : state'[d] = "live"}
      BY ListEmpty DEF TypeOK, PortsAreLive
<1>3. PortsAreLive' /\ AnnouncedCount'
      BY <1>2, ListEmpty DEF PortsAreLive, AnnouncedCount
<1>4. OnlyPortsQueue'
      BY DEF OnlyPortsQueue, TypeOK, PortsAreLive
<1> QED BY <1>1, <1>3, <1>4

(* hub_engine_readcb writes to queues only. *)
LEMMA ReadList ==
  ASSUME ListInv, NEW c \in Conns, hub_engine_readcb(c)
  PROVE  ListInv'
<1> USE DEF ListInv, hub_engine_readcb
<1>1. Recipients(c) \subseteq Range(ports)
      BY DEF Recipients
<1>2. ASSUME NEW p \in Conns
      PROVE  QueuePush(pkt_queue[p], Len(accepted[p]) + 1) \in Seq(vde2_pkt(Nat))
      BY DEF TypeOK, QueuePush, vde2_pkt
<1>3. ASSUME NEW p \in Conns PROVE Append(accepted[p], Len(source) + 1) \in Seq(Nat)
      BY DEF TypeOK
<1>4. pkt_queue' \in [Conns -> Seq(vde2_pkt(Nat))]
      BY <1>2 DEF TypeOK
<1>5. accepted' \in [Conns -> Seq(Nat)]
      BY <1>3 DEF TypeOK
<1>6. source' \in Seq(Conns)
      BY DEF TypeOK
<1>7. data_ev_wr' \in [Conns -> BOOLEAN]
      BY Zenon DEF TypeOK
<1>8. TypeOK'
      BY <1>4, <1>5, <1>6, <1>7 DEF TypeOK, hubstate
<1>9. PortsAreLive' /\ AnnouncedCount'
      BY DEF PortsAreLive, AnnouncedCount, hubstate
<1>10. OnlyPortsQueue'
       BY <1>1 DEF OnlyPortsQueue, PortsAreLive, TypeOK
<1> QED BY <1>8, <1>9, <1>10

(* The steps of the write event that close nothing. *)
LEMMA WriteList ==
  ASSUME ListInv,
         \/ \E c \in Conns : WriteEvent(c)
         \/ SendDone \/ SendGivesUp \/ SendRetry \/ SendLoopEnd
  PROVE  ListInv'
<1> USE HubAssumption DEF ListInv
<1>1. UNCHANGED <<hubstate, state>>
      BY DEF WriteEvent, SendDone, SendGivesUp, SendRetry, SendLoopEnd
<1>2. PortsAreLive' /\ AnnouncedCount'
      BY <1>1 DEF PortsAreLive, AnnouncedCount, hubstate
<1>3. ASSUME NEW c \in Conns, WriteEvent(c) PROVE TypeOK' /\ OnlyPortsQueue'
      BY <1>3 DEF WriteEvent, TypeOK, OnlyPortsQueue, hubstate, history
<1>4. ASSUME NEW c \in Conns, pkt_queue[c] # <<>>
      PROVE  Tail(pkt_queue[c]) \in Seq(vde2_pkt(Nat)) /\ Head(pkt_queue[c]).pkt \in Nat
      BY <1>4, PoppedQueue DEF TypeOK
<1>5. CASE SendDone
  <2>1. PICK c \in Conns :
          /\ sending = c
          /\ pkt_queue[c] # <<>>
          /\ delivered' = [delivered EXCEPT ![c] = Append(@, Head(pkt_queue[c]).pkt)]
          /\ pkt_queue' = [pkt_queue EXCEPT ![c] = Tail(@)]
          /\ UNCHANGED <<hubstate, state, data_ev_wr, sending, source, accepted>>
        BY <1>5 DEF SendDone
  <2>2. Append(delivered[c], Head(pkt_queue[c]).pkt) \in Seq(Nat)
        BY <1>4, <2>1 DEF TypeOK
  <2> QED BY <1>2, <1>4, <2>1, <2>2 DEF TypeOK, OnlyPortsQueue, hubstate
<1>6. CASE SendGivesUp
      BY <1>2, <1>4, <1>6 DEF SendGivesUp, TypeOK, OnlyPortsQueue, hubstate, history
<1>7. CASE SendRetry
  <2>1. PICK c \in Conns :
          /\ sending = c
          /\ pkt_queue[c] # <<>>
          /\ pkt_queue' = [pkt_queue EXCEPT ![c] = QueueRetry(@)]
          /\ sending' = None
          /\ UNCHANGED <<hubstate, state, data_ev_wr, history>>
        BY <1>7 DEF SendRetry
  <2>2. QueueRetry(pkt_queue[c]) \in Seq(vde2_pkt(Nat))
        BY <2>1, RetriedQueue DEF TypeOK
  <2> QED BY <1>2, <2>1, <2>2 DEF TypeOK, OnlyPortsQueue, hubstate, history
<1>8. CASE SendLoopEnd
      BY <1>2, <1>8 DEF SendLoopEnd, TypeOK, OnlyPortsQueue, hubstate, history
<1> QED BY <1>2, <1>3, <1>5, <1>6, <1>7, <1>8

(* The initial state, with no port. *)
LEMMA InitList == Init => ListInv
<1> SUFFICES ASSUME Init PROVE ListInv
    OBVIOUS
<1>1. TypeOK
      BY DEF Init, TypeOK
<1>2. PortsAreLive
      BY ListEmpty DEF Init, PortsAreLive
<1> QED BY <1>1, <1>2, HubAssumption DEF Init, ListInv, AnnouncedCount, OnlyPortsQueue

(* Every step keeps the list of ports right. *)
LEMMA StepList == ListInv /\ [Next]_vars => ListInv'
<1> SUFFICES ASSUME ListInv, [Next]_vars PROVE ListInv'
    OBVIOUS
<1>1. ASSUME NEW c \in Conns, ReadCtlClosed(c) PROVE ListInv'
  <2>1. Removed(c) /\ state[c] = "live"
        BY <1>1 DEF ReadCtlClosed, Removed
  <2> QED BY <2>1, RemovedList
<1>2. CASE SendFatal
  <2>1. PICK c \in Conns : sending = c /\ Removed(c)
        BY <1>2 DEF SendFatal, Removed
  <2>2. state[c] = "live"
        BY <2>1, HubAssumption DEF ListInv, OnlyPortsQueue
  <2> QED BY <2>1, <2>2, RemovedList
<1>3. CASE UNCHANGED vars
      BY <1>3 DEF vars, hubstate, history, ListInv, TypeOK, PortsAreLive, AnnouncedCount, OnlyPortsQueue
<1> QED BY <1>1, <1>2, <1>3, NewConnList, ReadList, WriteList, FiniList DEF Next

-----------------------------------------------------------------------------
(* The packets in the queue of c are the last ones it accepted; those it   *)
(* delivered came before them; and what it accepted are frames of others,  *)
(* in the order they were read.                                            *)
Channel(c) ==
  LET q == pkt_queue[c]
      a == accepted[c]
      d == delivered[c]
  IN  /\ Len(q) <= Len(a)
      /\ \A i \in 1..Len(q) : q[i].pkt = Len(a) - Len(q) + i
      /\ \A i \in 1..Len(d) : d[i] \in 1..(Len(a) - Len(q))
      /\ \A i, j \in 1..Len(d) : i < j => d[i] < d[j]
      /\ \A i \in 1..Len(a) : a[i] \in 1..Len(source) /\ source[a[i]] # c
      /\ \A i, j \in 1..Len(a) : i < j => a[i] < a[j]

(* The steps a channel can take. *)
Keeps(c) ==
  /\ pkt_queue'[c] = pkt_queue[c]
  /\ accepted'[c] = accepted[c]
  /\ delivered'[c] = delivered[c]
  /\ state'[c] = "closed" <=> state[c] = "closed"

Pushes(c) ==
  /\ state[c] = "live" /\ state'[c] = "live"
  /\ ~QueueFull(pkt_queue[c])
  /\ pkt_queue'[c] = QueuePush(pkt_queue[c], Len(accepted[c]) + 1)
  /\ accepted'[c] = Append(accepted[c], Len(source) + 1)
  /\ delivered'[c] = delivered[c]
  /\ \E s \in Conns : s # c /\ source' = Append(source, s)

Pops(c) ==
  /\ state[c] = "live" /\ state'[c] = "live"
  /\ pkt_queue[c] # <<>>
  /\ pkt_queue'[c] = Tail(pkt_queue[c])
  /\ accepted'[c] = accepted[c]
  /\ \/ delivered'[c] = Append(delivered[c], Head(pkt_queue[c]).pkt)
     \/ delivered'[c] = delivered[c]

Retries(c) ==
  /\ state[c] = "live" /\ state'[c] = "live"
  /\ pkt_queue[c] # <<>>
  /\ pkt_queue'[c] = QueueRetry(pkt_queue[c])
  /\ accepted'[c] = accepted[c]
  /\ delivered'[c] = delivered[c]

Closes(c) ==
  /\ state[c] = "live" /\ state'[c] = "closed"
  /\ pkt_queue'[c] = <<>>
  /\ accepted'[c] = accepted[c]
  /\ delivered'[c] = delivered[c]

ChannelStep(c) == Keeps(c) \/ Pushes(c) \/ Pops(c) \/ Retries(c) \/ Closes(c)

SourceGrows == source' = source \/ \E s \in Conns : source' = Append(source, s)

(* A step of the hub is one step of every channel: whatever happens on one *)
(* port, the others keep what they have or take the frame just read.       *)
LEMMA EveryChannelSteps ==
  ASSUME ListInv, [Next]_vars, NEW c \in Conns
  PROVE  SourceGrows /\ ChannelStep(c)
<1> USE HubAssumption DEF ListInv, SourceGrows, ChannelStep
<1>1. ASSUME NEW e \in Conns, NEW m \in Payloads, hub_engine_newconn(e, m)
      PROVE  source' = source /\ Keeps(c)
      BY <1>1 DEF hub_engine_newconn, Keeps, TypeOK, vars, history
<1>2. ASSUME NEW e \in Conns, hub_engine_readcb(e) PROVE SourceGrows /\ ChannelStep(c)
  <2>1. source' = Append(source, e)
        BY <1>2 DEF hub_engine_readcb
  <2>2. CASE c \in Recipients(e)
    <3>1. state[c] = "live" /\ c # e /\ ~QueueFull(pkt_queue[c])
          BY <2>2 DEF Recipients, PortsAreLive
    <3>2. Pushes(c)
          BY <1>2, <2>1, <2>2, <3>1 DEF hub_engine_readcb, Pushes
    <3> QED BY <2>1, <3>2
  <2>3. CASE c \notin Recipients(e)
        BY <1>2, <2>1, <2>3 DEF hub_engine_readcb, Keeps
  <2> QED BY <2>2, <2>3
<1>3. ASSUME NEW e \in Conns, state[e] = "live", hub_engine_errorcb(e), UNCHANGED history
      PROVE  source' = source /\ (Keeps(c) \/ Closes(c))
      BY <1>3 DEF hub_engine_errorcb, vde2_conn_close, history, Keeps, Closes, TypeOK
<1>4. ASSUME NEW e \in Conns, ReadCtlClosed(e) PROVE source' = source /\ (Keeps(c) \/ Closes(c))
      BY <1>3, <1>4 DEF ReadCtlClosed
<1>5. CASE SendFatal
      BY <1>3, <1>5 DEF SendFatal, OnlyPortsQueue
<1>6. ASSUME NEW e \in Conns, WriteEvent(e) PROVE source' = source /\ Keeps(c)
      BY <1>6 DEF WriteEvent, history, Keeps
<1>7. CASE SendDone
      BY <1>7 DEF SendDone, OnlyPortsQueue, TypeOK, Keeps, Pops
<1>8. CASE SendGivesUp
      BY <1>8 DEF SendGivesUp, OnlyPortsQueue, TypeOK, history, Keeps, Pops
<1>9. CASE SendRetry
      BY <1>9 DEF SendRetry, OnlyPortsQueue, TypeOK, history, Keeps, Retries
<1>10. CASE SendLoopEnd
       BY <1>10 DEF SendLoopEnd, history, Keeps
<1>11. CASE engine_hub_fini
  <2>1. source' = source
        BY <1>11 DEF engine_hub_fini, history
  <2>2. CASE c \in Range(ports)
        BY <1>11, <2>2 DEF engine_hub_fini, history, PortsAreLive, Closes
  <2>3. CASE c \notin Range(ports)
        BY <1>11, <2>3 DEF engine_hub_fini, history, Keeps
  <2> QED BY <2>1, <2>2, <2>3
<1>12. CASE UNCHANGED vars
       BY <1>12 DEF vars, history, Keeps
<1> QED BY <1>1, <1>2, <1>4, <1>5, <1>6, <1>7, <1>8, <1>9, <1>10, <1>11, <1>12 DEF Next

(* The types of what belongs to one channel. *)
LEMMA ChannelTypes ==
  ASSUME TypeOK, NEW c \in Conns
  PROVE  /\ pkt_queue[c] \in Seq(vde2_pkt(Nat)) /\ Len(pkt_queue[c]) \in Nat
         /\ accepted[c] \in Seq(Nat) /\ Len(accepted[c]) \in Nat
         /\ delivered[c] \in Seq(Nat) /\ Len(delivered[c]) \in Nat
         /\ source \in Seq(Conns) /\ Len(source) \in Nat
  BY DEF TypeOK

(* The frames read before stay where they are. *)
LEMMA SourceKept ==
  ASSUME TypeOK, SourceGrows
  PROVE  /\ Len(source') \in Nat /\ Len(source) <= Len(source')
         /\ \A i \in 1..Len(source) : source'[i] = source[i]
<1>1. source \in Seq(Conns) /\ Len(source) \in Nat
      BY DEF TypeOK
<1>2. ASSUME NEW s \in Conns, source' = Append(source, s)
      PROVE  /\ Len(source') = Len(source) + 1
             /\ \A i \in 1..Len(source) : source'[i] = source[i]
      BY <1>1, <1>2
<1> QED BY <1>1, <1>2 DEF SourceGrows

(* What a channel has accepted stays right while it accepts nothing. *)
LEMMA AcceptedKept ==
  ASSUME TypeOK, NEW c \in Conns, Channel(c), SourceGrows, accepted'[c] = accepted[c]
  PROVE  /\ \A i \in 1..Len(accepted'[c]) :
              accepted'[c][i] \in 1..Len(source') /\ source'[accepted'[c][i]] # c
         /\ \A i, j \in 1..Len(accepted'[c]) : i < j => accepted'[c][i] < accepted'[c][j]
<1>1. \A i \in 1..Len(accepted[c]) :
        accepted[c][i] \in 1..Len(source) /\ source[accepted[c][i]] # c
      BY DEF Channel
<1>2. \A n \in 1..Len(source) : n \in 1..Len(source') /\ source'[n] = source[n]
      BY SourceKept, ChannelTypes
<1> QED BY <1>1, <1>2 DEF Channel

(* A channel takes the frame just read. *)
LEMMA PushedChannel ==
  ASSUME TypeOK, NEW c \in Conns, Channel(c), Pushes(c)
  PROVE  Channel(c)'
<1> DEFINE p == [numtries |-> 0, pkt |-> Len(accepted[c]) + 1]
           q == pkt_queue[c]
           r == pkt_queue'[c]
           a == accepted[c]
           b == accepted'[c]
<1>1. /\ q \in Seq(vde2_pkt(Nat)) /\ Len(q) \in Nat
      /\ a \in Seq(Nat) /\ Len(a) \in Nat
      /\ source \in Seq(Conns) /\ Len(source) \in Nat
      /\ p \in vde2_pkt(Nat) /\ p.pkt = Len(a) + 1
      BY ChannelTypes DEF vde2_pkt
<1>2. r = Append(q, p) /\ b = Append(a, Len(source) + 1) /\ delivered'[c] = delivered[c]
      BY DEF Pushes, QueuePush
<1>3. PICK s \in Conns : s # c /\ source' = Append(source, s)
      BY DEF Pushes
<1>4. /\ Len(q) <= Len(a)
      /\ \A i \in 1..Len(q) : q[i].pkt = Len(a) - Len(q) + i
      /\ \A i \in 1..Len(delivered[c]) : delivered[c][i] \in 1..(Len(a) - Len(q))
      /\ \A i, j \in 1..Len(delivered[c]) : i < j => delivered[c][i] < delivered[c][j]
      /\ \A i \in 1..Len(a) : a[i] \in 1..Len(source) /\ source[a[i]] # c
      /\ \A i, j \in 1..Len(a) : i < j => a[i] < a[j]
      BY DEF Channel
<1> HIDE DEF p, q, r, a, b
<1>5. /\ Len(r) = Len(q) + 1 /\ r[Len(q) + 1] = p
      /\ \A i \in 1..Len(q) : r[i] = q[i]
      BY <1>1, <1>2
<1>6. /\ Len(b) = Len(a) + 1 /\ b[Len(a) + 1] = Len(source) + 1
      /\ \A i \in 1..Len(a) : b[i] = a[i]
      BY <1>1, <1>2
<1>7. /\ Len(source') = Len(source) + 1 /\ source'[Len(source) + 1] = s
      /\ \A i \in 1..Len(source) : source'[i] = source[i]
      BY <1>1, <1>3
<1>8. Len(b) - Len(r) = Len(a) - Len(q) /\ Len(r) <= Len(b)
      BY <1>1, <1>4, <1>5, <1>6
<1>9. \A i \in 1..Len(r) : i \in 1..Len(q) \/ i = Len(q) + 1
      BY <1>1, <1>5
<1>10. \A i \in 1..Len(b) : i \in 1..Len(a) \/ i = Len(a) + 1
       BY <1>1, <1>6
<1>11. \A i \in 1..Len(r) : r[i].pkt = Len(b) - Len(r) + i
  <2> SUFFICES ASSUME NEW i \in 1..Len(r) PROVE r[i].pkt = Len(b) - Len(r) + i
      OBVIOUS
  <2>1. CASE i \in 1..Len(q)
        BY <1>4, <1>5, <1>8, <2>1
  <2>2. CASE i = Len(q) + 1
        BY <1>1, <1>5, <1>8, <2>2
  <2> QED BY <1>9, <2>1, <2>2
<1>12. \A i \in 1..Len(b) : b[i] \in 1..Len(source') /\ source'[b[i]] # c
  <2>1. \A n \in 1..Len(source) : n \in 1..Len(source')
        BY <1>1, <1>7
  <2>2. Len(source) + 1 \in 1..Len(source')
        BY <1>1, <1>7
  <2> QED BY <1>3, <1>4, <1>6, <1>7, <1>10, <2>1, <2>2
<1>13. \A i, j \in 1..Len(b) : i < j => b[i] < b[j]
  <2> SUFFICES ASSUME NEW i \in 1..Len(b), NEW j \in 1..Len(b), i < j PROVE b[i] < b[j]
      OBVIOUS
  <2>1. i \in 1..Len(a)
        BY <1>1, <1>6
  <2>2. CASE j \in 1..Len(a)
        BY <1>4, <1>6, <2>1, <2>2
  <2>3. CASE j = Len(a) + 1
    <3>1. b[i] = a[i] /\ a[i] \in 1..Len(source) /\ b[j] = Len(source) + 1
          BY <1>4, <1>6, <2>1, <2>3
    <3> QED BY <1>1, <3>1
  <2> QED BY <1>10, <2>2, <2>3
<1> QED BY <1>2, <1>4, <1>8, <1>11, <1>12, <1>13 DEF Channel, q, r, a, b

(* The first packet of the queue leaves, delivered or dropped. *)
LEMMA PoppedChannel ==
  ASSUME TypeOK, NEW c \in Conns, Channel(c), SourceGrows, Pops(c)
  PROVE  Channel(c)'
<1> DEFINE q == pkt_queue[c]
           r == pkt_queue'[c]
           n == Len(accepted[c])
           d == delivered[c]
           e == delivered'[c]
<1>1. /\ q \in Seq(vde2_pkt(Nat)) /\ q # <<>> /\ r = Tail(q) /\ n \in Nat
      /\ d \in Seq(Nat) /\ Len(d) \in Nat /\ accepted'[c] = accepted[c]
      BY ChannelTypes DEF Pops
<1>2. e = Append(d, Head(q).pkt) \/ e = d
      BY DEF Pops
<1>3. /\ Len(q) <= n
      /\ \A i \in 1..Len(q) : q[i].pkt = n - Len(q) + i
      /\ \A i \in 1..Len(d) : d[i] \in 1..(n - Len(q))
      /\ \A i, j \in 1..Len(d) : i < j => d[i] < d[j]
      BY DEF Channel
<1> HIDE DEF q, r, n, d, e
<1>4. /\ Len(q) \in Nat \ {0} /\ Len(r) = Len(q) - 1 /\ Head(q) = q[1] /\ q[1].pkt \in Nat
      /\ \A i \in 1..(Len(q) - 1) : r[i] = q[i + 1]
      BY <1>1, PoppedQueue
<1>5. Len(r) <= n /\ n - Len(r) = (n - Len(q)) + 1 /\ n - Len(q) \in Nat
      BY <1>1, <1>3, <1>4
<1>6. ASSUME NEW i \in 1..Len(r) PROVE r[i].pkt = n - Len(r) + i
  <2>1. i + 1 \in 1..Len(q) /\ i \in 1..(Len(q) - 1)
        BY <1>4
  <2>2. r[i].pkt = n - Len(q) + (i + 1)
        BY <1>3, <1>4, <2>1
  <2> QED BY <1>1, <1>4, <1>5, <2>2
<1>7. Head(q).pkt = (n - Len(q)) + 1
      BY <1>1, <1>3, <1>4
<1>8. /\ \A i \in 1..Len(e) : e[i] \in 1..(n - Len(r))
      /\ \A i, j \in 1..Len(e) : i < j => e[i] < e[j]
  <2>1. CASE e = d
        BY <1>3, <1>5, <2>1
  <2>2. CASE e = Append(d, Head(q).pkt)
    <3>1. /\ Len(e) = Len(d) + 1 /\ e[Len(d) + 1] = (n - Len(q)) + 1
          /\ \A i \in 1..Len(d) : e[i] = d[i]
          BY <1>1, <1>4, <1>7, <2>2
    <3>2. \A i \in 1..Len(e) : i \in 1..Len(d) \/ i = Len(d) + 1
          BY <1>1, <3>1
    <3>3. \A i \in 1..Len(e) : e[i] \in 1..(n - Len(r))
          BY <1>3, <1>5, <3>1, <3>2
    <3>4. ASSUME NEW i \in 1..Len(e), NEW j \in 1..Len(e), i < j PROVE e[i] < e[j]
      <4>1. i \in 1..Len(d)
            BY <1>1, <3>1, <3>4
      <4>2. CASE j \in 1..Len(d)
            BY <1>3, <3>1, <3>4, <4>1, <4>2
      <4>3. CASE j = Len(d) + 1
            BY <1>3, <1>5, <3>1, <4>1, <4>3
      <4> QED BY <3>2, <4>2, <4>3
    <3> QED BY <3>3, <3>4
  <2> QED BY <1>2, <2>1, <2>2
<1> QED BY <1>1, <1>5, <1>6, <1>8, AcceptedKept DEF Channel, q, r, n, d, e

(* The steps on which no packet enters and none leaves at the front. *)
LEMMA OtherChannel ==
  ASSUME TypeOK, NEW c \in Conns, Channel(c), SourceGrows,
         Keeps(c) \/ Retries(c) \/ Closes(c)
  PROVE  Channel(c)'
<1>1. accepted'[c] = accepted[c] /\ delivered'[c] = delivered[c]
      BY DEF Keeps, Retries, Closes
<1>2. /\ pkt_queue[c] \in Seq(vde2_pkt(Nat)) /\ Len(pkt_queue[c]) \in Nat
      /\ Len(accepted[c]) \in Nat /\ Len(delivered[c]) \in Nat
      BY ChannelTypes
<1>3. CASE \/ pkt_queue'[c] = pkt_queue[c]
           \/ pkt_queue[c] # <<>> /\ pkt_queue'[c] = QueueRetry(pkt_queue[c])
  <2>1. /\ Len(pkt_queue'[c]) = Len(pkt_queue[c])
        /\ \A i \in 1..Len(pkt_queue[c]) : pkt_queue'[c][i].pkt = pkt_queue[c][i].pkt
        BY <1>2, <1>3, RetriedQueue
  <2> QED BY <1>1, <2>1, AcceptedKept DEF Channel
<1>4. CASE pkt_queue'[c] = <<>>
  <2>1. Len(pkt_queue'[c]) = 0
        BY <1>4
  <2>2. \A n \in 1..(Len(accepted[c]) - Len(pkt_queue[c])) :
          n \in 1..(Len(accepted[c]) - Len(pkt_queue'[c]))
        BY <1>2, <2>1
  <2>3. \A i \in 1..Len(delivered[c]) :
          delivered[c][i] \in 1..(Len(accepted[c]) - Len(pkt_queue[c]))
        BY DEF Channel
  <2>4. 1..0 = {} /\ 0 <= Len(accepted[c])
        BY <1>2
  <2>5. \A i \in 1..Len(delivered[c]) :
          delivered[c][i] \in 1..(Len(accepted[c]) - Len(pkt_queue'[c]))
        BY <2>2, <2>3
  <2> QED BY <1>1, <2>1, <2>4, <2>5, AcceptedKept DEF Channel
<1> QED BY <1>3, <1>4 DEF Keeps, Retries, Closes

HubInv == ListInv /\ \A c \in Conns : Channel(c)

(* The initial state. *)
LEMMA InitHub == Init => HubInv
  BY InitList DEF Init, HubInv, Channel

(* Every step keeps the list and every channel right. *)
LEMMA StepHub == HubInv /\ [Next]_vars => HubInv'
<1> SUFFICES ASSUME HubInv, [Next]_vars PROVE HubInv'
    OBVIOUS
<1>1. ListInv'
      BY StepList DEF HubInv
<1>2. ASSUME NEW c \in Conns PROVE Channel(c)'
  <2>1. TypeOK /\ Channel(c) /\ SourceGrows /\ ChannelStep(c)
        BY EveryChannelSteps DEF HubInv, ListInv
  <2> QED BY <2>1, PushedChannel, PoppedChannel, OtherChannel DEF ChannelStep
<1> QED BY <1>1, <1>2 DEF HubInv

(* HubInv is an invariant. *)
LEMMA HubInvariance == Spec => []HubInv
  BY InitHub, StepHub, PTL DEF Spec

(* The list of ports holds exactly the connections that are alive, each    *)
(* once, and is empty after engine_hub_fini, whatever errors close ports   *)
(* in between: the broadcast of hub_engine_readcb reads no freed           *)
(* connection and forgets no port.                                         *)
THEOREM PortsAlwaysLive == Spec => []PortsAreLive
<1>1. HubInv => PortsAreLive
      BY DEF HubInv, ListInv
<1> QED BY <1>1, HubInvariance, PTL

(* Type correctness, for every set of connections and every payload. *)
THEOREM TypeCorrect == Spec => []TypeOK
<1>1. HubInv => TypeOK
      BY DEF HubInv, ListInv
<1> QED BY <1>1, HubInvariance, PTL

(* The number in the last port_new or port_del is the number of ports:     *)
(* hub_engine_newconn and hub_engine_errorcb count after they have changed *)
(* the list.                                                               *)
THEOREM AnnouncedIsCount == Spec => []AnnouncedCount
<1>1. HubInv => AnnouncedCount
      BY DEF HubInv, ListInv
<1> QED BY <1>1, HubInvariance, PTL

(* hub_engine_readcb never sends a frame back to its port, and however     *)
(* full queues, retries and give-ups interleave on the ports, each port    *)
(* gets the frames in the order they were read, none twice.                *)
THEOREM FramesAlwaysInOrder == Spec => []FramesInOrder
<1>1. ASSUME HubInv PROVE FramesInOrder
  <2> SUFFICES ASSUME NEW c \in Conns
               PROVE  /\ \A i \in 1..Len(delivered[c]) :
                           source[accepted[c][delivered[c][i]]] # c
                      /\ \A i, j \in 1..Len(delivered[c]) : i < j =>
                           accepted[c][delivered[c][i]] < accepted[c][delivered[c][j]]
    <3>1. \A c \in Conns : DOMAIN delivered[c] = 1..Len(delivered[c])
          BY <1>1, ChannelTypes DEF HubInv, ListInv
    <3> QED BY <3>1 DEF FramesInOrder
  <2>1. /\ Channel(c) /\ Len(accepted[c]) \in Nat /\ Len(pkt_queue[c]) \in Nat
        BY <1>1, ChannelTypes DEF HubInv, ListInv
  <2>2. \A i \in 1..Len(delivered[c]) : delivered[c][i] \in 1..Len(accepted[c])
    <3>1. \A n \in 1..(Len(accepted[c]) - Len(pkt_queue[c])) : n \in 1..Len(accepted[c])
          BY <2>1
    <3> QED BY <2>1, <3>1 DEF Channel
  <2> QED BY <2>1, <2>2 DEF Channel
<1> QED BY <1>1, HubInvariance, PTL

(* A step of a channel is one LossyFifo allows. *)
LEMMA ChannelIsFifo ==
  ASSUME TypeOK, TypeOK', NEW c \in Conns, Channel(c), ChannelStep(c)
  PROVE  PortFifo(c)!FifoNext \/ UNCHANGED PortFifo(c)!fifo
<1> USE DEF PortFifo!FifoNext, PortFifo!fifo
<1>1. /\ pkt_queue[c] \in Seq(vde2_pkt(Nat)) /\ Len(pkt_queue[c]) \in Nat
      /\ accepted[c] \in Seq(Nat) /\ Len(accepted[c]) \in Nat
      /\ Len(pkt_queue[c]) <= Len(accepted[c]) /\ Len(source) \in Nat
      BY ChannelTypes DEF Channel
<1>2. CASE Keeps(c)
      BY <1>2 DEF Keeps
<1>3. CASE Retries(c)
      BY <1>1, <1>3, RetriedQueue DEF Retries
<1>4. CASE Closes(c)
      BY <1>1, <1>4 DEF Closes, PortFifo!Close
<1>5. CASE Pushes(c)
  <2>1. Len(pkt_queue'[c]) = Len(pkt_queue[c]) + 1
        BY <1>1, <1>5 DEF Pushes, QueuePush, vde2_pkt
  <2>2. Len(accepted'[c]) = Len(accepted[c]) + 1
        BY <1>1, <1>5 DEF Pushes
  <2>3. Len(accepted[c]) - (Len(accepted[c]) - Len(pkt_queue[c])) < MAXQLEN
        BY <1>1, <1>5, MAXQLENAssumption DEF Pushes, QueueFull
  <2>4. Len(accepted'[c]) - Len(pkt_queue'[c]) = Len(accepted[c]) - Len(pkt_queue[c])
        BY <1>1, <2>1, <2>2
  <2>5. PortFifo(c)!Accept
        BY <1>5, <2>2, <2>3, <2>4 DEF Pushes, PortFifo!Accept
  <2> QED BY <2>5
<1>6. CASE Pops(c)
  <2>1. /\ Len(pkt_queue[c]) \in Nat \ {0} /\ Len(pkt_queue'[c]) = Len(pkt_queue[c]) - 1
        /\ Head(pkt_queue[c]) = pkt_queue[c][1]
        BY <1>1, <1>6, PoppedQueue DEF Pops
  <2>2. Head(pkt_queue[c]).pkt = Len(accepted[c]) - Len(pkt_queue[c]) + 1
    <3>1. 1 \in 1..Len(pkt_queue[c])
          BY <2>1
    <3> QED BY <2>1, <3>1 DEF Channel
  <2>3. /\ Len(accepted[c]) - Len(pkt_queue[c]) < Len(accepted[c])
        /\ Len(accepted[c]) - Len(pkt_queue'[c]) = Len(accepted[c]) - Len(pkt_queue[c]) + 1
    <3> DEFINE n == Len(accepted[c])
               k == Len(pkt_queue[c])
               l == Len(pkt_queue'[c])
    <3>1. n \in Nat /\ k \in Nat \ {0} /\ l = k - 1
          BY <1>1, <2>1
    <3> HIDE DEF n, k, l
    <3>2. n - k < n /\ n - l = n - k + 1
          BY <3>1
    <3> QED BY <3>2 DEF n, k, l
  <2>4. CASE delivered'[c] = delivered[c]
    <3>1. PortFifo(c)!Lose
          BY <1>6, <2>3, <2>4 DEF Pops, PortFifo!Lose
    <3> QED BY <3>1
  <2>5. CASE delivered'[c] = Append(delivered[c], Head(pkt_queue[c]).pkt)
    <3>1. PortFifo(c)!Deliver
          BY <1>6, <2>2, <2>3, <2>5 DEF Pops, PortFifo!Deliver
    <3> QED BY <3>1
  <2> QED BY <1>6, <2>4, <2>5 DEF Pops
<1> QED BY <1>2, <1>3, <1>4, <1>5, <1>6 DEF ChannelStep

(* Each port implements LossyFifo: the packets queued for it leave in      *)
(* order, delivered or lost, and nothing that happens on another port has  *)
(* any part in it.                                                         *)
THEOREM PortsAreLossyFifos == Spec => EveryPortIsLossyFifo
<1>1. Init => \A c \in Conns : PortFifo(c)!FifoInit
      BY DEF Init, PortFifo!FifoInit
<1>2. ASSUME HubInv, HubInv', [Next]_vars
      PROVE  [\A c \in Conns : PortFifo(c)!FifoNext \/ UNCHANGED PortFifo(c)!fifo]_vars
  <2>1. ASSUME NEW c \in Conns PROVE PortFifo(c)!FifoNext \/ UNCHANGED PortFifo(c)!fifo
        BY <1>2, EveryChannelSteps, ChannelIsFifo DEF HubInv, ListInv
  <2> QED BY <2>1
<1> QED BY <1>1, <1>2, HubInvariance, PTL DEF Spec, EveryPortIsLossyFifo
=============================================================================
