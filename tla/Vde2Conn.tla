------------------------------ MODULE Vde2Conn ------------------------------
(***************************************************************************)
(* One established vde2 connection (transport_vde2.c), from the moment its *)
(* handshake is over to its close, together with the component that uses   *)
(* it (an engine, known only through its read, write and error callbacks). *)
(*                                                                         *)
(* The library runs in one thread: libevent dispatches one event handler   *)
(* at a time and the handler runs to its end.  The variable handler says   *)
(* where in the current handler the thread is, so that the callbacks a     *)
(* handler makes, and the vde2_conn_write calls those callbacks make, are  *)
(* steps of their own; nothing else runs until handler is "idle" again.    *)
(*                                                                         *)
(* Packets are numbered in the order vde2_conn_write accepts them.  The    *)
(* variables written, sent, dropped and tries record what happened and     *)
(* are read by no action; tries counts sendto calls for the packet that is *)
(* at the front of the queue.                                              *)
(***************************************************************************)
EXTENDS Vde2Queue, Integers

CONSTANTS
  SendMaxTries,   \* vde_connection.send_maxtries, set by the engine
  PKT_DATA_SZ,    \* largest data_size the backend can copy
  Sizes,          \* data_size of the packets the engine writes
  MaxPkts         \* bound on the packets written, for model checking

ASSUME ConnAssumption ==
  /\ SendMaxTries \in Nat
  /\ PKT_DATA_SZ \in Nat
  /\ Sizes \subseteq Nat
  /\ MaxPkts \in Nat

VARIABLES
  pkt_queue,    \* vde2_conn.pkt_queue
  data_ev_wr,   \* the write event exists (data_ev_wr is not NULL)
  data_ev_rd,   \* the data socket's read event exists
  ctl_ev,       \* the control socket's read event exists
  open,         \* neither vde_connection_fini nor _delete has run
  handler,      \* what the thread is doing, see Handlers
  written,      \* number of packets accepted so far
  sent,         \* packets handed to the socket, in order
  dropped,      \* packets freed without having been sent
  tries         \* sendto calls made for the front packet

events == <<data_ev_wr, data_ev_rd, ctl_ev>>
history == <<written, sent, dropped, tries>>
vars == <<pkt_queue, events, open, handler, history>>

(* What a user callback returns: 0, or -1 with one of the errno values     *)
(* that connection.h gives a meaning, or any other errno ("error").        *)
Verdicts == {"ok", "error", "EAGAIN", "EPIPE"}

(* "sending": in the loop of the write event.  The others: inside the      *)
(* callback the running handler has called; "delay_cb" and "error_cb" are  *)
(* the error callback, told of a dropped packet and of a fatal error.      *)
Callbacks == {"read_cb", "write_cb", "delay_cb", "error_cb"}
Handlers == {"idle", "sending"} \cup Callbacks

TypeOK ==
  /\ pkt_queue \in Seq(vde2_pkt(Nat))
  /\ data_ev_wr \in BOOLEAN
  /\ data_ev_rd \in BOOLEAN
  /\ ctl_ev \in BOOLEAN
  /\ open \in BOOLEAN
  /\ handler \in Handlers
  /\ written \in Nat
  /\ sent \in Seq(Nat)
  /\ dropped \in SUBSET Nat
  /\ tries \in Nat

Init ==
  /\ pkt_queue = <<>>
  /\ data_ev_wr = FALSE
  /\ data_ev_rd = TRUE
  /\ ctl_ev = TRUE
  /\ open = TRUE
  /\ handler = "idle"
  /\ written = 0
  /\ sent = <<>>
  /\ dropped = {}
  /\ tries = 0

-----------------------------------------------------------------------------
(* vde2_conn_write: the engine writes, from a callback of this connection  *)
(* or from the handler of some other event.                                *)

WriteAccepted ==
  /\ pkt_queue' = QueuePush(pkt_queue, written + 1)
  /\ written' = written + 1
  /\ data_ev_wr' = TRUE
  /\ UNCHANGED <<data_ev_rd, ctl_ev, open, handler, sent, dropped, tries>>

vde2_conn_write(size) ==
  /\ open
  /\ handler # "sending"
  /\ written < MaxPkts
  /\ \/ QueueFull(pkt_queue) /\ UNCHANGED vars                    \* EAGAIN
     \/ ~QueueFull(pkt_queue) /\ size > PKT_DATA_SZ /\ UNCHANGED vars \* EBADMSG
     \/ ~QueueFull(pkt_queue) /\ size <= PKT_DATA_SZ /\ WriteAccepted

-----------------------------------------------------------------------------
(* Mutant: the control socket's event survives the close. *)
CloseKeepsCtlEvent ==
  /\ open' = FALSE
  /\ data_ev_wr' = FALSE
  /\ data_ev_rd' = FALSE
  /\ dropped' = dropped \cup {pkt_queue[i].pkt : i \in DOMAIN pkt_queue}
  /\ pkt_queue' = <<>>
  /\ handler' = "idle"
  /\ tries' = 0
  /\ UNCHANGED <<ctl_ev, written, sent>>

(* vde2_conn_close, called by vde_connection_fini: both descriptors and    *)
(* every event go, the queue is drained and everything is freed.           *)
vde2_conn_close ==
  /\ open' = FALSE
  /\ data_ev_wr' = FALSE
  /\ data_ev_rd' = FALSE
  /\ ctl_ev' = FALSE
  /\ dropped' = dropped \cup {pkt_queue[i].pkt : i \in DOMAIN pkt_queue}
  /\ pkt_queue' = <<>>
  /\ handler' = "idle"
  /\ tries' = 0
  /\ UNCHANGED <<written, sent>>

(* The engine is finalised and closes its connections. *)
engine_fini ==
  /\ open
  /\ handler = "idle"
  /\ vde2_conn_close

-----------------------------------------------------------------------------
(* vde2_conn_write_data_event *)

(* The socket is writable, or send_maxtimeout has passed. *)
WriteEvent ==
  /\ open
  /\ handler = "idle"
  /\ data_ev_wr
  /\ handler' = "sending"
  /\ UNCHANGED <<pkt_queue, events, open, history>>

(* The packet being sent leaves the queue for good. *)
PopFront ==
  /\ handler = "sending"
  /\ pkt_queue # <<>>
  /\ pkt_queue' = Tail(pkt_queue)
  /\ tries' = 0
  /\ UNCHANGED <<events, open, written>>

(* sendto took the whole packet; write_cb is called. *)
SendDone ==
  /\ PopFront
  /\ sent' = Append(sent, Head(pkt_queue).pkt)
  /\ handler' = "write_cb"
  /\ UNCHANGED dropped

(* Mutant: the packet is reported as failed and left in the queue. *)
SendFatalKeeps ==
  /\ handler = "sending"
  /\ pkt_queue # <<>>
  /\ dropped' = dropped \cup {Head(pkt_queue).pkt}
  /\ handler' = "error_cb"
  /\ UNCHANGED <<pkt_queue, events, open, written, sent, tries>>

(* sendto failed for good; error_cb is called with CONN_WRITE_CLOSED. *)
SendFatal ==
  /\ PopFront
  /\ dropped' = dropped \cup {Head(pkt_queue).pkt}
  /\ handler' = "error_cb"
  /\ UNCHANGED sent

(* Mutant: giving up on one packet removes the write event. *)
SendGivesUpDisarms ==
  /\ handler = "sending"
  /\ pkt_queue # <<>>
  /\ GivesUp(pkt_queue, SendMaxTries)
  /\ pkt_queue' = Tail(pkt_queue)
  /\ tries' = 0
  /\ data_ev_wr' = FALSE
  /\ dropped' = dropped \cup {Head(pkt_queue).pkt}
  /\ handler' = "delay_cb"
  /\ UNCHANGED <<data_ev_rd, ctl_ev, open, written, sent>>

(* A partial send or EAGAIN once too often: CONN_WRITE_DELAY. *)
SendGivesUp ==
  /\ PopFront
  /\ GivesUp(pkt_queue, SendMaxTries)
  /\ dropped' = dropped \cup {Head(pkt_queue).pkt}
  /\ handler' = "delay_cb"
  /\ UNCHANGED sent

(* A partial send or EAGAIN: the packet waits for the next event. *)
SendRetry ==
  /\ handler = "sending"
  /\ pkt_queue # <<>>
  /\ ~GivesUp(pkt_queue, SendMaxTries)
  /\ pkt_queue' = QueueRetry(pkt_queue)
  /\ tries' = tries + 1
  /\ handler' = "idle"
  /\ UNCHANGED <<events, open, written, sent, dropped>>

(* Mutant: the write event is kept although nothing is left to send. *)
SendLoopEndKeepsEvent ==
  /\ handler = "sending"
  /\ pkt_queue = <<>>
  /\ handler' = "idle"
  /\ UNCHANGED <<pkt_queue, events, open, history>>

(* Nothing left to send: the write event is removed. *)
SendLoopEnd ==
  /\ handler = "sending"
  /\ pkt_queue = <<>>
  /\ data_ev_wr' = FALSE
  /\ handler' = "idle"
  /\ UNCHANGED <<pkt_queue, data_ev_rd, ctl_ev, open, history>>

-----------------------------------------------------------------------------
(* vde2_conn_read_data_event: a frame is passed to read_cb; a datagram     *)
(* shorter than an Ethernet header, EAGAIN, any other error, and reserved  *)
(* head or tail space that is too large are logged and skipped.            *)
ReadDataEvent(frame) ==
  /\ open
  /\ handler = "idle"
  /\ data_ev_rd
  /\ handler' = IF frame THEN "read_cb" ELSE "idle"
  /\ UNCHANGED <<pkt_queue, events, open, history>>

(* vde2_conn_read_ctl_event: end of file or an error on the control socket *)
(* is reported with CONN_READ_CLOSED; data and EAGAIN are logged.          *)
ReadCtlEvent(closed) ==
  /\ open
  /\ handler = "idle"
  /\ ctl_ev
  /\ handler' = IF closed THEN "error_cb" ELSE "idle"
  /\ UNCHANGED <<pkt_queue, events, open, history>>

(* The callback returns to the handler: EPIPE closes the connection, any   *)
(* other result of write_cb continues the loop, and of the others ends the *)
(* handler (the loop of the write event is left by break, event armed).    *)
CallbackReturns(verdict) ==
  /\ handler \in Callbacks
  /\ \/ /\ verdict = "EPIPE"
        /\ vde2_conn_close
     \/ /\ verdict # "EPIPE"
        /\ handler' = IF handler = "write_cb" THEN "sending" ELSE "idle"
        /\ UNCHANGED <<pkt_queue, events, open, history>>

-----------------------------------------------------------------------------
WriteSteps ==
  \/ WriteEvent
  \/ SendDone
  \/ SendFatal
  \/ SendGivesUp
  \/ SendRetry
  \/ SendLoopEnd

Next ==
  \/ \E size \in Sizes : vde2_conn_write(size)
  \/ engine_fini
  \/ WriteSteps
  \/ \E frame \in BOOLEAN : ReadDataEvent(frame)
  \/ \E closed \in BOOLEAN : ReadCtlEvent(closed)
  \/ \E verdict \in Verdicts : CallbackReturns(verdict)

Spec == Init /\ [][Next]_vars

(* libevent runs every handler to its end, and in each round of its loop   *)
(* dispatches every event that is active; the write event becomes active   *)
(* at the latest when its timeout (send_maxtimeout) expires.  Nothing      *)
(* obliges the peer or the engine to do anything.                          *)
Fairness ==
  /\ SF_vars(WriteEvent)
  /\ WF_vars(SendDone \/ SendFatal \/ SendGivesUp \/ SendRetry \/ SendLoopEnd)
  /\ WF_vars(\E verdict \in Verdicts : CallbackReturns(verdict))

FairSpec == Spec /\ Fairness

-----------------------------------------------------------------------------
InQueue == {pkt_queue[i].pkt : i \in DOMAIN pkt_queue}
WasSent == {sent[i] : i \in DOMAIN sent}

(* A packet waiting in pkt_queue always has the write event that will send *)
(* it: vde2_conn_write arms the event only when it is NULL, and the write  *)
(* handler removes it only after it has found the queue empty, whatever    *)
(* the callbacks it made have written meanwhile.                           *)
ArmedWhileQueued == pkt_queue # <<>> => data_ev_wr

(* The queue never exceeds MAXQLEN, even when write_cb refills it while a  *)
(* packet that may have to be put back is being sent.                      *)
QueueBounded == Len(pkt_queue) <= MAXQLEN

(* Every packet vde2_conn_write accepted is in exactly one place: waiting  *)
(* in the queue, handed to the socket, or freed unsent.                    *)
EveryPacketAccounted ==
  /\ 1..written = InQueue \cup WasSent \cup dropped
  /\ InQueue \cap WasSent = {}
  /\ InQueue \cap dropped = {}
  /\ WasSent \cap dropped = {}

(* Packets reach the socket in the order they were written, each at most   *)
(* once, although a packet may be pushed back several times.               *)
SentInOrder == \A i, j \in DOMAIN sent : i < j => sent[i] < sent[j]

(* A closed connection keeps no event that would run a handler on freed    *)
(* memory, and no packet.                                                  *)
NothingLeftAfterClose ==
  ~open => /\ ~data_ev_wr /\ ~data_ev_rd /\ ~ctl_ev
           /\ pkt_queue = <<>>
           /\ handler = "idle"

(* What the retry counter enforces: a packet is passed to sendto at most   *)
(* send_maxtries + 1 times before it is dropped.                           *)
AttemptsBounded ==
  handler = "sending" /\ pkt_queue # <<>> => tries <= SendMaxTries

(* Every accepted packet is eventually handed to the socket or freed: the  *)
(* bounded retries and the armed event leave no packet waiting for ever.   *)
EveryPacketLeaves ==
  \A n \in 1..MaxPkts : written >= n ~> n \in WasSent \cup dropped

(* A connection with nothing to send does not keep its write event, which  *)
(* would wake the loop for ever, since its socket is writable.             *)
IdleDisarms ==
  data_ev_wr /\ pkt_queue = <<>> ~> ~data_ev_wr \/ pkt_queue # <<>>

(* The connection is a lossy FIFO channel of MAXQLEN packets. *)
Fifo == INSTANCE LossyFifo WITH
  Capacity <- MAXQLEN,
  accepted <- written,
  resolved <- written - Len(pkt_queue),
  delivered <- sent,
  isopen <- open

ImplementsLossyFifo == Fifo!FifoSpec
=============================================================================
