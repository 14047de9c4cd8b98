------------------------------ MODULE CtrlOut ------------------------------
(***************************************************************************)
(* The sending half of a control connection (engine_ctrl.c): a serialised  *)
(* message is cut into packets no larger than the connection's payload,    *)
(* the packets wait in out_queue, and out_queue is flushed into the send   *)
(* queue of the vde2 connection underneath, which takes at most MAXQLEN.   *)
(* The connection has send_maxtries 0 (ctrl_engine_newconn sets no send    *)
(* properties), so a packet the socket does not take at once is dropped.   *)
(*                                                                         *)
(* A packet is a record of the message it belongs to and the bytes of it   *)
(* that it carries.  Queues are sequences with the next packet first.      *)
(* written, sent and lost are history: only the number of a message and    *)
(* the bound on their number are taken from them.                          *)
(***************************************************************************)
EXTENDS Integers, Sequences, FiniteSetsExt

CONSTANTS
  MAXQLEN,       \* capacity of the backend's queue
  payload_sz,    \* vde_connection_max_payload of the connection
  OutLens,       \* lengths of the messages, \0 included
  MaxMsgs        \* bound on the messages written, for model checking

ASSUME OutAssumption ==
  /\ MAXQLEN \in Nat \ {0}
  /\ payload_sz \in Nat \ {0}
  /\ OutLens \subseteq Nat \ {0}
  /\ MaxMsgs \in Nat

VARIABLES
  out_queue,    \* ctrl_conn.out_queue
  pkt_queue,    \* vde2_conn.pkt_queue
  data_ev_wr,   \* the backend's write event exists
  sending,      \* the backend's write event is being handled
  out_open,
  written,      \* the lengths of the messages written so far
  sent,         \* the packets the socket took
  lost          \* number of packets dropped by the backend

outvars == <<out_queue, pkt_queue, data_ev_wr, sending, out_open, written, sent, lost>>

OutInit ==
  /\ out_queue = <<>>
  /\ pkt_queue = <<>>
  /\ data_ev_wr = FALSE
  /\ sending = FALSE
  /\ out_open = TRUE
  /\ written = <<>>
  /\ sent = <<>>
  /\ lost = 0

-----------------------------------------------------------------------------
(* The packets of the m-th message. *)
Chunks(m, out_len) ==
  LET last_chunk_sz == out_len % payload_sz
      num_chunks == out_len \div payload_sz + (IF last_chunk_sz # 0 THEN 1 ELSE 0)
  IN  [i \in 1..num_chunks |->
         [msg   |-> m,
          first |-> (i - 1) * payload_sz,
          size  |-> IF i = num_chunks /\ last_chunk_sz # 0 THEN last_chunk_sz ELSE payload_sz]]

(* Mutant: the backend's queue is not checked for room. *)
FlushAll(out, pkt) ==
  /\ pkt_queue' = pkt \o out
  /\ out_queue' = <<>>
  /\ data_ev_wr' = (data_ev_wr \/ out # <<>>)

(* Mutant: a packet the backend refuses is put back behind the others. *)
FlushRotates(out, pkt) ==
  LET n == Min({Len(out), MAXQLEN - Len(pkt)})
      rest == SubSeq(out, n + 1, Len(out))
  IN  /\ pkt_queue' = pkt \o SubSeq(out, 1, n)
      /\ out_queue' = IF rest = <<>> THEN rest ELSE Append(Tail(rest), Head(rest))
      /\ data_ev_wr' = (data_ev_wr \/ n > 0)

(* vde_connection_write on the packets of out, oldest first, until the     *)
(* backend refuses one: pkt is full (vde2_conn_write).                     *)
Flush(out, pkt) ==
  LET n == Min({Len(out), MAXQLEN - Len(pkt)})
  IN  /\ pkt_queue' = pkt \o SubSeq(out, 1, n)
      /\ out_queue' = SubSeq(out, n + 1, Len(out))
      /\ data_ev_wr' = (data_ev_wr \/ n > 0)

(* ctrl_engine_conn_write: a reply or a notification, from a read event of *)
(* this connection or from the handler of another event.                   *)
ctrl_engine_conn_write(out_len) ==
  /\ out_open
  /\ ~sending
  /\ Len(written) < MaxMsgs
  /\ written' = Append(written, out_len)
  /\ Flush(out_queue \o Chunks(Len(written) + 1, out_len), pkt_queue)
  /\ UNCHANGED <<sending, out_open, sent, lost>>

(* The backend's write event fires. *)
WriteEvent ==
  /\ out_open
  /\ ~sending
  /\ data_ev_wr
  /\ sending' = TRUE
  /\ UNCHANGED <<out_queue, pkt_queue, data_ev_wr, out_open, written, sent, lost>>

(* Mutant: the write callback does not flush. *)
SendDoneNoFlush ==
  /\ sending
  /\ pkt_queue # <<>>
  /\ sent' = Append(sent, Head(pkt_queue))
  /\ pkt_queue' = Tail(pkt_queue)
  /\ UNCHANGED <<out_queue, data_ev_wr, sending, out_open, written, lost>>

(* The socket took the packet: ctrl_engine_writecb flushes out_queue. *)
SendDone ==
  /\ sending
  /\ pkt_queue # <<>>
  /\ sent' = Append(sent, Head(pkt_queue))
  /\ Flush(out_queue, Tail(pkt_queue))
  /\ UNCHANGED <<sending, out_open, written, lost>>

(* The socket did not take it: CONN_WRITE_DELAY, ctrl_engine_errorcb lets  *)
(* it go and the handler ends, with its event still there.                 *)
SendDelayed ==
  /\ sending
  /\ pkt_queue # <<>>
  /\ lost' = lost + 1
  /\ pkt_queue' = Tail(pkt_queue)
  /\ sending' = FALSE
  /\ UNCHANGED <<out_queue, data_ev_wr, out_open, written, sent>>

(* Nothing left to send. *)
WriteEventEnds ==
  /\ sending
  /\ pkt_queue = <<>>
  /\ sending' = FALSE
  /\ data_ev_wr' = FALSE
  /\ UNCHANGED <<out_queue, pkt_queue, out_open, written, sent, lost>>

(* ctrl_conn_fini, after a fatal error of the socket or an end of file,    *)
(* and the close of the connection.                                        *)
ctrl_engine_errorcb ==
  /\ out_open
  /\ sending => pkt_queue # <<>>
  /\ out_open' = FALSE
  /\ sending' = FALSE
  /\ data_ev_wr' = FALSE
  /\ out_queue' = <<>>
  /\ pkt_queue' = <<>>
  /\ UNCHANGED <<written, sent, lost>>

OutNext ==
  \/ \E out_len \in OutLens : ctrl_engine_conn_write(out_len)
  \/ WriteEvent
  \/ SendDone
  \/ SendDelayed
  \/ WriteEventEnds
  \/ ctrl_engine_errorcb

(* The socket of a peer that reads becomes writable over and over, and a   *)
(* handler that has started runs to its end.  No fairness is assumed of    *)
(* the messages, of the socket refusing a packet, or of a close.           *)
Fairness ==
  /\ WF_outvars(WriteEvent)
  /\ WF_outvars(SendDone)
  /\ WF_outvars(WriteEventEnds)

OutSpec == OutInit /\ [][OutNext]_outvars /\ Fairness

-----------------------------------------------------------------------------
(* The packets on their way, next first: the backend's, then the engine's. *)
Waiting == pkt_queue \o out_queue

(* Where the byte stream stands after packet p, as the next packet's       *)
(* message and first byte.                                                 *)
After(p) ==
  IF p.first + p.size = written[p.msg] THEN <<p.msg + 1, 0>>
                                       ELSE <<p.msg, p.first + p.size>>

(* What was sent and what waits in the two queues are consecutive,         *)
(* non-empty pieces of the messages in the order they were written, up to  *)
(* the last byte of the last one: no chunk is cut wrong, reordered or left *)
(* out, however often the backend was full.  Once the backend has dropped  *)
(* packets this is still true of those that wait.                          *)
StreamUnbroken ==
  LET all == IF lost = 0 THEN sent \o Waiting ELSE Waiting
  IN  /\ \A i \in 1..(Len(all) - 1) : After(all[i]) = <<all[i + 1].msg, all[i + 1].first>>
      /\ \A i \in 1..Len(all) : all[i].size \in 1..payload_sz
      /\ all # <<>> /\ lost = 0 => all[1].msg = 1 /\ all[1].first = 0
      /\ all # <<>> /\ out_open => After(all[Len(all)]) = <<Len(written) + 1, 0>>

(* The backend never has more packets than its queue may hold, and packets *)
(* wait in out_queue only behind a full one, unless the backend has        *)
(* dropped packets, whose callback does not flush.                         *)
WaitsBehindFullQueue ==
  /\ Len(pkt_queue) <= MAXQLEN
  /\ out_queue # <<>> /\ Len(pkt_queue) < MAXQLEN => lost > 0

(* A connection that drops nothing and is not closed sends everything.     *)
EverythingSent ==
  (<>[](out_open /\ lost = 0)) => <>[](Waiting = <<>>)
=============================================================================
