-------------------------------- MODULE Hub --------------------------------
(***************************************************************************)
(* The hub engine (engine_hub.c): its list of ports, the broadcast of the  *)
(* frames it reads, the ports' send queues (transport_vde2.c) and the      *)
(* port_new and port_del signals it raises.                                *)
(*                                                                         *)
(* A port is a vde2 connection as in Vde2Conn.  The hub installs no        *)
(* write_cb and its other callbacks write to other connections only, so    *)
(* here a callback is part of the step of the handler that calls it; the   *)
(* variable sending still separates the packets that one write event       *)
(* sends.                                                                  *)
(*                                                                         *)
(* Frames are numbered as the hub reads them.  The packets queued for one  *)
(* port are numbered as the port accepts them: packet i of port c carries  *)
(* frame accepted[c][i].  The variables source, accepted and delivered are *)
(* history and are read by no action.                                      *)
(***************************************************************************)
EXTENDS Vde2Queue, VdeList

CONSTANTS
  Conns,          \* the connections that may become ports
  None,           \* not a connection
  TIMES,          \* send_maxtries of a port
  EthFrame,       \* sizeof(struct eth_frame)
  Payloads,       \* max_pload of the connections offered to the hub
  MaxFrames       \* bound on the frames read, for model checking

ASSUME HubAssumption ==
  /\ None \notin Conns
  /\ TIMES \in Nat
  /\ EthFrame \in Nat
  /\ Payloads \subseteq Nat
  /\ MaxFrames \in Nat

VARIABLES
  ports,        \* hub_engine.ports, the newest port first
  state,        \* of each connection: "new", "live" or "closed"
  pkt_queue,    \* of each connection
  data_ev_wr,   \* of each connection: its write event exists
  sending,      \* the connection whose write event runs, or None
  announced,    \* the number of ports in the last signal raised
  up,           \* the hub has not been finalised
  source,       \* the connection each frame was read from
  accepted,     \* of each connection, the frames its queue took
  delivered     \* of each connection, the packets its socket took

hubstate == <<ports, announced, up>>
history == <<source, accepted, delivered>>
vars == <<hubstate, state, pkt_queue, data_ev_wr, sending, history>>

TypeOK ==
  /\ ports \in Seq(Conns)
  /\ state \in [Conns -> {"new", "live", "closed"}]
  /\ pkt_queue \in [Conns -> Seq(vde2_pkt(Nat))]
  /\ data_ev_wr \in [Conns -> BOOLEAN]
  /\ sending \in Conns \cup {None}
  /\ announced \in Nat
  /\ up \in BOOLEAN
  /\ source \in Seq(Conns)
  /\ accepted \in [Conns -> Seq(Nat)]
  /\ delivered \in [Conns -> Seq(Nat)]

(* engine_hub_init *)
Init ==
  /\ ports = <<>>
  /\ state = [c \in Conns |-> "new"]
  /\ pkt_queue = [c \in Conns |-> <<>>]
  /\ data_ev_wr = [c \in Conns |-> FALSE]
  /\ sending = None
  /\ announced = 0
  /\ up = TRUE
  /\ source = <<>>
  /\ accepted = [c \in Conns |-> <<>>]
  /\ delivered = [c \in Conns |-> <<>>]

-----------------------------------------------------------------------------
(* hub_engine_newconn: a connection too small for a frame is rejected, any *)
(* other becomes the first port and port_new carries the number of ports.  *)
hub_engine_newconn(c, max_payload) ==
  /\ up
  /\ sending = None
  /\ state[c] = "new"
  /\ \/ /\ max_payload # 0 /\ max_payload < EthFrame
        /\ UNCHANGED vars
     \/ /\ max_payload = 0 \/ max_payload >= EthFrame
        /\ state' = [state EXCEPT ![c] = "live"]
        /\ ports' = vde_list_prepend(ports, c)
        /\ announced' = Len(ports) + 1
        /\ UNCHANGED <<up, pkt_queue, data_ev_wr, sending, history>>

(* Mutant: the frame is also sent back to where it came from. *)
RecipientsWithSender(c) == {p \in Range(ports) : ~QueueFull(pkt_queue[p])}

(* Mutant: the limit of the port's queue is not respected. *)
RecipientsUnlimited(c) == {p \in Range(ports) : p # c}

(* hub_engine_readcb: the frame is written to every port but the one it    *)
(* came from; a port whose queue is full refuses it, which is ignored.     *)
(* (A connection is at most once in ports, see PortsAreLive.)              *)
Recipients(c) == {p \in Range(ports) : p # c /\ ~QueueFull(pkt_queue[p])}

hub_engine_readcb(c) ==
  /\ sending = None
  /\ state[c] = "live"
  /\ Len(source) < MaxFrames
  /\ source' = Append(source, c)
  /\ accepted' = [p \in Conns |-> IF p \in Recipients(c)
                                    THEN Append(accepted[p], Len(source) + 1)
                                    ELSE accepted[p]]
  /\ pkt_queue' = [p \in Conns |-> IF p \in Recipients(c)
                                     THEN QueuePush(pkt_queue[p], Len(accepted[p]) + 1)
                                     ELSE pkt_queue[p]]
  /\ data_ev_wr' = [p \in Conns |-> data_ev_wr[p] \/ p \in Recipients(c)]
  /\ UNCHANGED <<hubstate, state, sending, delivered>>

-----------------------------------------------------------------------------
(* vde2_conn_close of connection c. *)
vde2_conn_close(c) ==
  /\ state' = [state EXCEPT ![c] = "closed"]
  /\ pkt_queue' = [pkt_queue EXCEPT ![c] = <<>>]
  /\ data_ev_wr' = [data_ev_wr EXCEPT ![c] = FALSE]

(* Mutant: the closed connection stays in the list. *)
ErrorKeepsPort(c) ==
  /\ vde2_conn_close(c)
  /\ UNCHANGED hubstate

(* hub_engine_errorcb on a fatal error: the port is removed, port_del      *)
(* carries the number of ports left, and the caller, told EPIPE, closes    *)
(* the connection.                                                         *)
hub_engine_errorcb(c) ==
  /\ ports' = vde_list_remove(ports, c)
  /\ announced' = Len(ports')
  /\ vde2_conn_close(c)
  /\ UNCHANGED up

(* The peer has closed the control socket (vde2_conn_read_ctl_event). *)
ReadCtlClosed(c) ==
  /\ sending = None
  /\ state[c] = "live"
  /\ hub_engine_errorcb(c)
  /\ UNCHANGED <<sending, history>>

-----------------------------------------------------------------------------
(* vde2_conn_write_data_event of connection c *)

WriteEvent(c) ==
  /\ sending = None
  /\ state[c] = "live"
  /\ data_ev_wr[c]
  /\ sending' = c
  /\ UNCHANGED <<hubstate, state, pkt_queue, data_ev_wr, history>>

(* sendto took the packet; there is no write_cb, the loop goes on. *)
SendDone ==
  \E c \in Conns :
    /\ sending = c
    /\ pkt_queue[c] # <<>>
    /\ delivered' = [delivered EXCEPT ![c] = Append(@, Head(pkt_queue[c]).pkt)]
    /\ pkt_queue' = [pkt_queue EXCEPT ![c] = Tail(@)]
    /\ UNCHANGED <<hubstate, state, data_ev_wr, sending, source, accepted>>

(* sendto failed: CONN_WRITE_CLOSED. *)
SendFatal ==
  \E c \in Conns :
    /\ sending = c
    /\ pkt_queue[c] # <<>>
    /\ hub_engine_errorcb(c)
    /\ sending' = None
    /\ UNCHANGED history

(* Once too often EAGAIN: CONN_WRITE_DELAY, hub_engine_errorcb returns 0   *)
(* and the packet is freed.                                                *)
SendGivesUp ==
  \E c \in Conns :
    /\ sending = c
    /\ pkt_queue[c] # <<>>
    /\ GivesUp(pkt_queue[c], TIMES)
    /\ pkt_queue' = [pkt_queue EXCEPT ![c] = Tail(@)]
    /\ sending' = None
    /\ UNCHANGED <<hubstate, state, data_ev_wr, history>>

SendRetry ==
  \E c \in Conns :
    /\ sending = c
    /\ pkt_queue[c] # <<>>
    /\ ~GivesUp(pkt_queue[c], TIMES)
    /\ pkt_queue' = [pkt_queue EXCEPT ![c] = QueueRetry(@)]
    /\ sending' = None
    /\ UNCHANGED <<hubstate, state, data_ev_wr, history>>

SendLoopEnd ==
  \E c \in Conns :
    /\ sending = c
    /\ pkt_queue[c] = <<>>
    /\ data_ev_wr' = [data_ev_wr EXCEPT ![c] = FALSE]
    /\ sending' = None
    /\ UNCHANGED <<hubstate, state, pkt_queue, history>>

-----------------------------------------------------------------------------
(* engine_hub_fini closes the connections that are in the list; nothing is *)
(* announced.                                                              *)
engine_hub_fini ==
  /\ up
  /\ sending = None
  /\ up' = FALSE
  /\ ports' = <<>>
  /\ state' = [c \in Conns |-> IF c \in Range(ports) THEN "closed" ELSE state[c]]
  /\ pkt_queue' = [c \in Conns |-> IF c \in Range(ports) THEN <<>> ELSE pkt_queue[c]]
  /\ data_ev_wr' = [c \in Conns |-> data_ev_wr[c] /\ c \notin Range(ports)]
  /\ UNCHANGED <<announced, sending, history>>

Next ==
  \/ \E c \in Conns, max_payload \in Payloads : hub_engine_newconn(c, max_payload)
  \/ \E c \in Conns : hub_engine_readcb(c)
  \/ \E c \in Conns : ReadCtlClosed(c)
  \/ \E c \in Conns : WriteEvent(c)
  \/ SendDone
  \/ SendFatal
  \/ SendGivesUp
  \/ SendRetry
  \/ SendLoopEnd
  \/ engine_hub_fini

Spec == Init /\ [][Next]_vars

-----------------------------------------------------------------------------
(* The list holds exactly the connections that are alive, each once: the   *)
(* broadcast never writes to a freed connection and forgets no port, and   *)
(* no connection outlives the hub whose callbacks it would call.           *)
PortsAreLive ==
  /\ Range(ports) = {c \in Conns : state[c] = "live"}
  /\ IsInjective(ports)
  /\ ~up => ports = <<>>

(* Whoever follows the hub's signals knows how many ports it has: the      *)
(* number in the last port_new or port_del is the length of the list,      *)
(* whichever handler found the error that closed a port.                   *)
AnnouncedCount == up => announced = Len(ports)

(* A port never gets back a frame that came from it, and gets the others   *)
(* in the order in which the hub read them, none of them twice.            *)
FramesInOrder ==
  \A c \in Conns :
    LET frame(i) == accepted[c][delivered[c][i]]
    IN  /\ \A i \in DOMAIN delivered[c] : source[frame(i)] # c
        /\ \A i, j \in DOMAIN delivered[c] : i < j => frame(i) < frame(j)

(* Each port is a lossy FIFO channel of its own: what happens on one port  *)
(* neither delays, reorders nor removes packets on another.                *)
PortFifo(c) == INSTANCE LossyFifo WITH
  Capacity <- MAXQLEN,
  accepted <- Len(accepted[c]),
  resolved <- Len(accepted[c]) - Len(pkt_queue[c]),
  delivered <- delivered[c],
  isopen <- state[c] # "closed"

EveryPortIsLossyFifo ==
  /\ \A c \in Conns : PortFifo(c)!FifoInit
  /\ [][\A c \in Conns : PortFifo(c)!FifoNext \/ UNCHANGED PortFifo(c)!fifo]_vars
=============================================================================
