--------------------------- MODULE Vde2Handshake ---------------------------
(***************************************************************************)
(* The server side of the vde2 transport (transport_vde2.c): listening on  *)
(* the control socket, the two-step handshake of every client, the names   *)
(* of the datagram sockets, and the hand-over of an established connection *)
(* to the connection manager (conn_manager.c) and its engine.              *)
(*                                                                         *)
(* One element of Conns is one connection object, used once.  Everything a *)
(* peer or the kernel decides (what a read returns, whether a system call  *)
(* fails) is a nondeterministic outcome.  The file system is reduced to    *)
(* the control socket and to which connection's socket each name leads to. *)
(***************************************************************************)
EXTENDS VdeList

CONSTANTS
  Conns,                     \* connection objects
  RemoteAuthorization,       \* the connection manager's parameter
  DirLen,                    \* strlen(vdesock_dir)
  SunPathLen,                \* characters that fit in sun_path (107)
  Radix, Pad,                \* "%04d": radix 10, at least 4 digits
  NoPath                     \* an empty sun_path

ASSUME HandshakeAssumption ==
  /\ RemoteAuthorization \in BOOLEAN
  /\ DirLen \in Nat /\ SunPathLen \in Nat
  /\ Radix \in Nat \ {0, 1}
  /\ Pad \in Nat \ {0}

VARIABLES
  stage,          \* of each connection, see Stages
  ctl_ev,         \* handler its control socket's event is armed with
  data_ev_rd,     \* its data socket's read event exists
  callbacks,      \* the engine has set its callbacks
  pending_conns,  \* vde2_tr.pending_conns, newest first
  connections,    \* vde2_tr.connections
  sun_path,       \* local_sa.sun_path of each connection
  bound,          \* that name leads to this connection's data socket
  listening,      \* the accept event is armed
  ctl_sock,       \* the control socket's file: "absent", "stale" or "ours"
  cm_pending      \* conn_manager.pending_conns, newest first

events == <<ctl_ev, data_ev_rd>>
names == <<connections, sun_path, bound>>
listener == <<listening, ctl_sock>>
manager == <<callbacks, cm_pending>>
vars == <<stage, events, pending_conns, names, listener, manager>>

(* "request": its request is awaited; "reply": the reply can be written    *)
(* when the socket is writable; "stuck": a read returned EAGAIN; "up":     *)
(* handed over; "outgoing": created by conn_manager_connect.               *)
Stages == {"new", "request", "reply", "stuck", "up", "outgoing", "closed"}
HalfOpen == {"request", "reply", "stuck"}

(* The number of digits "%0<Pad>d" prints. *)
Digits(n) == CHOOSE d \in Pad..(Pad + n) :
               n < Radix ^ d /\ (d > Pad => n >= Radix ^ (d - 1))

(* Mutant: one character more is set aside than the name needs. *)
LocalPathCut(n) ==
  LET room == SunPathLen - (DirLen + 2)
  IN  IF Digits(n) <= room
        THEN <<Digits(n), n>>
        ELSE <<room, n \div Radix ^ (Digits(n) - room)>>

(* snprintf "%s/%04d": the name is cut to what sun_path can hold, so that  *)
(* only the leading digits are left of the number.                         *)
LocalPath(n) ==
  LET room == SunPathLen - (DirLen + 1)
  IN  IF Digits(n) <= room
        THEN <<Digits(n), n>>
        ELSE <<room, n \div Radix ^ (Digits(n) - room)>>

TypeOK ==
  /\ stage \in [Conns -> Stages]
  /\ ctl_ev \in [Conns -> {"none", "get_request", "send_request", "read_ctl"}]
  /\ data_ev_rd \in [Conns -> BOOLEAN]
  /\ callbacks \in [Conns -> BOOLEAN]
  /\ pending_conns \in Seq(Conns)
  /\ connections \in Nat
  /\ sun_path \in [Conns -> {NoPath} \cup {LocalPath(n) : n \in 0..connections}]
  /\ bound \in [Conns -> BOOLEAN]
  /\ listening \in BOOLEAN
  /\ ctl_sock \in {"absent", "stale", "ours"}
  /\ cm_pending \in Seq(Conns)

(* transport_vde2_init; a control socket of an earlier run may be there. *)
Init ==
  /\ stage = [c \in Conns |-> "new"]
  /\ ctl_ev = [c \in Conns |-> "none"]
  /\ data_ev_rd = [c \in Conns |-> FALSE]
  /\ callbacks = [c \in Conns |-> FALSE]
  /\ pending_conns = <<>>
  /\ connections = 0
  /\ sun_path = [c \in Conns |-> NoPath]
  /\ bound = [c \in Conns |-> FALSE]
  /\ listening = FALSE
  /\ ctl_sock \in {"absent", "stale"}
  /\ cm_pending = <<>>

-----------------------------------------------------------------------------
(* Mutant: the probe's answer is ignored, the file is always removed. *)
ListenUnlinks ==
  /\ \/ UNCHANGED listener
     \/ ctl_sock' = "absent" /\ UNCHANGED listening
     \/ ctl_sock' = "ours" /\ listening' = TRUE
  /\ UNCHANGED <<stage, events, pending_conns, names, manager>>

(* vde2_listen.  bind finds the file of a socket: if nobody answers on it  *)
(* the file is removed and bind repeated, otherwise listen fails.  When    *)
(* the one who answers is this transport itself, the probe is a client     *)
(* that connects and goes away, like any other.                            *)
vde2_listen ==
  /\ \/ UNCHANGED listener        \* a call fails before bind has succeeded
     \/ /\ ctl_sock = "stale"     \* the probe is refused, a later call fails
        /\ ctl_sock' = "absent"
        /\ UNCHANGED listening
     \/ /\ ctl_sock # "ours"
        /\ ctl_sock' = "ours"
        /\ listening' = TRUE
  /\ UNCHANGED <<stage, events, pending_conns, names, manager>>

(* vde2_accept: nothing is left when accept or fcntl fails. *)
vde2_accept(c) ==
  /\ listening
  /\ stage[c] = "new"
  /\ stage' = [stage EXCEPT ![c] = "request"]
  /\ ctl_ev' = [ctl_ev EXCEPT ![c] = "get_request"]
  /\ pending_conns' = vde_list_prepend(pending_conns, c)
  /\ UNCHANGED <<data_ev_rd, names, listener, manager>>

-----------------------------------------------------------------------------
(* unlink: the name leads to nobody's socket any more. *)
unlink(p) == [d \in Conns |-> bound[d] /\ sun_path[d] # p]

(* Mutant: the control socket's event survives the close. *)
CloseKeepsCtlEvent(c) ==
  /\ stage' = [stage EXCEPT ![c] = "closed"]
  /\ data_ev_rd' = [data_ev_rd EXCEPT ![c] = FALSE]
  /\ callbacks' = [callbacks EXCEPT ![c] = FALSE]
  /\ UNCHANGED ctl_ev

(* vde2_conn_close: the events go, and the socket's file if it has a name. *)
vde2_conn_close(c) ==
  /\ stage' = [stage EXCEPT ![c] = "closed"]
  /\ ctl_ev' = [ctl_ev EXCEPT ![c] = "none"]
  /\ data_ev_rd' = [data_ev_rd EXCEPT ![c] = FALSE]
  /\ callbacks' = [callbacks EXCEPT ![c] = FALSE]

(* Mutant: the connection is closed but not taken off the list. *)
ErrorKeepsPending(c) ==
  /\ vde2_conn_close(c)
  /\ UNCHANGED <<pending_conns, connections, listener, cm_pending>>

(* The error label of both handshake handlers. *)
HandshakeError(c) ==
  /\ pending_conns' = vde_list_remove(pending_conns, c)
  /\ vde2_conn_close(c)
  /\ UNCHANGED <<connections, listener, cm_pending>>

(* vde2_srv_get_request: a request that cannot be read, is not one or      *)
(* names no accessible socket; a read that would block; a good request.    *)
vde2_srv_get_request(c) ==
  /\ ctl_ev[c] = "get_request"
  /\ \/ HandshakeError(c) /\ UNCHANGED <<sun_path, bound>>
     \/ /\ \/ /\ stage' = [stage EXCEPT ![c] = "stuck"]
              /\ ctl_ev' = [ctl_ev EXCEPT ![c] = "none"]
           \/ /\ stage' = [stage EXCEPT ![c] = "reply"]
              /\ ctl_ev' = [ctl_ev EXCEPT ![c] = "send_request"]
        /\ UNCHANGED <<data_ev_rd, pending_conns, names, listener, manager>>

(* Mutant: post_authorization does not remove what accept_cb has added. *)
AcceptCbKeepsPending(c) ==
  /\ cm_pending' = vde_list_prepend(cm_pending, c)
  /\ callbacks' = [callbacks EXCEPT ![c] = ~RemoteAuthorization]

(* conn_manager_accept_cb: without remote authorization the connection is  *)
(* at once given to the engine, which sets its callbacks, and forgotten;   *)
(* with it, it stays pending.                                              *)
conn_manager_accept_cb(c) ==
  IF RemoteAuthorization
    THEN cm_pending' = vde_list_prepend(cm_pending, c) /\ UNCHANGED callbacks
    ELSE callbacks' = [callbacks EXCEPT ![c] = TRUE] /\ UNCHANGED cm_pending

(* vde2_srv_send_request: an error before the data socket has a name, one  *)
(* after (the name's old file is gone, unless it could not be unlinked,    *)
(* and the close has unlinked ours), or success.                           *)
vde2_srv_send_request(c) ==
  LET p == LocalPath(connections)
  IN  /\ ctl_ev[c] = "send_request"
      /\ \/ HandshakeError(c) /\ UNCHANGED <<sun_path, bound>>
         \/ /\ HandshakeError(c)
            /\ sun_path' = [sun_path EXCEPT ![c] = p]
            /\ bound' \in {bound, unlink(p)}
         \/ /\ sun_path' = [sun_path EXCEPT ![c] = p]
            /\ bound' = [unlink(p) EXCEPT ![c] = TRUE]
            /\ connections' = connections + 1
            /\ pending_conns' = vde_list_remove(pending_conns, c)
            /\ stage' = [stage EXCEPT ![c] = "up"]
            /\ ctl_ev' = [ctl_ev EXCEPT ![c] = "read_ctl"]
            /\ data_ev_rd' = [data_ev_rd EXCEPT ![c] = TRUE]
            /\ conn_manager_accept_cb(c)
            /\ UNCHANGED listener

-----------------------------------------------------------------------------
(* The peer is gone or the engine wants to close: its callback answers     *)
(* EPIPE, or the engine is finalised and closes the connection itself.     *)
(* (A handler that has no callback to call ends the program.)              *)
ConnectionEnds(c) ==
  /\ stage[c] = "up"
  /\ callbacks[c]
  /\ vde2_conn_close(c)
  /\ bound' = unlink(sun_path[c])
  /\ UNCHANGED <<pending_conns, connections, sun_path, listener, cm_pending>>

(* conn_manager_connect: vde2_connect fails, and what was prepared for the *)
(* connection stays.                                                       *)
conn_manager_connect(c) ==
  /\ stage[c] = "new"
  /\ stage' = [stage EXCEPT ![c] = "outgoing"]
  /\ cm_pending' = vde_list_prepend(cm_pending, c)
  /\ UNCHANGED <<events, pending_conns, names, listener, callbacks>>

Next ==
  \/ vde2_listen
  \/ \E c \in Conns :
       \/ vde2_accept(c)
       \/ vde2_srv_get_request(c)
       \/ vde2_srv_send_request(c)
       \/ ConnectionEnds(c)
       \/ conn_manager_connect(c)

Spec == Init /\ [][Next]_vars

-----------------------------------------------------------------------------
(* The transport's list holds exactly the clients whose handshake is going *)
(* on, each once, whichever handler removes them and on whichever path.    *)
PendingExact ==
  /\ Range(pending_conns) = {c \in Conns : stage[c] \in HalfOpen}
  /\ IsInjective(pending_conns)

(* Only the handler that fits a connection's stage is armed: a handshake   *)
(* handler never runs on a connection that was handed over or freed, and   *)
(* an established one is watched on both sockets.                          *)
EventsMatchStage ==
  \A c \in Conns :
    /\ ctl_ev[c] = CASE stage[c] = "request" -> "get_request"
                     [] stage[c] = "reply" -> "send_request"
                     [] stage[c] = "up" -> "read_ctl"
                     [] OTHER -> "none"
    /\ data_ev_rd[c] <=> stage[c] = "up"

(* The name an established connection told its peer leads to its socket,   *)
(* although every later handshake unlinks the name it is about to use, and *)
(* no socket file outlives its connection.                                 *)
LivePathOwned == \A c \in Conns : bound[c] <=> stage[c] = "up"

(* The connection manager keeps nothing of a connection it has given to    *)
(* the engine: what is pending is what was never answered.                 *)
ManagerForgets ==
  \A c \in Conns : c \in Range(cm_pending) => stage[c] = "outgoing"

(* Calling listen again never takes the control socket away from the       *)
(* listener that serves it.                                                *)
ListenerStays == [][listening => listening' /\ ctl_sock' = "ours"]_vars
=============================================================================
