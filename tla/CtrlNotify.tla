----------------------------- MODULE CtrlNotify -----------------------------
(***************************************************************************)
(* Notifications of the control engine (engine_ctrl.c): its connections    *)
(* attach to and detach from the signals of other components (signal.c and *)
(* the signal part of component.c), each side keeping its own record: the  *)
(* connection a list of paths, reg_signals, and the signal a list of       *)
(* callbacks.  Components come and go, and so do connections.              *)
(*                                                                         *)
(* A path <component, signal> stands for the string that the code builds   *)
(* and splits.  Two paths are compared with strncmp up to the length of    *)
(* the registered one: PrefixPairs lists the pairs of different signal names  *)
(* of which the first is a prefix of the second (there are none among the  *)
(* hub's port_new and port_del).                                           *)
(***************************************************************************)
EXTENDS VdeList

CONSTANTS
  Comps,          \* components with signals
  Sigs,           \* their signals
  PrefixPairs,       \* see above
  Clients,        \* control connections, each used once
  None,           \* not a component
  FreedContext    \* what a read of a freed connection's context may give

ASSUME NotifyAssumption ==
  /\ None \notin Comps
  /\ PrefixPairs \subseteq Sigs \X Sigs
  /\ FreedContext \subseteq {"intact", "lost"}

Paths == Comps \X Sigs

VARIABLES
  signals,      \* of each component, the signals it has registered
  callbacks,    \* of each path, the connections attached, newest first
  finishing,    \* the component that is deregistering its signals, or None
  ctrl_conns,   \* ctrl_engine.ctrl_conns, newest first
  conn,         \* of each connection: "new", "up" or "gone"
  reg_signals,  \* of each connection, newest first
  engine,       \* the control engine: "up", in its "fini", or "down"
  notified      \* who got a notice in this step: read by no action

vars == <<signals, callbacks, finishing, ctrl_conns, conn, reg_signals, engine, notified>>

TypeOK ==
  /\ signals \in [Comps -> SUBSET Sigs]
  /\ callbacks \in [Paths -> Seq(Clients)]
  /\ finishing \in Comps \cup {None}
  /\ ctrl_conns \in Seq(Clients)
  /\ conn \in [Clients -> {"new", "up", "gone"}]
  /\ reg_signals \in [Clients -> Seq(Paths)]
  /\ engine \in {"up", "fini", "down"}
  /\ notified \subseteq Clients \X Paths

(* engine_ctrl_init *)
Init ==
  /\ signals = [c \in Comps |-> {}]
  /\ callbacks = [p \in Paths |-> <<>>]
  /\ finishing = None
  /\ ctrl_conns = <<>>
  /\ conn = [cc \in Clients |-> "new"]
  /\ reg_signals = [cc \in Clients |-> <<>>]
  /\ engine = "up"
  /\ notified = {}

(* !strncmp(p, q, strlen(p)) *)
Matches(p, q) == p[1] = q[1] /\ (p[2] = q[2] \/ <<p[2], q[2]>> \in PrefixPairs)

Registered(p) == p[2] \in signals[p[1]]

(* No component is being finalised: another handler may run. *)
Idle == finishing = None /\ engine # "fini"

-----------------------------------------------------------------------------
(* The component is created: vde_component_signals_register. *)
vde_component_signals_register(c) ==
  /\ Idle
  /\ signals[c] = {}
  /\ signals' = [signals EXCEPT ![c] = Sigs]
  /\ UNCHANGED <<callbacks, finishing, ctrl_conns, conn, reg_signals, engine>>
  /\ notified' = {}

(* The component is finalised: vde_component_signals_deregister starts. *)
vde_component_signals_deregister(c) ==
  /\ Idle
  /\ signals[c] = Sigs
  /\ finishing' = c
  /\ UNCHANGED <<signals, callbacks, ctrl_conns, conn, reg_signals, engine>>
  /\ notified' = {}

(* The loop over reg_signals of signal_destroy_callback and of             *)
(* engine_ctrl_notify_del: the first path that matches is removed.         *)
RemoveMatch(paths, p) ==
  LET found == {i \in DOMAIN paths : Matches(paths[i], p)}
  IN  IF found = {} THEN paths ELSE vde_list_remove(paths, paths[Min(found)])

(* Mutant: the connections are not told that the signal is gone. *)
DestroyNobody(p) == reg_signals

(* vde_signal_fini: signal_destroy_callback of every connection attached. *)
DestroyCallbacks(p) ==
  [cc \in Clients |-> IF cc \in Range(callbacks[p])
                        THEN RemoveMatch(reg_signals[cc], p)
                        ELSE reg_signals[cc]]

(* vde_component_signal_del, for one signal after the other. *)
vde_component_signal_del(s) ==
  /\ finishing # None
  /\ s \in signals[finishing]
  /\ LET p == <<finishing, s>>
     IN  /\ reg_signals' = DestroyCallbacks(p)
         /\ callbacks' = [callbacks EXCEPT ![p] = <<>>]
         /\ signals' = [signals EXCEPT ![finishing] = @ \ {s}]
         /\ finishing' = IF signals[finishing] = {s} THEN None ELSE finishing
  /\ UNCHANGED <<ctrl_conns, conn, engine>>
  /\ notified' = {}

-----------------------------------------------------------------------------
(* ctrl_engine_newconn *)
ctrl_engine_newconn(cc) ==
  /\ engine = "up"
  /\ Idle
  /\ conn[cc] = "new"
  /\ conn' = [conn EXCEPT ![cc] = "up"]
  /\ ctrl_conns' = vde_list_prepend(ctrl_conns, cc)
  /\ UNCHANGED <<signals, callbacks, finishing, reg_signals, engine>>
  /\ notified' = {}

(* vde_component_signal_attach succeeds. *)
Attaches(cc, p) == Registered(p) /\ cc \notin Range(callbacks[p])

(* engine_ctrl_notify_add, called for a request of the connection. *)
engine_ctrl_notify_add(cc, p) ==
  /\ Idle
  /\ conn[cc] = "up"
  /\ Attaches(cc, p)
  /\ callbacks' = [callbacks EXCEPT ![p] = vde_list_prepend(@, cc)]
  /\ reg_signals' = [reg_signals EXCEPT ![cc] = vde_list_prepend(@, p)]
  /\ UNCHANGED <<signals, finishing, ctrl_conns, conn, engine>>
  /\ notified' = {}

(* Mutant: the connection's record is kept. *)
NotifyDelKeepsPath(cc, p) ==
  /\ Idle
  /\ conn[cc] = "up"
  /\ cc \in Range(callbacks[p])
  /\ callbacks' = [callbacks EXCEPT ![p] = vde_list_remove(@, cc)]
  /\ UNCHANGED <<signals, finishing, ctrl_conns, conn, reg_signals, engine>>
  /\ notified' = {}

(* engine_ctrl_notify_del: a path of the connection matches, and it is     *)
(* attached to the signal; otherwise nothing changes.                      *)
engine_ctrl_notify_del(cc, p) ==
  /\ Idle
  /\ conn[cc] = "up"
  /\ \E i \in DOMAIN reg_signals[cc] : Matches(reg_signals[cc][i], p)
  /\ Registered(p)
  /\ cc \in Range(callbacks[p])
  /\ callbacks' = [callbacks EXCEPT ![p] = vde_list_remove(@, cc)]
  /\ reg_signals' = [reg_signals EXCEPT ![cc] = RemoveMatch(@, p)]
  /\ UNCHANGED <<signals, finishing, ctrl_conns, conn, engine>>
  /\ notified' = {}

(* Mutant: only the newest registration is undone. *)
DetachedNewest(cc) ==
  [p \in Paths |-> IF reg_signals[cc] # <<>> /\ p = Head(reg_signals[cc])
                     THEN vde_list_remove(callbacks[p], cc)
                     ELSE callbacks[p]]

(* ctrl_conn_fini_noengine: the paths of the connection are looked up and  *)
(* detached one by one.                                                    *)
Detached(cc) ==
  [p \in Paths |-> IF p \in Range(reg_signals[cc])
                     THEN vde_list_remove(callbacks[p], cc)
                     ELSE callbacks[p]]

(* ctrl_engine_errorcb, or ctrl_engine_readcb with data it cannot split:   *)
(* ctrl_conn_fini, then the transport closes the connection.               *)
ctrl_conn_fini(cc) ==
  /\ Idle
  /\ conn[cc] = "up"
  /\ ctrl_conns' = vde_list_remove(ctrl_conns, cc)
  /\ callbacks' = Detached(cc)
  /\ conn' = [conn EXCEPT ![cc] = "gone"]
  /\ reg_signals' = [reg_signals EXCEPT ![cc] = <<>>]
  /\ UNCHANGED <<signals, finishing, engine>>
  /\ notified' = {}

(* The control engine is finalised. *)
engine_ctrl_fini ==
  /\ engine = "up"
  /\ Idle
  /\ engine' = "fini"
  /\ UNCHANGED <<signals, callbacks, finishing, ctrl_conns, conn, reg_signals>>
  /\ notified' = {}

(* Its loop deletes a connection and then reads the context from it, to    *)
(* look the components up: from freed memory.                              *)
FiniConn ==
  /\ engine = "fini"
  /\ ctrl_conns # <<>>
  /\ LET cc == Head(ctrl_conns)
     IN  /\ \E context \in FreedContext :
              callbacks' = IF context = "intact" THEN Detached(cc) ELSE callbacks
         /\ conn' = [conn EXCEPT ![cc] = "gone"]
         /\ reg_signals' = [reg_signals EXCEPT ![cc] = <<>>]
  /\ ctrl_conns' = Tail(ctrl_conns)
  /\ UNCHANGED <<signals, finishing, engine>>
  /\ notified' = {}

FiniEnds ==
  /\ engine = "fini"
  /\ ctrl_conns = <<>>
  /\ engine' = "down"
  /\ UNCHANGED <<signals, callbacks, finishing, ctrl_conns, conn, reg_signals>>
  /\ notified' = {}

(* vde_component_signal_raise: signal_callback sends a notice to every     *)
(* connection attached.                                                    *)
vde_component_signal_raise(p) ==
  /\ Idle
  /\ Registered(p)
  /\ notified' = {<<cc, p>> : cc \in Range(callbacks[p])}
  /\ UNCHANGED <<signals, callbacks, finishing, ctrl_conns, conn, reg_signals, engine>>

Next ==
  \/ \E c \in Comps : vde_component_signals_register(c)
  \/ \E c \in Comps : vde_component_signals_deregister(c)
  \/ \E s \in Sigs : vde_component_signal_del(s)
  \/ \E cc \in Clients : ctrl_engine_newconn(cc)
  \/ \E cc \in Clients, p \in Paths : engine_ctrl_notify_add(cc, p)
  \/ \E cc \in Clients, p \in Paths : engine_ctrl_notify_del(cc, p)
  \/ \E cc \in Clients : ctrl_conn_fini(cc)
  \/ engine_ctrl_fini
  \/ FiniConn
  \/ FiniEnds
  \/ \E p \in Paths : vde_component_signal_raise(p)

Spec == Init /\ [][Next]_vars

-----------------------------------------------------------------------------
(* The two records agree: a path is in a connection's list exactly when    *)
(* the connection is in that signal's list, whichever side goes first and  *)
(* also between two signals of a component that is being finalised.        *)
RecordsAgree ==
  \A cc \in Clients, p \in Paths :
    p \in Range(reg_signals[cc]) <=> cc \in Range(callbacks[p])

(* A signal never calls back into the freed memory of a control connection *)
(* ("detach from all signals", ctrl_conn_fini_noengine).                   *)
NoDanglingCallback ==
  \A p \in Paths : \A cc \in Range(callbacks[p]) : conn[cc] = "up"

(* No connection is notified twice of one event, or can be detached only   *)
(* once of two registrations.                                              *)
AttachedOnce ==
  /\ \A p \in Paths : IsInjective(callbacks[p])
  /\ \A cc \in Clients : IsInjective(reg_signals[cc])

(* The engine's list holds exactly the connections that are up. *)
ListIsUp ==
  /\ Range(ctrl_conns) = {cc \in Clients : conn[cc] = "up"}
  /\ IsInjective(ctrl_conns)

(* Notifications are a publish-subscribe service in which a client is      *)
(* subscribed to the signals in its own list: every one that asked, and no *)
(* other, is told when the signal is raised.                               *)
Service == INSTANCE PubSub WITH
  Topics <- Paths,
  subs <- {s \in Clients \X Paths : s[2] \in Range(reg_signals[s[1]])},
  last <- notified

ServesSubscribers ==
  /\ Service!PubSubInit
  /\ [][Service!PubSubNext]_vars
=============================================================================
