------------------------------- MODULE HubNet -------------------------------
(***************************************************************************)
(* Hubs joined by unqueued local connections (localconnection.c, as        *)
(* vde_hub2hub.c joins them).  Such a connection has no queue and no       *)
(* event: a write runs the read callback of the peer's hub before it       *)
(* returns, which writes to that hub's other ports in turn, so one frame   *)
(* read by a hub is a recursion over the whole network.  The variable      *)
(* stack is the thread's call stack: one hub_engine_readcb per entry.      *)
(*                                                                         *)
(* The end of a local connection that belongs to hub h and has its peer at *)
(* hub g is the pair <<h, g>>; in the list of ports of h it is g.  The     *)
(* ports to other processes are those of module Hub; here a hub reads a    *)
(* frame from one of them, NoHub.                                          *)
(*                                                                         *)
(* The hubs form no cycle: nothing in the code stops a frame that goes     *)
(* round, and the recursion would end with the stack.                      *)
(***************************************************************************)
EXTENDS VdeList

CONSTANTS
  Hubs,
  NoHub      \* neither a hub nor an end: the port to another process

Ends == Hubs \X Hubs

ASSUME NetAssumption == NoHub \notin Hubs \cup Ends

SEEN == 2       \* bound of the counter seen: more than once

VARIABLES
  hub_ports,   \* of each hub, its local connections, newest first
  peer,        \* of each end: "none" (no vde_lc), "set" or "NULL"
  hubs_up,     \* the hubs that are not finalised
  stack,       \* the calls of hub_engine_readcb, innermost first
  closing,     \* the end whose vde_lc_close runs, or NoHub
  crashed,     \* a NULL pointer was dereferenced
  origin,      \* the hub that read the last frame: history
  seen         \* how often each hub has handled it, up to SEEN: history

netvars == <<hub_ports, peer, hubs_up, stack, closing, crashed, origin, seen>>

Calls == [hub : Hubs, conn : Hubs \cup {NoHub}, iter : Seq(Hubs)]

NetTypeOK ==
  /\ hub_ports \in [Hubs -> Seq(Hubs)]
  /\ peer \in [Ends -> {"none", "set", "NULL"}]
  /\ hubs_up \subseteq Hubs
  /\ stack \in Seq(Calls)
  /\ closing \in Ends \cup {NoHub}
  /\ crashed \in BOOLEAN
  /\ origin \in Hubs \cup {NoHub}
  /\ seen \in [Hubs -> 0..SEEN]

NetInit ==
  /\ hub_ports = [h \in Hubs |-> <<>>]
  /\ peer = [e \in Ends |-> "none"]
  /\ hubs_up = Hubs
  /\ stack = <<>>
  /\ closing = NoHub
  /\ crashed = FALSE
  /\ origin = NoHub
  /\ seen = [h \in Hubs |-> 0]

Idle == stack = <<>> /\ closing = NoHub /\ ~crashed

(* A set of hubs that no local connection leads out of. *)
Closed(S) == \A h \in S : Range(hub_ports[h]) \subseteq S

(* Two hubs are joined, directly or through others. *)
Joined(h, g) == \A S \in SUBSET Hubs : h \in S /\ Closed(S) => g \in S

-----------------------------------------------------------------------------
(* Mutant: both ends are given to the first hub. *)
ConnectToFirst(h, g) ==
  /\ Idle
  /\ {h, g} \subseteq hubs_up
  /\ ~Joined(h, g)
  /\ peer' = [peer EXCEPT ![<<h, g>>] = "set", ![<<g, h>>] = "set"]
  /\ hub_ports' = [hub_ports EXCEPT ![h] = <<g, g>> \o @]
  /\ UNCHANGED <<hubs_up, stack, closing, crashed, origin, seen>>

(* vde_connect_engines_unqueued: both ends are set up and given to the     *)
(* hubs, which put them first (hub_engine_newconn; it takes a max_pload    *)
(* of 0, so the error paths are not reached).                              *)
vde_connect_engines_unqueued(h, g) ==
  /\ Idle
  /\ {h, g} \subseteq hubs_up
  /\ ~Joined(h, g)
  /\ peer' = [peer EXCEPT ![<<h, g>>] = "set", ![<<g, h>>] = "set"]
  /\ hub_ports' = [hub_ports EXCEPT ![h] = vde_list_prepend(@, g), ![g] = vde_list_prepend(@, h)]
  /\ UNCHANGED <<hubs_up, stack, closing, crashed, origin, seen>>

(* A frame comes in from another process. *)
ReadFrame(h) ==
  /\ Idle
  /\ h \in hubs_up
  /\ stack' = <<[hub |-> h, conn |-> NoHub, iter |-> hub_ports[h]]>>
  /\ origin' = h
  /\ seen' = [g \in Hubs |-> IF g = h THEN 1 ELSE 0]
  /\ UNCHANGED <<hub_ports, peer, hubs_up, closing, crashed>>

(* if (port != conn) *)
Writes(call) == Head(call.iter) # call.conn

(* Mutant: the loop ends after one port. *)
AdvancedToEnd == [stack EXCEPT ![1].iter = <<>>]

(* The innermost loop goes to its next port. *)
Advanced == [stack EXCEPT ![1].iter = Tail(@)]

(* The loop comes to a port to write to: vde_lc_write calls the peer's     *)
(* hub_engine_readcb.                                                      *)
vde_lc_write ==
  /\ ~crashed
  /\ stack # <<>>
  /\ LET call == Head(stack)
     IN  /\ call.iter # <<>>
         /\ Writes(call)
         /\ LET to == Head(call.iter)
            IN  /\ stack' = vde_list_prepend(Advanced, [hub |-> to, conn |-> call.hub, iter |-> hub_ports[to]])
                /\ seen' = [seen EXCEPT ![to] = IF @ = SEEN THEN @ ELSE @ + 1]
  /\ UNCHANGED <<hub_ports, peer, hubs_up, closing, crashed, origin>>

(* The loop comes to the port the frame came from. *)
SkipPort ==
  /\ ~crashed
  /\ stack # <<>>
  /\ Head(stack).iter # <<>>
  /\ ~Writes(Head(stack))
  /\ stack' = Advanced
  /\ UNCHANGED <<hub_ports, peer, hubs_up, closing, crashed, origin, seen>>

(* Mutant: after a call has returned the loop begins again. *)
ReturnRestarts ==
  /\ ~crashed
  /\ stack # <<>>
  /\ Head(stack).iter = <<>>
  /\ stack' = IF Len(stack) = 1 THEN <<>>
              ELSE [Tail(stack) EXCEPT ![1].iter = hub_ports[stack[2].hub]]
  /\ UNCHANGED <<hub_ports, peer, hubs_up, closing, crashed, origin, seen>>

(* The loop is over: hub_engine_readcb returns 0, and so does the          *)
(* vde_lc_write that called it.                                            *)
Return ==
  /\ ~crashed
  /\ stack # <<>>
  /\ Head(stack).iter = <<>>
  /\ stack' = Tail(stack)
  /\ UNCHANGED <<hub_ports, peer, hubs_up, closing, crashed, origin, seen>>

(* Mutant: what is closed is the peer's hub. *)
FiniClosesPeer(h) ==
  /\ Idle
  /\ h \in hubs_up
  /\ hubs_up' = hubs_up \ {h}
  /\ closing' = IF hub_ports[h] = <<>> THEN NoHub ELSE Head(hub_ports[h])
  /\ UNCHANGED <<hub_ports, peer, stack, crashed, origin, seen>>

(* engine_hub_fini closes the ports, from the first on. *)
engine_hub_fini_of(h) ==
  /\ Idle
  /\ h \in hubs_up
  /\ hubs_up' = hubs_up \ {h}
  /\ closing' = IF hub_ports[h] = <<>> THEN NoHub ELSE <<h, Head(hub_ports[h])>>
  /\ UNCHANGED <<hub_ports, peer, stack, crashed, origin, seen>>

(* vde_lc_close reads peer->conn before it tests peer.  It detaches the    *)
(* peer and calls hub_engine_errorcb of the peer's hub, which takes the    *)
(* port off its list and returns EPIPE, so the peer is closed next; the    *)
(* rest of this close comes after that one, and is not reached.            *)
vde_lc_close ==
  /\ closing # NoHub
  /\ ~crashed
  /\ LET h == closing[1]
         g == closing[2]
     IN  \/ /\ peer[<<h, g>>] = "NULL"
            /\ crashed' = TRUE
            /\ UNCHANGED <<hub_ports, peer, closing>>
         \/ /\ peer[<<h, g>>] = "set"
            /\ peer' = [peer EXCEPT ![<<g, h>>] = "NULL"]
            /\ hub_ports' = [hub_ports EXCEPT ![g] = vde_list_remove(@, h)]
            /\ closing' = <<g, h>>
            /\ UNCHANGED crashed
  /\ UNCHANGED <<hubs_up, stack, origin, seen>>

NetNext ==
  \/ \E h, g \in Hubs : vde_connect_engines_unqueued(h, g)
  \/ \E h \in Hubs : ReadFrame(h)
  \/ vde_lc_write
  \/ SkipPort
  \/ Return
  \/ \E h \in Hubs : engine_hub_fini_of(h)
  \/ vde_lc_close

(* A handler that has started runs on to its end. *)
NetSpec == NetInit /\ [][NetNext]_netvars /\ WF_netvars(vde_lc_write \/ SkipPort \/ Return)

-----------------------------------------------------------------------------
(* When the outermost call returns, every hub joined to the one that read  *)
(* the frame has handled it, and no other.                                 *)
ReachesTheNetwork ==
  [][stack # <<>> /\ stack' = <<>> =>
       \A h \in Hubs : seen[h] = (IF Joined(origin, h) THEN 1 ELSE 0)]_netvars

(* Handling a frame comes to an end. *)
Returns == (stack # <<>>) ~> (stack = <<>>)

(* Unless one is being closed, an end is in the list of its hub only with  *)
(* its peer in the list of the other, so that no frame is handed to a hub  *)
(* that is finalised.                                                      *)
PortsMirrored ==
  closing = NoHub => \A h, g \in Hubs :
    g \in Range(hub_ports[h]) => /\ h \in Range(hub_ports[g])
                             /\ g \in hubs_up
                             /\ peer[<<h, g>>] = "set"
=============================================================================
