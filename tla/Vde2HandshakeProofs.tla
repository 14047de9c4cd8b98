------------------------ MODULE Vde2HandshakeProofs ------------------------
(***************************************************************************)
(* Proofs about Vde2Handshake, for every set of connections, directory and *)
(* width of the names, and about the descriptors of Vde2Fds, for any       *)
(* number of them.                                                         *)
(***************************************************************************)
EXTENDS Vde2Fds, ListRemoval, WellFoundedInduction

(* The numbers used so far, and the one to be used next, fit in sun_path. *)
NamesFit == \A n \in 0..connections : Digits(n) <= SunPathLen - (DirLen + 1)

(* An established connection has a name with a number that was used.       *)
NamesUsed ==
  \A c \in Conns : stage[c] = "up" =>
    \E n \in 0..(connections - 1) : sun_path[c] = LocalPath(n)

(* No two established connections have the same name. *)
NamesDistinct ==
  \A c, d \in Conns :
    stage[c] = "up" /\ stage[d] = "up" /\ sun_path[c] = sun_path[d] => c = d

ListenerServes == listening => ctl_sock = "ours"

IInv ==
  /\ TypeOK
  /\ EventsMatchStage
  /\ PendingExact
  /\ NamesUsed
  /\ NamesFit => LivePathOwned /\ NamesDistinct
  /\ ListenerServes

(* Names that fit are as different as their numbers. *)
LEMMA NamesDiffer ==
  ASSUME connections \in Nat, NamesFit,
         NEW m \in 0..connections, NEW n \in 0..connections, LocalPath(m) = LocalPath(n)
  PROVE  m = n
<1>1. LocalPath(m) = <<Digits(m), m>> /\ LocalPath(n) = <<Digits(n), n>>
  BY DEF NamesFit, LocalPath
<1>2. <<Digits(m), m>>[2] = m /\ <<Digits(n), n>>[2] = n
  OBVIOUS
<1> HIDE DEF Digits, LocalPath
<1> QED
  BY <1>1, <1>2

(* The initial states satisfy the invariant. *)
LEMMA InitIInv == Init => IInv
<1> SUFFICES ASSUME Init PROVE IInv
  OBVIOUS
<1> USE DEF Init
<1>1. TypeOK
  <2>1. pending_conns \in Seq(Conns) /\ cm_pending \in Seq(Conns)
    OBVIOUS
  <2>2. sun_path \in [Conns -> {NoPath} \cup {LocalPath(n) : n \in 0..connections}]
    OBVIOUS
  <2>3. connections \in Nat /\ ctl_sock \in {"absent", "stale", "ours"}
    OBVIOUS
  <2>4. /\ stage \in [Conns -> Stages]
        /\ ctl_ev \in [Conns -> {"none", "get_request", "send_request", "read_ctl"}]
    BY DEF Stages
  <2> QED
    BY <2>1, <2>2, <2>3, <2>4 DEF TypeOK
<1>2. EventsMatchStage
  BY DEF EventsMatchStage
<1>3. PendingExact
  BY ListEmpty DEF PendingExact, HalfOpen
<1>4. NamesUsed /\ LivePathOwned /\ NamesDistinct /\ ListenerServes
  BY DEF NamesUsed, LivePathOwned, NamesDistinct, ListenerServes
<1> QED
  BY <1>1, <1>2, <1>3, <1>4 DEF IInv

(* vde2_listen leaves the connections alone. *)
LEMMA ListenStep == ASSUME IInv, vde2_listen PROVE IInv'
<1> USE DEF IInv, vde2_listen, events, names, manager, listener
<1>1. TypeOK'
  BY DEF TypeOK
<1>2. EventsMatchStage'
  BY DEF EventsMatchStage
<1>3. PendingExact'
  BY DEF PendingExact
<1>4. NamesUsed' /\ (NamesFit' => LivePathOwned' /\ NamesDistinct')
  BY DEF NamesUsed, NamesFit, LivePathOwned, NamesDistinct
<1>5. ListenerServes'
  BY DEF ListenerServes
<1> QED
  BY <1>1, <1>2, <1>3, <1>4, <1>5

(* vde2_accept puts a new connection on the list. *)
LEMMA AcceptStep == ASSUME IInv, NEW c \in Conns, vde2_accept(c) PROVE IInv'
<1> USE DEF vde2_accept, names, manager, listener
<1>0. /\ TypeOK /\ EventsMatchStage /\ PendingExact /\ NamesUsed /\ ListenerServes
      /\ NamesFit => LivePathOwned /\ NamesDistinct
  BY DEF IInv
<1>1. /\ pending_conns' \in Seq(Conns)
      /\ Range(pending_conns') = Range(pending_conns) \cup {c}
      /\ IsInjective(pending_conns')
  <2>1. pending_conns \in Seq(Conns) /\ IsInjective(pending_conns) /\ c \notin Range(pending_conns)
    BY <1>0 DEF TypeOK, PendingExact, HalfOpen
  <2> QED
    BY <2>1, ListPrepend
<1>2. TypeOK'
  BY <1>0, <1>1 DEF TypeOK, Stages
<1>3. EventsMatchStage'
  BY <1>0 DEF EventsMatchStage, TypeOK
<1>4. PendingExact'
  BY <1>0, <1>1 DEF PendingExact, TypeOK, HalfOpen
<1>5. NamesUsed' /\ (NamesFit' => LivePathOwned' /\ NamesDistinct')
  BY <1>0 DEF NamesUsed, NamesFit, LivePathOwned, NamesDistinct, TypeOK
<1>6. ListenerServes'
  BY <1>0 DEF ListenerServes
<1> QED
  BY <1>2, <1>3, <1>4, <1>5, <1>6 DEF IInv

(* A connection that fails in its handshake is taken off the list.  It may *)
(* have been given a name, whose file is then gone: nobody else's.         *)
LEMMA ErrorStep ==
  ASSUME IInv, NEW c \in Conns, stage[c] \in HalfOpen, HandshakeError(c),
         \/ UNCHANGED sun_path
         \/ sun_path' = [sun_path EXCEPT ![c] = LocalPath(connections)],
         bound' \in {bound, unlink(LocalPath(connections))}
  PROVE  IInv'
<1> USE DEF HandshakeError, vde2_conn_close, listener
<1>0. /\ TypeOK /\ EventsMatchStage /\ PendingExact /\ NamesUsed /\ ListenerServes
      /\ NamesFit => LivePathOwned /\ NamesDistinct
  BY DEF IInv
<1>1. /\ pending_conns' \in Seq(Conns)
      /\ Range(pending_conns') = Range(pending_conns) \ {c}
      /\ IsInjective(pending_conns')
  <2>1. pending_conns \in Seq(Conns) /\ IsInjective(pending_conns) /\ c \in Range(pending_conns)
    BY <1>0 DEF TypeOK, PendingExact
  <2> QED
    BY <2>1, ListRemove
<1>2. connections \in Nat /\ connections \in 0..connections /\ connections' = connections
  BY <1>0 DEF TypeOK
<1>3. TypeOK'
  <2>1. sun_path' \in [Conns -> {NoPath} \cup {LocalPath(n) : n \in 0..connections}]
    BY <1>0, <1>2 DEF TypeOK
  <2>2. bound' \in [Conns -> BOOLEAN]
    BY <1>0 DEF TypeOK, unlink
  <2> QED
    BY <1>0, <1>1, <1>2, <2>1, <2>2 DEF TypeOK, Stages
<1>4. EventsMatchStage'
  BY <1>0 DEF EventsMatchStage, TypeOK
<1>5. PendingExact'
  BY <1>0, <1>1 DEF PendingExact, TypeOK, HalfOpen
<1>6. stage[c] # "up" /\ stage' = [stage EXCEPT ![c] = "closed"]
  BY DEF HalfOpen
<1>7. \A d \in Conns : /\ stage'[d] = "up" <=> stage[d] = "up"
                       /\ stage[d] = "up" => sun_path'[d] = sun_path[d]
  BY <1>0, <1>6 DEF TypeOK
<1>8. NamesUsed'
  BY <1>0, <1>2, <1>7 DEF NamesUsed
<1>9. ASSUME NamesFit' PROVE LivePathOwned' /\ NamesDistinct'
  <2>1. NamesFit /\ LivePathOwned /\ NamesDistinct
    BY <1>0, <1>2, <1>9 DEF NamesFit
  <2>2. \A d \in Conns : stage[d] = "up" => sun_path[d] # LocalPath(connections)
    BY <1>0, <1>2, <2>1, NamesDiffer DEF NamesUsed
  <2>3. \A d \in Conns : bound'[d] <=> bound[d]
    BY <2>1, <2>2 DEF unlink, LivePathOwned
  <2> QED
    BY <1>7, <2>1, <2>3 DEF LivePathOwned, NamesDistinct
<1>10. ListenerServes'
  BY <1>0 DEF ListenerServes
<1> QED
  BY <1>3, <1>4, <1>5, <1>8, <1>9, <1>10 DEF IInv

(* vde2_srv_get_request: the request is bad, would block, or is good. *)
LEMMA GetRequestStep == ASSUME IInv, NEW c \in Conns, vde2_srv_get_request(c) PROVE IInv'
<1>0. /\ TypeOK /\ EventsMatchStage /\ PendingExact /\ NamesUsed /\ ListenerServes
      /\ NamesFit => LivePathOwned /\ NamesDistinct
  BY DEF IInv
<1>1. stage[c] = "request"
  BY <1>0 DEF vde2_srv_get_request, EventsMatchStage, TypeOK, Stages
<1>2. CASE HandshakeError(c) /\ UNCHANGED <<sun_path, bound>>
  BY <1>1, <1>2, ErrorStep DEF HalfOpen
<1>3. CASE \E to \in {"stuck", "reply"} :
             /\ stage' = [stage EXCEPT ![c] = to]
             /\ ctl_ev' = [ctl_ev EXCEPT ![c] = IF to = "stuck" THEN "none" ELSE "send_request"]
             /\ UNCHANGED <<data_ev_rd, pending_conns, names, listener, manager>>
  <2> USE <1>0, <1>1, <1>3 DEF names, listener, manager
  <2>1. TypeOK'
    BY DEF TypeOK, Stages
  <2>2. EventsMatchStage'
    BY DEF TypeOK, EventsMatchStage
  <2>3. PendingExact'
    BY DEF TypeOK, PendingExact, HalfOpen
  <2>4. NamesUsed' /\ (NamesFit' => LivePathOwned' /\ NamesDistinct')
    BY DEF TypeOK, NamesUsed, NamesFit, LivePathOwned, NamesDistinct
  <2>5. ListenerServes'
    BY DEF ListenerServes
  <2> QED
    BY <2>1, <2>2, <2>3, <2>4, <2>5 DEF IInv
<1> QED
  BY <1>2, <1>3 DEF vde2_srv_get_request

(* The handshake succeeds: the connection gets the next number.  If the    *)
(* names fit, the file it unlinks is nobody's.                             *)
LEMMA EstablishedStep ==
  ASSUME IInv, NEW c \in Conns, stage[c] = "reply",
         sun_path' = [sun_path EXCEPT ![c] = LocalPath(connections)],
         bound' = [unlink(LocalPath(connections)) EXCEPT ![c] = TRUE],
         connections' = connections + 1,
         pending_conns' = vde_list_remove(pending_conns, c),
         stage' = [stage EXCEPT ![c] = "up"],
         ctl_ev' = [ctl_ev EXCEPT ![c] = "read_ctl"],
         data_ev_rd' = [data_ev_rd EXCEPT ![c] = TRUE],
         callbacks' \in [Conns -> BOOLEAN],
         cm_pending' \in Seq(Conns),
         UNCHANGED listener
  PROVE  IInv'
<1>0. /\ TypeOK /\ EventsMatchStage /\ PendingExact /\ NamesUsed /\ ListenerServes
      /\ NamesFit => LivePathOwned /\ NamesDistinct
  BY DEF IInv
<1>1. /\ pending_conns' \in Seq(Conns)
      /\ Range(pending_conns') = Range(pending_conns) \ {c}
      /\ IsInjective(pending_conns')
  <2>1. pending_conns \in Seq(Conns) /\ IsInjective(pending_conns) /\ c \in Range(pending_conns)
    BY <1>0 DEF TypeOK, PendingExact, HalfOpen
  <2> QED
    BY <2>1, ListRemove
<1>2. /\ connections \in Nat /\ connections' \in Nat
      /\ connections \in 0..connections /\ connections \in 0..(connections' - 1)
      /\ 0..connections \subseteq 0..connections'
      /\ 0..(connections - 1) \subseteq 0..(connections' - 1)
  BY <1>0 DEF TypeOK
<1>3. TypeOK'
  <2>1. sun_path' \in [Conns -> {NoPath} \cup {LocalPath(n) : n \in 0..connections'}]
    BY <1>0, <1>2 DEF TypeOK
  <2>2. bound' \in [Conns -> BOOLEAN]
    BY <1>0 DEF TypeOK, unlink
  <2> QED
    BY <1>0, <1>1, <1>2, <2>1, <2>2 DEF TypeOK, Stages, listener
<1>4. EventsMatchStage'
  BY <1>0 DEF EventsMatchStage, TypeOK
<1>5. PendingExact'
  BY <1>0, <1>1 DEF PendingExact, TypeOK, HalfOpen
<1>6. \A d \in Conns : d # c => stage'[d] = stage[d] /\ sun_path'[d] = sun_path[d]
  BY <1>0 DEF TypeOK
<1>7. stage'[c] = "up" /\ sun_path'[c] = LocalPath(connections)
  BY <1>0 DEF TypeOK
<1>8. NamesUsed'
  <2> SUFFICES ASSUME NEW d \in Conns, stage'[d] = "up"
               PROVE  \E n \in 0..(connections' - 1) : sun_path'[d] = LocalPath(n)
    BY DEF NamesUsed
  <2>1. CASE d = c
    BY <1>2, <1>7, <2>1
  <2>2. CASE d # c
    BY <1>0, <1>2, <1>6, <2>2 DEF NamesUsed
  <2> QED
    BY <2>1, <2>2
<1>9. ASSUME NamesFit' PROVE LivePathOwned' /\ NamesDistinct'
  <2>1. NamesFit /\ LivePathOwned /\ NamesDistinct
    BY <1>0, <1>2, <1>9 DEF NamesFit
  <2>2. \A d \in Conns : stage[d] = "up" => sun_path[d] # LocalPath(connections)
    BY <1>0, <1>2, <2>1, NamesDiffer DEF NamesUsed
  <2>3. \A d \in Conns : d # c => (bound'[d] <=> bound[d])
    BY <2>1, <2>2 DEF unlink, LivePathOwned
  <2>4. bound'[c] = TRUE
    BY DEF unlink
  <2>5. LivePathOwned'
    BY <1>6, <1>7, <2>1, <2>3, <2>4 DEF LivePathOwned
  <2>6. NamesDistinct'
    BY <1>6, <1>7, <2>1, <2>2 DEF NamesDistinct
  <2> QED
    BY <2>5, <2>6
<1>10. ListenerServes'
  BY <1>0 DEF ListenerServes, listener
<1> QED
  BY <1>3, <1>4, <1>5, <1>8, <1>9, <1>10 DEF IInv

(* vde2_srv_send_request: one of the two. *)
LEMMA SendRequestStep == ASSUME IInv, NEW c \in Conns, vde2_srv_send_request(c) PROVE IInv'
<1>0. TypeOK /\ EventsMatchStage
  BY DEF IInv
<1>1. stage[c] = "reply"
  BY <1>0 DEF vde2_srv_send_request, EventsMatchStage, TypeOK, Stages
<1>2. CASE HandshakeError(c) /\ UNCHANGED <<sun_path, bound>>
  BY <1>1, <1>2, ErrorStep DEF HalfOpen
<1>3. CASE /\ HandshakeError(c)
           /\ sun_path' = [sun_path EXCEPT ![c] = LocalPath(connections)]
           /\ bound' \in {bound, unlink(LocalPath(connections))}
  BY <1>1, <1>3, ErrorStep DEF HalfOpen
<1>4. CASE /\ sun_path' = [sun_path EXCEPT ![c] = LocalPath(connections)]
           /\ bound' = [unlink(LocalPath(connections)) EXCEPT ![c] = TRUE]
           /\ connections' = connections + 1
           /\ pending_conns' = vde_list_remove(pending_conns, c)
           /\ stage' = [stage EXCEPT ![c] = "up"]
           /\ ctl_ev' = [ctl_ev EXCEPT ![c] = "read_ctl"]
           /\ data_ev_rd' = [data_ev_rd EXCEPT ![c] = TRUE]
           /\ conn_manager_accept_cb(c)
           /\ UNCHANGED listener
  <2>1. callbacks' \in [Conns -> BOOLEAN]
    BY <1>0, <1>4 DEF conn_manager_accept_cb, TypeOK
  <2>2. cm_pending' \in Seq(Conns)
    <3>1. cm_pending \in Seq(Conns) /\ <<c>> \in Seq(Conns)
      BY <1>0 DEF TypeOK
    <3>2. vde_list_prepend(cm_pending, c) \in Seq(Conns)
      BY <3>1 DEF vde_list_prepend
    <3> QED
      BY <1>4, <3>1, <3>2 DEF conn_manager_accept_cb
  <2> QED
    BY <1>1, <1>4, <2>1, <2>2, EstablishedStep
<1> QED
  BY <1>2, <1>3, <1>4 DEF vde2_srv_send_request

(* An established connection ends and takes only its own file with it. *)
LEMMA EndStep == ASSUME IInv, NEW c \in Conns, ConnectionEnds(c) PROVE IInv'
<1> USE DEF ConnectionEnds, vde2_conn_close, listener
<1>0. /\ TypeOK /\ EventsMatchStage /\ PendingExact /\ NamesUsed /\ ListenerServes
      /\ NamesFit => LivePathOwned /\ NamesDistinct
  BY DEF IInv
<1>1. TypeOK'
  BY <1>0 DEF TypeOK, Stages, unlink
<1>2. EventsMatchStage'
  BY <1>0 DEF EventsMatchStage, TypeOK
<1>3. PendingExact'
  BY <1>0 DEF PendingExact, TypeOK, HalfOpen
<1>4. \A d \in Conns : d # c => stage'[d] = stage[d]
  BY <1>0 DEF TypeOK
<1>5. stage'[c] = "closed"
  BY <1>0 DEF TypeOK
<1>6. NamesUsed'
  BY <1>0, <1>4, <1>5 DEF NamesUsed
<1>7. ASSUME NamesFit' PROVE LivePathOwned' /\ NamesDistinct'
  <2>1. LivePathOwned /\ NamesDistinct
    BY <1>0, <1>7 DEF NamesFit
  <2>2. \A d \in Conns : bound'[d] <=> bound[d] /\ d # c
    BY <2>1 DEF unlink, LivePathOwned, NamesDistinct
  <2> QED
    BY <1>4, <1>5, <2>1, <2>2 DEF LivePathOwned, NamesDistinct
<1>8. ListenerServes'
  BY <1>0 DEF ListenerServes
<1> QED
  BY <1>1, <1>2, <1>3, <1>6, <1>7, <1>8 DEF IInv

(* conn_manager_connect touches nothing of the transport. *)
LEMMA ConnectStep == ASSUME IInv, NEW c \in Conns, conn_manager_connect(c) PROVE IInv'
<1> USE DEF conn_manager_connect, events, names, listener
<1>0. /\ TypeOK /\ EventsMatchStage /\ PendingExact /\ NamesUsed /\ ListenerServes
      /\ NamesFit => LivePathOwned /\ NamesDistinct
  BY DEF IInv
<1>1. TypeOK'
  <2>1. cm_pending \in Seq(Conns) /\ <<c>> \in Seq(Conns)
    BY <1>0 DEF TypeOK
  <2>2. cm_pending' \in Seq(Conns)
    BY <2>1 DEF vde_list_prepend
  <2> QED
    BY <1>0, <2>2 DEF TypeOK, Stages
<1>2. EventsMatchStage'
  BY <1>0 DEF EventsMatchStage, TypeOK
<1>3. PendingExact'
  BY <1>0 DEF PendingExact, TypeOK, HalfOpen
<1>4. NamesUsed' /\ (NamesFit' => LivePathOwned' /\ NamesDistinct')
  BY <1>0 DEF NamesUsed, NamesFit, LivePathOwned, NamesDistinct, TypeOK
<1>5. ListenerServes'
  BY <1>0 DEF ListenerServes
<1> QED
  BY <1>1, <1>2, <1>3, <1>4, <1>5 DEF IInv

(* A step that changes nothing. *)
LEMMA StutterStep == ASSUME IInv, UNCHANGED vars PROVE IInv'
<1> USE DEF IInv, vars, events, names, listener, manager
<1>1. TypeOK'
  BY DEF TypeOK
<1>2. EventsMatchStage'
  BY DEF EventsMatchStage
<1>3. PendingExact'
  BY DEF PendingExact
<1>4. NamesUsed' /\ (NamesFit' => LivePathOwned' /\ NamesDistinct')
  BY DEF NamesUsed, NamesFit, LivePathOwned, NamesDistinct
<1>5. ListenerServes'
  BY DEF ListenerServes
<1> QED
  BY <1>1, <1>2, <1>3, <1>4, <1>5

(* No step leaves IInv. *)
LEMMA NextStep == IInv /\ [Next]_vars => IInv'
  BY ListenStep, AcceptStep, GetRequestStep, SendRequestStep, EndStep, ConnectStep,
     StutterStep DEF Next

(* IInv is an invariant. *)
LEMMA Invariance == Spec => []IInv
  BY NextStep, InitIInv, PTL DEF Spec

(* Type correctness, for every set of connections. *)
THEOREM TypeCorrect == Spec => []TypeOK
<1>1. IInv => TypeOK
  BY DEF IInv
<1> QED
  BY <1>1, Invariance, PTL

(* The transport's list of pending connections is exactly the set of the   *)
(* handshakes going on, each once.                                         *)
THEOREM PendingIsExact == Spec => []PendingExact
<1>1. IInv => PendingExact
  BY DEF IInv
<1> QED
  BY <1>1, Invariance, PTL

(* Only the handler that fits the stage of a connection is armed. *)
THEOREM EventsMatch == Spec => []EventsMatchStage
<1>1. IInv => EventsMatchStage
  BY DEF IInv
<1> QED
  BY <1>1, Invariance, PTL

(* As long as the numbered names fit in sun_path, the name an established  *)
(* connection told its peer leads to its socket, however many connections  *)
(* have come and gone.                                                     *)
THEOREM PathsOwnedWhileNamesFit == Spec => [](NamesFit => LivePathOwned)
<1>1. IInv => (NamesFit => LivePathOwned)
  BY DEF IInv
<1> QED
  BY <1>1, Invariance, PTL

(* Listening again never disturbs a listener. *)
THEOREM ListenerIsKept == Spec => ListenerStays
<1>1. ASSUME IInv, [Next]_vars
      PROVE  [listening => listening' /\ ctl_sock' = "ours"]_vars
  <2> SUFFICES ASSUME Next, listening PROVE listening' /\ ctl_sock' = "ours"
    BY <1>1
  <2>0. ctl_sock = "ours"
    BY <1>1 DEF IInv, ListenerServes
  <2>1. CASE vde2_listen
    BY <2>0, <2>1 DEF vde2_listen, listener
  <2>2. CASE UNCHANGED listener
    BY <2>0, <2>2 DEF listener
  <2>3. ASSUME NEW c \in Conns, vde2_accept(c) PROVE UNCHANGED listener
    BY <2>3 DEF vde2_accept
  <2>4. ASSUME NEW c \in Conns, vde2_srv_get_request(c) PROVE UNCHANGED listener
    BY <2>4 DEF vde2_srv_get_request, HandshakeError
  <2>5. ASSUME NEW c \in Conns, vde2_srv_send_request(c) PROVE UNCHANGED listener
    BY <2>5 DEF vde2_srv_send_request, HandshakeError
  <2>6. ASSUME NEW c \in Conns, ConnectionEnds(c) PROVE UNCHANGED listener
    BY <2>6 DEF ConnectionEnds
  <2>7. ASSUME NEW c \in Conns, conn_manager_connect(c) PROVE UNCHANGED listener
    BY <2>7 DEF conn_manager_connect
  <2> QED
    BY <2>1, <2>2, <2>3, <2>4, <2>5, <2>6, <2>7 DEF Next
<1> QED
  BY <1>1, Invariance, PTL DEF Spec, ListenerStays

-----------------------------------------------------------------------------
(* What the connection manager has pending was never answered. *)

(* Each step of the handshake keeps the manager's list right: "outgoing"   *)
(* is a stage no handler leaves.                                           *)
LEMMA ManagerStep ==
  ASSUME ~RemoteAuthorization, IInv, ManagerForgets, [Next]_vars
  PROVE  ManagerForgets'
<1> USE DEF ManagerForgets
<1>0. TypeOK /\ EventsMatchStage
  BY DEF IInv
<1>1. CASE vde2_listen
  BY <1>1 DEF vde2_listen, manager
<1>2. ASSUME NEW c \in Conns, stage[c] # "outgoing",
             \E s \in Stages : stage' = [stage EXCEPT ![c] = s],
             UNCHANGED cm_pending
      PROVE  ManagerForgets'
  BY <1>0, <1>2 DEF TypeOK
<1>3. ASSUME NEW c \in Conns, vde2_accept(c) PROVE ManagerForgets'
  BY <1>2, <1>3 DEF vde2_accept, manager, Stages
<1>4. ASSUME NEW c \in Conns, ctl_ev[c] # "none" PROVE stage[c] # "outgoing"
  BY <1>0, <1>4 DEF EventsMatchStage
<1>5. ASSUME NEW c \in Conns, vde2_srv_get_request(c) PROVE ManagerForgets'
  <2>1. ctl_ev[c] # "none" /\ UNCHANGED cm_pending
    BY <1>5 DEF vde2_srv_get_request, HandshakeError, manager
  <2>2. \E s \in Stages : stage' = [stage EXCEPT ![c] = s]
    BY <1>5 DEF vde2_srv_get_request, HandshakeError, vde2_conn_close, Stages
  <2> QED
    BY <1>2, <1>4, <2>1, <2>2
<1>6. ASSUME NEW c \in Conns, vde2_srv_send_request(c) PROVE ManagerForgets'
  <2>1. ctl_ev[c] # "none" /\ UNCHANGED cm_pending
    BY <1>6 DEF vde2_srv_send_request, HandshakeError, conn_manager_accept_cb
  <2>2. \E s \in Stages : stage' = [stage EXCEPT ![c] = s]
    BY <1>6 DEF vde2_srv_send_request, HandshakeError, vde2_conn_close, Stages
  <2> QED
    BY <1>2, <1>4, <2>1, <2>2
<1>7. ASSUME NEW c \in Conns, ConnectionEnds(c) PROVE ManagerForgets'
  BY <1>2, <1>7 DEF ConnectionEnds, vde2_conn_close, Stages
<1>8. ASSUME NEW c \in Conns, conn_manager_connect(c) PROVE ManagerForgets'
  <2>1. /\ stage[c] = "new" /\ stage' = [stage EXCEPT ![c] = "outgoing"]
        /\ cm_pending' = <<c>> \o cm_pending
    BY <1>8 DEF conn_manager_connect, vde_list_prepend
  <2>2. \A d \in Range(cm_pending') : d = c \/ d \in Range(cm_pending)
    BY <1>0, <2>1 DEF TypeOK, Range
  <2> QED
    BY <1>0, <2>1, <2>2 DEF TypeOK
<1>9. CASE UNCHANGED vars
  BY <1>9 DEF vars, manager
<1> QED
  BY <1>1, <1>3, <1>5, <1>6, <1>7, <1>8, <1>9 DEF Next

(* Without remote authorization conn_manager_accept_cb leaves nothing      *)
(* behind: all that the manager has pending are connections whose connect  *)
(* has failed.                                                             *)
THEOREM ManagerAlwaysForgets ==
  ASSUME ~RemoteAuthorization PROVE Spec => []ManagerForgets
<1>1. Init => ManagerForgets
  BY ListEmpty DEF Init, ManagerForgets
<1>2. IInv /\ ManagerForgets /\ [Next]_vars => ManagerForgets'
  BY ManagerStep
<1> QED
  BY <1>1, <1>2, Invariance, PTL DEF Spec

-----------------------------------------------------------------------------
(* The descriptors. *)

(* data_fd is 0, as calloc left it, until the data socket is created. *)
ZeroUntilCreated ==
  \A c \in Conns : stage[c] \in {"new"} \cup HalfOpen => data_fd[c] = 0

UpHasData == \A c \in Conns : stage[c] = "up" => data_fd[c] \in 0..MaxFd

FdInv == FdTypeOK /\ ZeroUntilCreated /\ UpHasData /\ NoFdLeak /\ OnlyZeroIsTaken

(* The kernel gives out a descriptor that is free. *)
LEMMA LowestIsFree ==
  ASSUME FdTypeOK, Unused # {}
  PROVE  Min(Unused) \in 0..MaxFd /\ fds[Min(Unused)] = Free
<1>1. Unused \subseteq Nat
  BY DEF Unused
<1>2. \E x \in Unused : \A y \in Unused : ~(<<y, x>> \in OpToRel(<, Nat))
  BY <1>1, NatLessThanWellFounded, WFMin
<1>3. \E x \in Unused : \A y \in Unused : x <= y
  <2>1. PICK x \in Unused : \A y \in Unused : ~(<<y, x>> \in OpToRel(<, Nat))
    BY <1>2
  <2>2. ASSUME NEW y \in Unused PROVE x <= y
    <3>1. x \in Nat /\ y \in Nat
      BY <1>1
    <3>2. ~(<<y, x>> \in {ss \in Nat \X Nat : ss[1] < ss[2]})
      BY <2>1 DEF OpToRel
    <3> QED
      BY <3>1, <3>2
  <2> QED
    BY <2>2
<1>4. Min(Unused) \in Unused
  BY <1>3 DEF Min
<1> QED
  BY <1>4 DEF Unused

(* A connection that is not alive has no descriptor, and what a live one   *)
(* has is in its own two fields.                                           *)
LEMMA OpenedFor ==
  ASSUME FdInv, NEW c \in Conns, NEW f \in 0..MaxFd, fds[f] = c
  PROVE  Alive(c) /\ f \in Sockets(c)
  BY DEF FdInv, NoFdLeak

(* A step that closes what connection c owns, with d in data_fd. *)
LEMMA ClosingStep ==
  ASSUME IInv, FdInv, NEW c \in Conns, Alive(c),
         stage' = [stage EXCEPT ![c] = "closed"], UNCHANGED ctl_fd,
         NEW STATE d, d \in -1..MaxFd,
         data_fd' = [data_fd EXCEPT ![c] = d], fds' = Closed(Owned(c, d)),
         d \in {-1, 0} \/ fds[d] \in {c, Free},
         stage[c] = "up" => d = data_fd[c]
  PROVE  FdInv'
<1> USE DEF FdInv
<1>0. TypeOK /\ MaxFd \in Nat /\ Free \notin Conns
  BY FdsAssumption DEF IInv
<1>1. FdTypeOK'
  BY <1>0 DEF FdTypeOK, Closed
<1>2. ZeroUntilCreated' /\ UpHasData'
  BY <1>0 DEF ZeroUntilCreated, UpHasData, TypeOK, HalfOpen, FdTypeOK
<1>3. ASSUME NEW e \in Conns, e # c
      PROVE  Alive(e)' = Alive(e) /\ Sockets(e)' = Sockets(e)
  BY <1>0, <1>3 DEF Alive, Sockets, TypeOK, FdTypeOK
<1>4. \A f \in 0..MaxFd : fds'[f] = IF f \in Owned(c, d) THEN Free ELSE fds[f]
  BY DEF Closed
<1>5. ASSUME NEW f \in 0..MaxFd, fds[f] = c PROVE f \in Owned(c, d)
  <2>1. f \in Sockets(c)
    BY <1>5, OpenedFor
  <2> QED
    BY <2>1 DEF Sockets, Owned
<1>6. NoFdLeak'
  <2> SUFFICES ASSUME NEW f \in 0..MaxFd, NEW e \in Conns, fds'[f] = e
               PROVE  Alive(e)' /\ f \in Sockets(e)'
    BY DEF NoFdLeak, Alive, Sockets
  <2>1. f \notin Owned(c, d) /\ fds[f] = e
    BY <1>0, <1>4
  <2>2. e # c
    BY <1>5, <2>1
  <2>3. Alive(e) /\ f \in Sockets(e)
    BY <2>1, OpenedFor
  <2> QED
    BY <1>3, <2>2, <2>3
<1>7. OnlyZeroIsTaken'
  <2> SUFFICES ASSUME NEW e \in Conns, Alive(e)', NEW f \in Sockets(e)' \ {0}
               PROVE  fds'[f] = e
    BY DEF OnlyZeroIsTaken
  <2>1. e # c
    BY <1>0 DEF Alive, HalfOpen, TypeOK
  <2>2. Alive(e) /\ f \in Sockets(e) \ {0}
    BY <1>3, <2>1
  <2>3. fds[f] = e
    BY <2>2 DEF OnlyZeroIsTaken
  <2>4. f \in 0..MaxFd
    BY <1>0, <2>2 DEF Sockets, FdTypeOK, UpHasData
  <2>5. f # ctl_fd[c]
    BY <2>1, <2>2, <2>3 DEF OnlyZeroIsTaken, Sockets
  <2>6. f # d
    BY <1>0, <2>1, <2>2, <2>3, <2>4
  <2> QED
    BY <1>4, <2>3, <2>4, <2>5, <2>6 DEF Owned
<1> QED
  BY <1>1, <1>2, <1>6, <1>7

(* A step that opens the lowest free descriptor for an owner o, and, if it *)
(* is a connection, brings that to a stage in which the descriptor is one  *)
(* of its sockets.                                                         *)
LEMMA OpeningStep ==
  ASSUME FdInv, Unused # {}, NEW o \in Conns \cup {App, Listener},
         fds' = [fds EXCEPT ![Min(Unused)] = o],
         FdTypeOK', ZeroUntilCreated', UpHasData',
         \A e \in Conns : e # o => (Alive(e)' <=> Alive(e)) /\ Sockets(e)' = Sockets(e),
         o \in Conns => /\ Alive(o)'
                        /\ Sockets(o)' = {Min(Unused)} \cup (IF Alive(o) THEN Sockets(o) ELSE {})
  PROVE  FdInv'
<1> DEFINE n == Min(Unused)
<1>0. /\ n \in 0..MaxFd /\ fds[n] = Free /\ MaxFd \in Nat
      /\ {App, Listener, Free} \cap Conns = {} /\ o # Free
  BY LowestIsFree, FdsAssumption DEF FdInv
<1>1. \A f \in 0..MaxFd : fds'[f] = IF f = n THEN o ELSE fds[f]
  BY <1>0 DEF FdInv, FdTypeOK
<1> HIDE DEF n
<1>2. NoFdLeak'
  <2> SUFFICES ASSUME NEW f \in 0..MaxFd, NEW e \in Conns, fds'[f] = e
               PROVE  Alive(e)' /\ f \in Sockets(e)'
    BY DEF NoFdLeak, Alive, Sockets
  <2>1. CASE f = n
    BY <1>0, <1>1, <2>1 DEF n
  <2>2. CASE f # n
    <3>1. Alive(e) /\ f \in Sockets(e)
      BY <1>1, <2>2, OpenedFor
    <3> QED
      BY <3>1
  <2> QED
    BY <2>1, <2>2
<1>3. OnlyZeroIsTaken'
  <2> SUFFICES ASSUME NEW e \in Conns, Alive(e)', NEW f \in Sockets(e)' \ {0}
               PROVE  fds'[f] = e
    BY DEF OnlyZeroIsTaken
  <2>1. CASE f = n /\ e = o
    BY <1>0, <1>1, <2>1
  <2>2. CASE ~(f = n /\ e = o)
    <3>1. Alive(e) /\ f \in Sockets(e) \ {0}
      BY <2>2 DEF n
    <3>2. fds[f] = e
      BY <3>1 DEF FdInv, OnlyZeroIsTaken
    <3>3. ctl_fd[e] \in 0..MaxFd /\ (stage[e] = "up" => data_fd[e] \in 0..MaxFd)
      BY DEF FdInv, FdTypeOK, UpHasData
    <3>4. f \in 0..MaxFd
      BY <3>1, <3>3 DEF Sockets
    <3> QED
      BY <1>0, <1>1, <3>2, <3>4
  <2> QED
    BY <2>1, <2>2
<1> QED
  BY <1>2, <1>3 DEF FdInv

(* A step that opens and closes nothing, of a connection whose sockets     *)
(* stay the same.                                                          *)
LEMMA FdQuietStep ==
  ASSUME IInv, FdInv, UNCHANGED fdvars,
         \/ UNCHANGED stage
         \/ \E c \in Conns, s \in HalfOpen :
              stage[c] \in HalfOpen /\ stage' = [stage EXCEPT ![c] = s]
         \/ \E c \in Conns :
              stage[c] = "new" /\ stage' = [stage EXCEPT ![c] = "outgoing"]
  PROVE  FdInv'
<1> USE DEF FdInv, fdvars
<1>0. TypeOK
  BY DEF IInv
<1>1. FdTypeOK' /\ ZeroUntilCreated' /\ UpHasData'
  BY <1>0 DEF FdTypeOK, ZeroUntilCreated, UpHasData, HalfOpen, TypeOK
<1>2. ASSUME NEW e \in Conns PROVE (Alive(e)' <=> Alive(e)) /\ Sockets(e)' = Sockets(e)
  BY <1>0 DEF Alive, Sockets, HalfOpen, TypeOK
<1>3. NoFdLeak'
  <2> SUFFICES ASSUME NEW f \in 0..MaxFd, NEW e \in Conns, fds'[f] = e
               PROVE  Alive(e)' /\ f \in Sockets(e)'
    BY DEF NoFdLeak, Alive, Sockets
  <2> QED
    BY <1>2, OpenedFor
<1>4. OnlyZeroIsTaken'
  BY <1>2 DEF OnlyZeroIsTaken
<1> QED
  BY <1>1, <1>3, <1>4

(* The initial descriptors. *)
LEMMA FdInitially == FdInit => FdInv
<1> SUFFICES ASSUME FdInit PROVE FdInv
  OBVIOUS
<1> USE FdsAssumption DEF FdInit, Init
<1>1. FdTypeOK /\ ZeroUntilCreated /\ UpHasData
  BY DEF FdTypeOK, ZeroUntilCreated, UpHasData
<1>2. NoFdLeak /\ OnlyZeroIsTaken
  BY DEF NoFdLeak, OnlyZeroIsTaken, Alive, HalfOpen
<1> QED
  BY <1>1, <1>2 DEF FdInv

(* vde2_accept opens the control socket of a new connection. *)
LEMMA FdAcceptStep ==
  ASSUME IInv, FdInv, NEW c \in Conns, FdAccept(c) PROVE FdInv'
<1> USE DEF FdAccept
<1>0. /\ TypeOK /\ Min(Unused) \in 0..MaxFd /\ stage[c] = "new"
      /\ stage' = [stage EXCEPT ![c] = "request"]
  BY LowestIsFree DEF FdInv, IInv, vde2_accept
<1>1. FdTypeOK'
  BY <1>0 DEF FdInv, FdTypeOK
<1>2. ZeroUntilCreated' /\ UpHasData'
  BY <1>0 DEF FdInv, ZeroUntilCreated, UpHasData, TypeOK
<1>3. \A e \in Conns : e # c => (Alive(e)' <=> Alive(e)) /\ Sockets(e)' = Sockets(e)
  BY <1>0 DEF Alive, Sockets, TypeOK, FdInv, FdTypeOK
<1>4. /\ ~Alive(c) /\ Alive(c)' /\ Sockets(c)' = {Min(Unused)}
  BY <1>0 DEF Alive, Sockets, HalfOpen, TypeOK, FdInv, FdTypeOK
<1> QED
  BY <1>1, <1>2, <1>3, <1>4, OpeningStep

(* vde2_srv_send_request ends the handshake. *)
LEMMA SendRequestStages ==
  ASSUME IInv, NEW c \in Conns, vde2_srv_send_request(c)
  PROVE  /\ stage[c] = "reply"
         /\ \/ stage' = [stage EXCEPT ![c] = "closed"]
            \/ stage' = [stage EXCEPT ![c] = "up"]
<1>1. TypeOK /\ stage[c] = "reply"
  BY DEF IInv, EventsMatchStage, vde2_srv_send_request
<1>2. CASE HandshakeError(c)
  BY <1>1, <1>2 DEF HandshakeError, vde2_conn_close
<1>3. CASE ~HandshakeError(c)
  BY <1>1, <1>3 DEF vde2_srv_send_request
<1> QED
  BY <1>1, <1>2, <1>3

(* vde2_srv_send_request closes what the connection has, or opens its data *)
(* socket.                                                                 *)
LEMMA FdSendRequestStep ==
  ASSUME IInv, FdInv, NEW c \in Conns, FdSendRequest(c) PROVE FdInv'
<1>0. /\ TypeOK /\ MaxFd \in Nat /\ stage[c] = "reply" /\ Alive(c)
      /\ \/ stage' = [stage EXCEPT ![c] = "closed"]
         \/ stage' = [stage EXCEPT ![c] = "up"]
      /\ UNCHANGED ctl_fd
  BY SendRequestStages, FdsAssumption DEF FdSendRequest, IInv, Alive, HalfOpen
<1>1. stage'[c] \in {"closed", "up"}
  BY <1>0 DEF TypeOK
<1>2. ASSUME stage'[c] = "closed", data_fd' = [data_fd EXCEPT ![c] = -1],
             fds' = Closed(Owned(c, -1))
      PROVE  FdInv'
  <2>1. -1 \in -1..MaxFd /\ stage' = [stage EXCEPT ![c] = "closed"]
    BY <1>0, <1>2 DEF TypeOK
  <2> QED
    BY <1>0, <1>2, <2>1, ClosingStep
<1>3. ASSUME Unused # {}, data_fd' = [data_fd EXCEPT ![c] = Min(Unused)]
      PROVE  /\ Min(Unused) \in 0..MaxFd /\ fds[Min(Unused)] = Free
             /\ FdTypeOK /\ data_fd'[c] = Min(Unused)
  BY <1>3, LowestIsFree DEF FdInv, FdTypeOK
<1>4. ASSUME stage'[c] = "closed", Unused # {},
             data_fd' = [data_fd EXCEPT ![c] = Min(Unused)],
             fds' = Closed(Owned(c, Min(Unused)))
      PROVE  FdInv'
  <2>1. stage' = [stage EXCEPT ![c] = "closed"] /\ stage[c] # "up"
    BY <1>0, <1>4 DEF TypeOK
  <2>2. Min(Unused) \in -1..MaxFd /\ fds[Min(Unused)] = Free
    BY <1>0, <1>3, <1>4
  <2> QED
    BY <1>0, <1>4, <2>1, <2>2, ClosingStep
<1>5. ASSUME stage'[c] # "closed", Unused # {},
             data_fd' = [data_fd EXCEPT ![c] = Min(Unused)],
             fds' = [fds EXCEPT ![Min(Unused)] = c]
      PROVE  FdInv'
  <2>1. stage' = [stage EXCEPT ![c] = "up"]
    BY <1>0, <1>5 DEF TypeOK
  <2>2. FdTypeOK'
    BY <1>0, <1>3, <1>5 DEF FdTypeOK
  <2>3. ZeroUntilCreated' /\ UpHasData'
    BY <1>0, <1>3, <1>5, <2>1 DEF FdInv, ZeroUntilCreated, UpHasData, TypeOK, HalfOpen, FdTypeOK
  <2>4. \A e \in Conns : e # c => (Alive(e)' <=> Alive(e)) /\ Sockets(e)' = Sockets(e)
    BY <1>0, <1>3, <1>5, <2>1 DEF Alive, Sockets, TypeOK, FdTypeOK
  <2>5. Alive(c)' /\ Sockets(c)' = {Min(Unused)} \cup Sockets(c)
    BY <1>0, <1>3, <1>5, <2>1 DEF Alive, Sockets, TypeOK, FdTypeOK
  <2> QED
    BY <1>0, <1>5, <2>2, <2>3, <2>4, <2>5, OpeningStep
<1> QED
  BY <1>2, <1>4, <1>5 DEF FdSendRequest

(* Every step keeps the descriptors right. *)
LEMMA FdStep ==
  ASSUME IInv, FdInv, [FdNext]_<<vars, fdvars>> PROVE FdInv'
<1>0. TypeOK /\ FdTypeOK
  BY DEF IInv, FdInv
<1>1. CASE FdListen
  <2>1. UNCHANGED <<stage, ctl_fd, data_fd>>
    BY <1>1 DEF FdListen, vde2_listen
  <2>2. CASE UNCHANGED fds
    BY <2>1, <2>2, FdQuietStep DEF fdvars
  <2>3. CASE Unused # {} /\ fds' = [fds EXCEPT ![Min(Unused)] = Listener]
    <3>1. FdTypeOK' /\ ZeroUntilCreated' /\ UpHasData'
      BY <1>0, <2>1, <2>3, LowestIsFree DEF FdInv, FdTypeOK, ZeroUntilCreated, UpHasData
    <3>2. \A e \in Conns : (Alive(e)' <=> Alive(e)) /\ Sockets(e)' = Sockets(e)
      BY <2>1 DEF Alive, Sockets
    <3> QED
      BY <2>3, <3>1, <3>2, OpeningStep, FdsAssumption
  <2> QED
    BY <1>1, <2>2, <2>3 DEF FdListen
<1>2. CASE AppOpens
  <2>1. UNCHANGED <<stage, ctl_fd, data_fd>>
    BY <1>2 DEF AppOpens, vars
  <2>2. Unused # {} /\ fds' = [fds EXCEPT ![Min(Unused)] = App]
    BY <1>2 DEF AppOpens
  <2>3. FdTypeOK' /\ ZeroUntilCreated' /\ UpHasData'
    BY <1>0, <2>1, <2>2, LowestIsFree DEF FdInv, FdTypeOK, ZeroUntilCreated, UpHasData
  <2>4. \A e \in Conns : (Alive(e)' <=> Alive(e)) /\ Sockets(e)' = Sockets(e)
    BY <2>1 DEF Alive, Sockets
  <2> QED
    BY <2>2, <2>3, <2>4, OpeningStep, FdsAssumption
<1>3. ASSUME NEW c \in Conns, FdGetRequest(c) PROVE FdInv'
  <2>1. /\ stage[c] = "request" /\ data_fd[c] = 0 /\ Alive(c) /\ UNCHANGED <<ctl_fd, data_fd>>
        /\ fds' = IF stage'[c] = "closed" THEN Closed(Owned(c, data_fd[c])) ELSE fds
        /\ vde2_srv_get_request(c)
    BY <1>3 DEF FdGetRequest, vde2_srv_get_request, IInv, EventsMatchStage, FdInv,
                ZeroUntilCreated, HalfOpen, Alive
  <2>2. CASE stage' = [stage EXCEPT ![c] = "closed"]
    <3>1. stage'[c] = "closed" /\ data_fd' = [data_fd EXCEPT ![c] = 0] /\ 0 \in -1..MaxFd
      BY <1>0, <2>1, <2>2, FdsAssumption DEF TypeOK, FdTypeOK
    <3> QED
      BY <2>1, <2>2, <3>1, ClosingStep
  <2>3. CASE \E s \in HalfOpen : stage' = [stage EXCEPT ![c] = s]
    <3>1. stage'[c] # "closed"
      BY <1>0, <2>3 DEF TypeOK, HalfOpen
    <3> QED
      BY <2>1, <2>3, <3>1, FdQuietStep DEF fdvars, HalfOpen
  <2> QED
    BY <2>1, <2>2, <2>3 DEF vde2_srv_get_request, HandshakeError, vde2_conn_close, HalfOpen
<1>4. ASSUME NEW c \in Conns, FdConnectionEnds(c) PROVE FdInv'
  <2>1. /\ stage[c] = "up" /\ Alive(c) /\ stage' = [stage EXCEPT ![c] = "closed"]
        /\ UNCHANGED <<ctl_fd, data_fd>> /\ fds' = Closed(Owned(c, data_fd[c]))
    BY <1>4 DEF FdConnectionEnds, ConnectionEnds, vde2_conn_close, Alive
  <2>2. data_fd' = [data_fd EXCEPT ![c] = data_fd[c]] /\ data_fd[c] \in -1..MaxFd
    BY <1>0, <2>1 DEF FdTypeOK
  <2>3. data_fd[c] = 0 \/ fds[data_fd[c]] = c
    BY <2>1 DEF FdInv, OnlyZeroIsTaken, Sockets
  <2> QED
    BY <2>1, <2>2, <2>3, ClosingStep
<1>5. ASSUME NEW c \in Conns, FdConnect(c) PROVE FdInv'
  BY <1>5, FdQuietStep DEF FdConnect, conn_manager_connect
<1>6. CASE UNCHANGED <<vars, fdvars>>
  BY <1>6, FdQuietStep DEF vars
<1> QED
  BY <1>1, <1>2, <1>3, <1>4, <1>5, <1>6, FdAcceptStep, FdSendRequestStep DEF FdNext

(* With the descriptors, the handshake is the handshake of before. *)
LEMMA FdInvariance == FdSpec => []IInv /\ []FdInv
<1>1. FdInit => IInv /\ FdInv
  BY InitIInv, FdInitially DEF FdInit
<1>2. ASSUME IInv, FdInv, [FdNext]_<<vars, fdvars>> PROVE IInv' /\ FdInv'
  <2>1. [Next]_vars
    BY <1>2 DEF FdNext, Next, FdListen, AppOpens, FdAccept, FdGetRequest, FdSendRequest,
                FdConnectionEnds, FdConnect
  <2> QED
    BY <1>2, <2>1, NextStep, FdStep
<1> QED
  BY <1>1, <1>2, PTL DEF FdSpec

(* Whatever number the kernel gives out, however many connections there    *)
(* are and on whichever path one ends, vde2_conn_close leaves no           *)
(* descriptor of it open.                                                  *)
THEOREM NeverLeaksFd == FdSpec => []NoFdLeak
<1>1. FdInv => NoFdLeak
  BY DEF FdInv
<1> QED
  BY <1>1, FdInvariance, PTL

(* Although vde2_conn_close closes whatever number is in data_fd, the only *)
(* descriptor it ever takes from another owner is 0.                       *)
THEOREM OnlyZeroIsEverTaken == FdSpec => []OnlyZeroIsTaken
<1>1. FdInv => OnlyZeroIsTaken
  BY DEF FdInv
<1> QED
  BY <1>1, FdInvariance, PTL
=============================================================================
