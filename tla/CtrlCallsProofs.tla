-------------------------- MODULE CtrlCallsProofs --------------------------
(***************************************************************************)
(* Proofs about CtrlNotify and about CtrlCalls on top of it, for every     *)
(* number of components, signals, hubs, ports and connections, if no       *)
(* signal's name is a prefix of another's and the context can be read      *)
(* from a freed connection.                                                *)
(***************************************************************************)
EXTENDS CtrlCalls, ListRemoval

(* A connection that is not up has no registrations. *)
OnlyUpRegistered == \A cc \in Clients : conn[cc] # "up" => reg_signals[cc] = <<>>

IInv ==
  /\ TypeOK
  /\ RecordsAgree
  /\ AttachedOnce
  /\ ListIsUp
  /\ OnlyUpRegistered

(* What the proofs assume of the constants. *)
Sound == PrefixPairs = {} /\ FreedContext \subseteq {"intact"}

(* The initial states satisfy the invariant. *)
LEMMA InitIInv == Init => IInv
<1> SUFFICES ASSUME Init PROVE IInv
  OBVIOUS
<1> USE DEF Init
<1>1. TypeOK
  <2>1. callbacks \in [Paths -> Seq(Clients)] /\ ctrl_conns \in Seq(Clients)
    OBVIOUS
  <2>2. reg_signals \in [Clients -> Seq(Paths)]
    OBVIOUS
  <2>3. notified \subseteq Clients \X Paths
    OBVIOUS
  <2>4. signals \in [Comps -> SUBSET Sigs]
    OBVIOUS
  <2> QED
    BY <2>1, <2>2, <2>3, <2>4 DEF TypeOK
<1>2. RecordsAgree /\ AttachedOnce
  BY ListEmpty DEF RecordsAgree, AttachedOnce
<1>3. ListIsUp /\ OnlyUpRegistered
  BY ListEmpty DEF ListIsUp, OnlyUpRegistered
<1> QED
  BY <1>1, <1>2, <1>3 DEF IInv

(* Steps that leave the connections and the registrations alone. *)
LEMMA OtherStep ==
  ASSUME IInv,
         signals' \in [Comps -> SUBSET Sigs], finishing' \in Comps \cup {None},
         engine' \in {"up", "fini", "down"}, notified' \subseteq Clients \X Paths,
         UNCHANGED <<callbacks, ctrl_conns, conn, reg_signals>>
  PROVE  IInv'
<1> USE DEF IInv
<1>1. TypeOK'
  BY DEF TypeOK
<1>2. RecordsAgree'
  BY DEF RecordsAgree
<1>3. AttachedOnce'
  BY DEF AttachedOnce
<1>4. ListIsUp' /\ OnlyUpRegistered'
  BY DEF ListIsUp, OnlyUpRegistered
<1> QED
  BY <1>1, <1>2, <1>3, <1>4

(* Without prefixes, the first path that matches is the path itself. *)
LEMMA MatchIsEqual ==
  ASSUME Sound, NEW p \in Paths, NEW r \in Seq(Paths), IsInjective(r)
  PROVE  RemoveMatch(r, p) = vde_list_remove(r, p)
<1> DEFINE found == {i \in DOMAIN r : Matches(r[i], p)}
<1>1. \A q \in Paths : Matches(q, p) <=> q = p
  BY DEF Matches, Paths, Sound
<1>2. DOMAIN r \subseteq Nat /\ \A i \in DOMAIN r : r[i] \in Paths
  OBVIOUS
<1>3. found = {i \in DOMAIN r : r[i] = p}
  BY <1>1, <1>2
<1>4. CASE found = {}
  BY <1>3, <1>4 DEF RemoveMatch, vde_list_remove
<1>5. CASE found # {}
  <2>1. PICK k \in DOMAIN r : r[k] = p
    BY <1>3, <1>5
  <2>2. found = {k}
    BY <1>3, <2>1 DEF IsInjective
  <2>3. Min({k}) = k
    BY <1>2 DEF Min
  <2> QED
    BY <2>1, <2>2, <2>3 DEF RemoveMatch
<1> QED
  BY <1>4, <1>5

(* ctrl_conn_fini_noengine takes the connection off every signal. *)
LEMMA DetachedEverywhere ==
  ASSUME IInv, NEW cc \in Clients
  PROVE  /\ Detached(cc) \in [Paths -> Seq(Clients)]
         /\ \A p \in Paths : Range(Detached(cc)[p]) = Range(callbacks[p]) \ {cc}
         /\ \A p \in Paths : IsInjective(Detached(cc)[p])
<1>0. TypeOK /\ RecordsAgree /\ AttachedOnce
  BY DEF IInv
<1>1. ASSUME NEW p \in Paths
      PROVE  /\ Detached(cc)[p] \in Seq(Clients)
             /\ Range(Detached(cc)[p]) = Range(callbacks[p]) \ {cc}
             /\ IsInjective(Detached(cc)[p])
  <2>1. callbacks[p] \in Seq(Clients) /\ IsInjective(callbacks[p])
    BY <1>0 DEF TypeOK, AttachedOnce
  <2>2. CASE p \in Range(reg_signals[cc])
    <3>1. cc \in Range(callbacks[p]) /\ Detached(cc)[p] = vde_list_remove(callbacks[p], cc)
      BY <1>0, <2>2 DEF RecordsAgree, Detached
    <3> QED
      BY <2>1, <3>1, ListRemove
  <2>3. CASE p \notin Range(reg_signals[cc])
    <3>1. cc \notin Range(callbacks[p]) /\ Detached(cc)[p] = callbacks[p]
      BY <1>0, <2>3 DEF RecordsAgree, Detached
    <3> QED
      BY <2>1, <3>1
  <2> QED
    BY <2>2, <2>3
<1>2. Detached(cc) = [p \in Paths |-> Detached(cc)[p]]
  BY DEF Detached
<1> QED
  BY <1>1, <1>2

(* A connection goes: it is taken off the signals, the list and the books. *)
LEMMA GoneStep ==
  ASSUME IInv, NEW cc \in Clients, conn[cc] = "up",
         callbacks' = Detached(cc),
         conn' = [conn EXCEPT ![cc] = "gone"],
         reg_signals' = [reg_signals EXCEPT ![cc] = <<>>],
         ctrl_conns' \in Seq(Clients), IsInjective(ctrl_conns'),
         Range(ctrl_conns') = Range(ctrl_conns) \ {cc},
         notified' = {}, UNCHANGED <<signals, finishing, engine>>
  PROVE  IInv'
<1>0. TypeOK /\ RecordsAgree /\ AttachedOnce /\ ListIsUp /\ OnlyUpRegistered
  BY DEF IInv
<1>1. /\ callbacks' \in [Paths -> Seq(Clients)]
      /\ \A p \in Paths : Range(callbacks'[p]) = Range(callbacks[p]) \ {cc}
      /\ \A p \in Paths : IsInjective(callbacks'[p])
  BY DetachedEverywhere
<1>2. /\ reg_signals' \in [Clients -> Seq(Paths)]
      /\ reg_signals'[cc] = <<>>
      /\ \A d \in Clients : d # cc => reg_signals'[d] = reg_signals[d]
  BY <1>0 DEF TypeOK
<1>3. TypeOK'
  BY <1>0, <1>1, <1>2 DEF TypeOK
<1>4. RecordsAgree'
  <2> SUFFICES ASSUME NEW d \in Clients, NEW p \in Paths
               PROVE  p \in Range(reg_signals'[d]) <=> d \in Range(callbacks'[p])
    BY DEF RecordsAgree
  <2>1. CASE d = cc
    BY <1>1, <1>2, <2>1, ListEmpty
  <2>2. CASE d # cc
    BY <1>0, <1>1, <1>2, <2>2 DEF RecordsAgree
  <2> QED
    BY <2>1, <2>2
<1>5. AttachedOnce'
  <2>1. ASSUME NEW d \in Clients PROVE IsInjective(reg_signals'[d])
    BY <1>0, <1>2, ListEmpty DEF AttachedOnce
  <2> QED
    BY <1>1, <2>1 DEF AttachedOnce
<1>6. ListIsUp'
  BY <1>0 DEF ListIsUp, TypeOK
<1>7. OnlyUpRegistered'
  BY <1>0, <1>2 DEF OnlyUpRegistered, TypeOK
<1> QED
  BY <1>3, <1>4, <1>5, <1>6, <1>7 DEF IInv

(* signal_destroy_callback removes the path of the signal. *)
LEMMA DestroyedPath ==
  ASSUME Sound, IInv, NEW p \in Paths, NEW cc \in Clients
  PROVE  LET r == DestroyCallbacks(p)[cc]
         IN  /\ r \in Seq(Paths)
             /\ Range(r) = Range(reg_signals[cc]) \ {p}
             /\ IsInjective(r)
<1>0. TypeOK /\ RecordsAgree /\ AttachedOnce
  BY DEF IInv
<1>1. reg_signals[cc] \in Seq(Paths) /\ IsInjective(reg_signals[cc])
  BY <1>0 DEF TypeOK, AttachedOnce
<1>2. CASE cc \in Range(callbacks[p])
  <2>1. p \in Range(reg_signals[cc])
    BY <1>0, <1>2 DEF RecordsAgree
  <2>2. DestroyCallbacks(p)[cc] = vde_list_remove(reg_signals[cc], p)
    BY <1>1, <1>2, MatchIsEqual DEF DestroyCallbacks
  <2> QED
    BY <1>1, <2>1, <2>2, ListRemove
<1>3. CASE cc \notin Range(callbacks[p])
  <2>1. p \notin Range(reg_signals[cc]) /\ DestroyCallbacks(p)[cc] = reg_signals[cc]
    BY <1>0, <1>3 DEF RecordsAgree, DestroyCallbacks
  <2> QED
    BY <1>1, <2>1
<1> QED
  BY <1>2, <1>3

(* A signal goes: every connection attached to it forgets its path. *)
LEMMA SignalDelStep ==
  ASSUME Sound, IInv, NEW s \in Sigs, vde_component_signal_del(s) PROVE IInv'
<1>0. TypeOK /\ RecordsAgree /\ AttachedOnce /\ ListIsUp /\ OnlyUpRegistered
  BY DEF IInv
<1> DEFINE p == <<finishing, s>>
<1>1. /\ finishing \in Comps /\ p \in Paths
      /\ reg_signals' = DestroyCallbacks(p)
      /\ callbacks' = [callbacks EXCEPT ![p] = <<>>]
      /\ signals' = [signals EXCEPT ![finishing] = @ \ {s}]
      /\ finishing' \in {None, finishing}
      /\ UNCHANGED <<ctrl_conns, conn, engine>> /\ notified' = {}
  BY <1>0 DEF vde_component_signal_del, TypeOK, Paths
<1> HIDE DEF p
<1>2. ASSUME NEW cc \in Clients
      PROVE  /\ reg_signals'[cc] \in Seq(Paths)
             /\ Range(reg_signals'[cc]) = Range(reg_signals[cc]) \ {p}
             /\ IsInjective(reg_signals'[cc])
  BY <1>1, DestroyedPath
<1>3. /\ callbacks' \in [Paths -> Seq(Clients)]
      /\ callbacks'[p] = <<>>
      /\ \A q \in Paths : q # p => callbacks'[q] = callbacks[q]
  BY <1>0, <1>1 DEF TypeOK
<1>4. reg_signals' \in [Clients -> Seq(Paths)]
  <2>1. reg_signals' = [cc \in Clients |-> reg_signals'[cc]]
    BY <1>1 DEF DestroyCallbacks
  <2> QED
    BY <1>2, <2>1
<1>5. TypeOK'
  BY <1>0, <1>1, <1>3, <1>4 DEF TypeOK
<1>6. RecordsAgree'
  <2> SUFFICES ASSUME NEW d \in Clients, NEW q \in Paths
               PROVE  q \in Range(reg_signals'[d]) <=> d \in Range(callbacks'[q])
    BY DEF RecordsAgree
  <2>1. CASE q = p
    BY <1>2, <1>3, <2>1, ListEmpty
  <2>2. CASE q # p
    BY <1>0, <1>2, <1>3, <2>2 DEF RecordsAgree
  <2> QED
    BY <2>1, <2>2
<1>7. AttachedOnce'
  <2>1. ASSUME NEW q \in Paths PROVE IsInjective(callbacks'[q])
    BY <1>0, <1>3, ListEmpty DEF AttachedOnce
  <2> QED
    BY <1>2, <2>1 DEF AttachedOnce
<1>8. ListIsUp'
  BY <1>0, <1>1 DEF ListIsUp
<1>9. OnlyUpRegistered'
  <2> SUFFICES ASSUME NEW d \in Clients, conn[d] # "up" PROVE reg_signals'[d] = <<>>
    BY <1>1 DEF OnlyUpRegistered
  <2>1. reg_signals[d] = <<>>
    BY <1>0 DEF OnlyUpRegistered
  <2>2. d \notin Range(callbacks[p])
    BY <1>0, <1>1, <2>1, ListEmpty DEF RecordsAgree
  <2> QED
    BY <1>1, <2>1, <2>2 DEF DestroyCallbacks
<1> QED
  BY <1>5, <1>6, <1>7, <1>8, <1>9 DEF IInv

(* A step that changes one registration, at both ends. *)
LEMMA RegistrationStep ==
  ASSUME IInv, NEW cc \in Clients, NEW p \in Paths, conn[cc] = "up",
         NEW STATE l, callbacks' = [callbacks EXCEPT ![p] = l],
         NEW STATE r, reg_signals' = [reg_signals EXCEPT ![cc] = r],
         l \in Seq(Clients), IsInjective(l), r \in Seq(Paths), IsInjective(r),
         \A d \in Clients : d # cc => (d \in Range(l) <=> d \in Range(callbacks[p])),
         \A q \in Paths : q # p => (q \in Range(r) <=> q \in Range(reg_signals[cc])),
         cc \in Range(l) <=> p \in Range(r),
         notified' = {}, UNCHANGED <<signals, finishing, ctrl_conns, conn, engine>>
  PROVE  IInv'
<1>0. TypeOK /\ RecordsAgree /\ AttachedOnce /\ ListIsUp /\ OnlyUpRegistered
  BY DEF IInv
<1>1. /\ callbacks' \in [Paths -> Seq(Clients)] /\ callbacks'[p] = l
      /\ \A q \in Paths : q # p => callbacks'[q] = callbacks[q]
  BY <1>0 DEF TypeOK
<1>2. /\ reg_signals' \in [Clients -> Seq(Paths)] /\ reg_signals'[cc] = r
      /\ \A d \in Clients : d # cc => reg_signals'[d] = reg_signals[d]
  BY <1>0 DEF TypeOK
<1>3. TypeOK'
  BY <1>0, <1>1, <1>2 DEF TypeOK
<1>4. RecordsAgree'
  BY <1>0, <1>1, <1>2 DEF RecordsAgree
<1>5. AttachedOnce'
  BY <1>0, <1>1, <1>2 DEF AttachedOnce
<1>6. ListIsUp' /\ OnlyUpRegistered'
  BY <1>0, <1>2 DEF ListIsUp, OnlyUpRegistered
<1> QED
  BY <1>3, <1>4, <1>5, <1>6 DEF IInv

(* engine_ctrl_notify_add *)
LEMMA AddStep ==
  ASSUME IInv, NEW cc \in Clients, NEW p \in Paths, engine_ctrl_notify_add(cc, p)
  PROVE  IInv'
<1>0. TypeOK /\ RecordsAgree /\ AttachedOnce
  BY DEF IInv
<1> DEFINE l == vde_list_prepend(callbacks[p], cc)
           r == vde_list_prepend(reg_signals[cc], p)
<1>1. cc \notin Range(callbacks[p]) /\ p \notin Range(reg_signals[cc])
  BY <1>0 DEF engine_ctrl_notify_add, Attaches, RecordsAgree
<1>2. l \in Seq(Clients) /\ IsInjective(l) /\ Range(l) = Range(callbacks[p]) \cup {cc}
  BY <1>0, <1>1, ListPrepend DEF TypeOK, AttachedOnce
<1>3. r \in Seq(Paths) /\ IsInjective(r) /\ Range(r) = Range(reg_signals[cc]) \cup {p}
  BY <1>0, <1>1, ListPrepend DEF TypeOK, AttachedOnce
<1>4. /\ conn[cc] = "up" /\ callbacks' = [callbacks EXCEPT ![p] = l]
      /\ reg_signals' = [reg_signals EXCEPT ![cc] = r]
      /\ notified' = {} /\ UNCHANGED <<signals, finishing, ctrl_conns, conn, engine>>
  BY DEF engine_ctrl_notify_add
<1> HIDE DEF l, r
<1> QED
  BY <1>2, <1>3, <1>4, RegistrationStep

(* engine_ctrl_notify_del *)
LEMMA DelStep ==
  ASSUME Sound, IInv, NEW cc \in Clients, NEW p \in Paths, engine_ctrl_notify_del(cc, p)
  PROVE  IInv'
<1>0. TypeOK /\ RecordsAgree /\ AttachedOnce
  BY DEF IInv
<1> DEFINE l == vde_list_remove(callbacks[p], cc)
           r == vde_list_remove(reg_signals[cc], p)
<1>1. cc \in Range(callbacks[p]) /\ p \in Range(reg_signals[cc])
  BY <1>0 DEF engine_ctrl_notify_del, RecordsAgree
<1>2. l \in Seq(Clients) /\ IsInjective(l) /\ Range(l) = Range(callbacks[p]) \ {cc}
  BY <1>0, <1>1, ListRemove DEF TypeOK, AttachedOnce
<1>3. r \in Seq(Paths) /\ IsInjective(r) /\ Range(r) = Range(reg_signals[cc]) \ {p}
  BY <1>0, <1>1, ListRemove DEF TypeOK, AttachedOnce
<1>4. /\ conn[cc] = "up" /\ callbacks' = [callbacks EXCEPT ![p] = l]
      /\ reg_signals' = [reg_signals EXCEPT ![cc] = r]
      /\ notified' = {} /\ UNCHANGED <<signals, finishing, ctrl_conns, conn, engine>>
  BY <1>0, MatchIsEqual DEF engine_ctrl_notify_del, TypeOK, AttachedOnce
<1> HIDE DEF l, r
<1> QED
  BY <1>2, <1>3, <1>4, RegistrationStep

(* ctrl_engine_newconn *)
LEMMA NewConnStep == ASSUME IInv, NEW cc \in Clients, ctrl_engine_newconn(cc) PROVE IInv'
<1> USE DEF ctrl_engine_newconn
<1>0. TypeOK /\ RecordsAgree /\ AttachedOnce /\ ListIsUp /\ OnlyUpRegistered
  BY DEF IInv
<1>1. cc \notin Range(ctrl_conns)
  BY <1>0 DEF ListIsUp
<1>2. /\ ctrl_conns' \in Seq(Clients) /\ IsInjective(ctrl_conns')
      /\ Range(ctrl_conns') = Range(ctrl_conns) \cup {cc}
  <2>1. ctrl_conns \in Seq(Clients) /\ IsInjective(ctrl_conns)
    BY <1>0 DEF TypeOK, ListIsUp
  <2> QED
    BY <1>1, <2>1, ListPrepend
<1>3. TypeOK'
  BY <1>0, <1>2 DEF TypeOK
<1>4. RecordsAgree' /\ AttachedOnce'
  BY <1>0 DEF RecordsAgree, AttachedOnce
<1>5. ListIsUp'
  BY <1>0, <1>2 DEF ListIsUp, TypeOK
<1>6. OnlyUpRegistered'
  BY <1>0 DEF OnlyUpRegistered, TypeOK
<1> QED
  BY <1>3, <1>4, <1>5, <1>6 DEF IInv

(* ctrl_conn_fini *)
LEMMA ConnFiniStep == ASSUME IInv, NEW cc \in Clients, ctrl_conn_fini(cc) PROVE IInv'
<1>0. TypeOK /\ ListIsUp
  BY DEF IInv
<1>1. conn[cc] = "up" /\ cc \in Range(ctrl_conns)
  BY <1>0 DEF ctrl_conn_fini, ListIsUp
<1>2. /\ ctrl_conns' \in Seq(Clients) /\ IsInjective(ctrl_conns')
      /\ Range(ctrl_conns') = Range(ctrl_conns) \ {cc}
  <2>1. /\ ctrl_conns \in Seq(Clients) /\ IsInjective(ctrl_conns)
        /\ ctrl_conns' = vde_list_remove(ctrl_conns, cc)
    BY <1>0 DEF TypeOK, ListIsUp, ctrl_conn_fini
  <2> QED
    BY <1>1, <2>1, ListRemove
<1> QED
  BY <1>1, <1>2, GoneStep DEF ctrl_conn_fini

(* One turn of the loop of engine_ctrl_fini, with the context still there. *)
LEMMA FiniConnStep == ASSUME Sound, IInv, FiniConn PROVE IInv'
<1>0. TypeOK /\ ListIsUp
  BY DEF IInv
<1> DEFINE cc == Head(ctrl_conns)
<1>1. /\ cc \in Range(ctrl_conns)
      /\ ctrl_conns' \in Seq(Clients) /\ IsInjective(ctrl_conns')
      /\ Range(ctrl_conns') = Range(ctrl_conns) \ {cc}
  BY <1>0, ListTail DEF FiniConn, TypeOK, ListIsUp
<1>2. cc \in Clients /\ conn[cc] = "up"
  BY <1>0, <1>1 DEF ListIsUp
<1>3. /\ callbacks' = Detached(cc)
      /\ conn' = [conn EXCEPT ![cc] = "gone"]
      /\ reg_signals' = [reg_signals EXCEPT ![cc] = <<>>]
      /\ notified' = {} /\ UNCHANGED <<signals, finishing, engine>>
  BY DEF FiniConn, Sound
<1> HIDE DEF cc
<1> QED
  BY <1>1, <1>2, <1>3, GoneStep

(* The steps that leave the connections and the registrations alone. *)
LEMMA QuietSteps ==
  ASSUME IInv,
         \/ \E c \in Comps : vde_component_signals_register(c)
         \/ \E c \in Comps : vde_component_signals_deregister(c)
         \/ engine_ctrl_fini
         \/ FiniEnds
         \/ \E p \in Paths : vde_component_signal_raise(p)
         \/ UNCHANGED vars
  PROVE  IInv'
<1>0. TypeOK
  BY DEF IInv
<1>1. /\ signals' \in [Comps -> SUBSET Sigs] /\ finishing' \in Comps \cup {None}
      /\ engine' \in {"up", "fini", "down"}
      /\ UNCHANGED <<callbacks, ctrl_conns, conn, reg_signals>>
  BY <1>0 DEF vde_component_signals_register, vde_component_signals_deregister,
     engine_ctrl_fini, FiniEnds, vde_component_signal_raise, vars, TypeOK
<1>2. notified' \subseteq Clients \X Paths
  <2>1. ASSUME NEW p \in Paths, vde_component_signal_raise(p)
        PROVE  notified' \subseteq Clients \X Paths
    <3>1. \A cc \in Range(callbacks[p]) : cc \in Clients
      BY <1>0 DEF TypeOK, Range
    <3> QED
      BY <2>1, <3>1 DEF vde_component_signal_raise
  <2> QED
    BY <1>0, <2>1 DEF vde_component_signals_register, vde_component_signals_deregister,
       engine_ctrl_fini, FiniEnds, vars, TypeOK
<1> QED
  BY <1>1, <1>2, OtherStep

(* IInv is an invariant. *)
LEMMA Invariance == ASSUME Sound PROVE Spec => []IInv
<1>1. IInv /\ [Next]_vars => IInv'
  BY Sound, SignalDelStep, NewConnStep, AddStep, DelStep, ConnFiniStep, FiniConnStep,
     QuietSteps DEF Next
<1> QED
  BY <1>1, InitIInv, PTL DEF Spec

(* Both records, the engine's list and the stages of connections and engine *)
(* keep their types through all of engine_ctrl.c's and signal.c's steps.    *)
THEOREM TypeCorrect == ASSUME Sound PROVE Spec => []TypeOK
<1>1. IInv => TypeOK
  BY DEF IInv
<1> QED
  BY <1>1, Invariance, PTL

(* A path is in a connection's list exactly when the connection is in the  *)
(* signal's, whatever is attached, detached, closed or finalised.          *)
THEOREM RecordsAlwaysAgree == ASSUME Sound PROVE Spec => []RecordsAgree
<1>1. IInv => RecordsAgree
  BY DEF IInv
<1> QED
  BY <1>1, Invariance, PTL

(* The invariant leaves no callback into a connection that is gone. *)
LEMMA InvImpliesNoDangling == IInv => NoDanglingCallback
<1> SUFFICES ASSUME IInv, NEW p \in Paths, NEW cc \in Range(callbacks[p]) PROVE conn[cc] = "up"
  BY DEF NoDanglingCallback
<1>0. TypeOK /\ RecordsAgree /\ OnlyUpRegistered
  BY DEF IInv
<1>1. cc \in Clients
  BY <1>0 DEF TypeOK, Range
<1>2. p \in Range(reg_signals[cc])
  BY <1>0, <1>1 DEF RecordsAgree
<1> QED
  BY <1>0, <1>1, <1>2, ListEmpty DEF OnlyUpRegistered

(* No signal ever calls a control connection that is gone. *)
THEOREM NeverDangling == ASSUME Sound PROVE Spec => []NoDanglingCallback
BY InvImpliesNoDangling, Invariance, PTL

(* No connection is attached twice to a signal. *)
THEOREM NeverAttachedTwice == ASSUME Sound PROVE Spec => []AttachedOnce
<1>1. IInv => AttachedOnce
  BY DEF IInv
<1> QED
  BY <1>1, Invariance, PTL

(* What a request of a connection does to the paths that are registered. *)
LEMMA AddedPath ==
  ASSUME IInv, NEW cc \in Clients, NEW p \in Paths, engine_ctrl_notify_add(cc, p)
  PROVE  \A d \in Clients :
           Range(reg_signals'[d]) = Range(reg_signals[d]) \cup (IF d = cc THEN {p} ELSE {})
<1>0. TypeOK /\ RecordsAgree /\ AttachedOnce
  BY DEF IInv
<1>1. p \notin Range(reg_signals[cc])
  BY <1>0 DEF engine_ctrl_notify_add, Attaches, RecordsAgree
<1>2. reg_signals' = [reg_signals EXCEPT ![cc] = vde_list_prepend(reg_signals[cc], p)]
  BY DEF engine_ctrl_notify_add
<1>3. Range(vde_list_prepend(reg_signals[cc], p)) = Range(reg_signals[cc]) \cup {p}
  BY <1>0, <1>1, ListPrepend DEF TypeOK, AttachedOnce
<1> QED
  BY <1>0, <1>2, <1>3 DEF TypeOK

(* The same for notify_del. *)
LEMMA RemovedPath ==
  ASSUME Sound, IInv, NEW cc \in Clients, NEW p \in Paths, engine_ctrl_notify_del(cc, p)
  PROVE  \A d \in Clients :
           Range(reg_signals'[d]) = Range(reg_signals[d]) \ (IF d = cc THEN {p} ELSE {})
<1>0. TypeOK /\ RecordsAgree /\ AttachedOnce
  BY DEF IInv
<1>1. p \in Range(reg_signals[cc])
  BY <1>0 DEF engine_ctrl_notify_del, RecordsAgree
<1>2. reg_signals' = [reg_signals EXCEPT ![cc] = vde_list_remove(reg_signals[cc], p)]
  BY <1>0, MatchIsEqual DEF engine_ctrl_notify_del, TypeOK, AttachedOnce
<1>3. Range(vde_list_remove(reg_signals[cc], p)) = Range(reg_signals[cc]) \ {p}
  BY <1>0, <1>1, ListRemove DEF TypeOK, AttachedOnce
<1> QED
  BY <1>0, <1>2, <1>3 DEF TypeOK

(* The subscriptions, as the refinement maps them. *)
Subs == {s \in Clients \X Paths : s[2] \in Range(reg_signals[s[1]])}

(* Every step of the control engine is a step of the service. *)
LEMMA ServiceStep ==
  ASSUME Sound, IInv, [Next]_vars PROVE [Service!PubSubNext]_vars
<1> SUFFICES ASSUME Next PROVE Service!PubSubNext
  OBVIOUS
<1>0. TypeOK /\ RecordsAgree /\ ListIsUp
  BY DEF IInv
<1>1. ASSUME reg_signals' = reg_signals, notified' = {} PROVE Service!PubSubNext
  BY <1>1 DEF Service!PubSubNext, Service!Quiet
<1>2. ASSUME NEW p \in Paths, vde_component_signal_raise(p) PROVE Service!PubSubNext
  <2>1. reg_signals' = reg_signals /\ notified' = {<<cc, p>> : cc \in Range(callbacks[p])}
    BY <1>2 DEF vde_component_signal_raise
  <2>2. \A cc \in Range(callbacks[p]) : cc \in Clients
    BY <1>0 DEF TypeOK, Range
  <2>3. notified' = {s \in Subs : s[2] = p}
    BY <1>0, <2>1, <2>2 DEF RecordsAgree, Subs
  <2> QED
    BY <2>1, <2>3 DEF Service!PubSubNext, Service!Publish, Subs
<1>3. ASSUME NEW s \in Sigs, vde_component_signal_del(s) PROVE Service!PubSubNext
  <2>1. PICK p \in Paths : reg_signals' = DestroyCallbacks(p) /\ notified' = {}
    BY <1>0, <1>3 DEF vde_component_signal_del, TypeOK, Paths
  <2>2. \A cc \in Clients : Range(reg_signals'[cc]) = Range(reg_signals[cc]) \ {p}
    BY <2>1, DestroyedPath
  <2>3. Subs' = {t \in Subs : t[2] # p}
    BY <2>2 DEF Subs
  <2> QED
    BY <2>1, <2>3 DEF Service!PubSubNext, Service!TopicEnds, Subs
<1>4. ASSUME NEW cc \in Clients, NEW p \in Paths, engine_ctrl_notify_add(cc, p)
      PROVE  Service!PubSubNext
  <2>1. \A d \in Clients : Range(reg_signals'[d]) = Range(reg_signals[d]) \cup (IF d = cc THEN {p} ELSE {})
    BY <1>4, AddedPath
  <2>2. Subs' = Subs \cup {<<cc, p>>}
    BY <2>1 DEF Subs
  <2> QED
    BY <1>4, <2>2 DEF engine_ctrl_notify_add, Service!PubSubNext, Service!Subscribe, Subs
<1>5. ASSUME NEW cc \in Clients, NEW p \in Paths, engine_ctrl_notify_del(cc, p)
      PROVE  Service!PubSubNext
  <2>1. \A d \in Clients : Range(reg_signals'[d]) = Range(reg_signals[d]) \ (IF d = cc THEN {p} ELSE {})
    BY <1>5, RemovedPath
  <2>2. Subs' = Subs \ {<<cc, p>>}
    BY <2>1 DEF Subs
  <2> QED
    BY <1>5, <2>2 DEF engine_ctrl_notify_del, Service!PubSubNext, Service!Unsubscribe, Subs
<1>6. ASSUME NEW cc \in Clients, notified' = {},
             reg_signals' = [reg_signals EXCEPT ![cc] = <<>>]
      PROVE  Service!PubSubNext
  <2>1. \A d \in Clients : Range(reg_signals'[d]) = IF d = cc THEN {} ELSE Range(reg_signals[d])
    BY <1>0, <1>6, ListEmpty DEF TypeOK
  <2>2. Subs' = {s \in Subs : s[1] # cc}
    BY <2>1 DEF Subs
  <2> QED
    BY <1>6, <2>2 DEF Service!PubSubNext, Service!Leave, Subs
<1>7. CASE FiniConn
  <2>1. Head(ctrl_conns) \in Clients
    BY <1>0, <1>7 DEF FiniConn, TypeOK
  <2> QED
    BY <1>6, <1>7, <2>1 DEF FiniConn
<1>8. ASSUME NEW cc \in Clients, ctrl_conn_fini(cc) PROVE Service!PubSubNext
  BY <1>6, <1>8 DEF ctrl_conn_fini
<1>9. CASE \/ \E c \in Comps : vde_component_signals_register(c)
           \/ \E c \in Comps : vde_component_signals_deregister(c)
           \/ \E cc \in Clients : ctrl_engine_newconn(cc)
           \/ engine_ctrl_fini
           \/ FiniEnds
  BY <1>1, <1>9 DEF vde_component_signals_register, vde_component_signals_deregister,
     ctrl_engine_newconn, engine_ctrl_fini, FiniEnds
<1> QED
  BY <1>2, <1>3, <1>4, <1>5, <1>7, <1>8, <1>9 DEF Next

(* The notifications implement the publish-subscribe service: a raised     *)
(* signal reaches exactly the connections that have asked for it and have  *)
(* not ended that, left or lost the component since.                       *)
THEOREM NotificationsServe == ASSUME Sound PROVE Spec => ServesSubscribers
<1>1. Init => Service!PubSubInit
  <2> SUFFICES ASSUME Init PROVE Service!PubSubInit
    OBVIOUS
  <2>1. Subs = {}
    BY ListEmpty DEF Init, Subs
  <2> QED
    BY <2>1 DEF Init, Service!PubSubInit, Subs
<1>2. IInv /\ [Next]_vars => [Service!PubSubNext]_vars
  BY Sound, ServiceStep
<1> QED
  BY <1>1, <1>2, Invariance, PTL DEF Spec, ServesSubscribers

-----------------------------------------------------------------------------
Views == [attached : SUBSET Paths, ports : [Comps -> Nat \cup {Unknown}]]

(* Only a signal that is registered has callbacks. *)
OnlyRegistered ==
  \A cc \in Clients, p \in Paths : p \in Range(reg_signals[cc]) => Registered(p)

(* A control engine that is down has no connections. *)
DownIsEmpty == engine = "down" => ctrl_conns = <<>>

(* What is added to the invariant of CtrlNotify. *)
Rest ==
  /\ CallsTypeOK
  /\ OnlyRegistered
  /\ DownIsEmpty
  /\ KnowsSubscriptions
  /\ KnowsPorts

CInv == IInv /\ Rest

(* The step of OnlyEndMisleads. *)
NoneMisled == \A s \in Misled' \ Misled : finishing = s[2][1]

-----------------------------------------------------------------------------
(* A path is a pair. *)
LEMMA PathParts ==
  ASSUME NEW p \in Paths
  PROVE  p[1] \in Comps /\ p[2] \in Sigs /\ p = <<p[1], p[2]>> /\ p # NoDot /\ p # IntParam
<1>1. p[1] \in Comps /\ p[2] \in Sigs /\ p = <<p[1], p[2]>>
  BY DEF Paths
<1>2. Len(p) = 2 /\ Len(NoDot) = 1 /\ Len(IntParam) = 1
  BY <1>1 DEF NoDot, IntParam
<1> QED
  BY <1>1, <1>2

(* What the two ways of changing its mind do to a client's view. *)
LEMMA ToldView ==
  ASSUME NEW v \in Views, NEW p \in Paths, NEW b \in BOOLEAN
  PROVE  /\ Told(v, p, b) \in Views
         /\ Told(v, p, b).attached = IF b THEN v.attached \cup {p} ELSE v.attached \ {p}
         /\ Told(v, p, b).ports[p[1]] = Unknown
         /\ \A c \in Comps : c # p[1] => Told(v, p, b).ports[c] = v.ports[c]
BY PathParts DEF Told, Views

(* The number of ports it is given counts only if it is attached to both. *)
LEMMA CountedView ==
  ASSUME NEW v \in Views, NEW c \in Comps, NEW n \in Nat
  PROVE  /\ Counted(v, c, n) \in Views
         /\ Counted(v, c, n).attached = v.attached
         /\ {c} \X Sigs \subseteq v.attached => Counted(v, c, n).ports[c] = n
         /\ ~({c} \X Sigs \subseteq v.attached) => Counted(v, c, n).ports[c] = v.ports[c]
         /\ \A d \in Comps : d # c => Counted(v, c, n).ports[d] = v.ports[d]
BY DEF Counted, Views

-----------------------------------------------------------------------------
(* The errors of the two builtin commands, by what is wrong. *)
LEMMA AddErrors ==
  ASSUME NEW cc, NEW p
  PROVE  /\ AddError(cc, p) = "" => p \in Paths /\ Attaches(cc, p)
         /\ p \in Paths /\ ~Registered(p) => AddError(cc, p) = "ENOENT"
         /\ p \in Paths /\ Registered(p) /\ ~Attaches(cc, p) => AddError(cc, p) = "EEXIST"
         /\ p \in Paths /\ Attaches(cc, p) => AddError(cc, p) = ""
<1>1. p \in Paths => WellFormed(p)
  BY PathParts DEF WellFormed
<1> QED
  BY <1>1 DEF AddError, Attaches

(* The same for notify_del. *)
LEMMA DelErrors ==
  ASSUME Sound, IInv, NEW cc \in Clients, NEW p
  PROVE  /\ DelError(cc, p) \in {"", "ENOENT"}
         /\ DelError(cc, p) = "" => p \in Paths
         /\ p \in Paths => (DelError(cc, p) = "" <=> p \in Range(reg_signals[cc]) /\ Registered(p))
<1>1. p \in Range(reg_signals[cc]) => \E q \in Range(reg_signals[cc]) : Matches(q, p)
  BY DEF Matches
<1>2. p \in Paths => (p \in Range(reg_signals[cc]) <=> cc \in Range(callbacks[p]))
  BY DEF IInv, RecordsAgree
<1> QED
  BY <1>1, <1>2 DEF DelError

(* A connection that is up while nothing is finalised has its engine. *)
LEMMA UpHasEngine ==
  ASSUME IInv, DownIsEmpty, Idle, NEW cc \in Clients, conn[cc] = "up"
  PROVE  Present(Ctrl)
<1>1. cc \in Range(ctrl_conns)
  BY DEF IInv, ListIsUp
<1>2. ctrl_conns # <<>>
  BY <1>1, ListEmpty
<1> QED
  BY <1>2 DEF DownIsEmpty, Idle, IInv, TypeOK, Present

-----------------------------------------------------------------------------
(* What a request may do, told apart by what the client concludes. *)
Attached(cc, p) ==
  engine_ctrl_notify_add(cc, p) /\ view' = [view EXCEPT ![cc] = Told(view[cc], p, TRUE)]

Detaches(cc, p) ==
  engine_ctrl_notify_del(cc, p) /\ view' = [view EXCEPT ![cc] = Told(view[cc], p, FALSE)]

Denied(cc, p) ==
  /\ Nothing
  /\ p \notin Range(reg_signals[cc])
  /\ view' = [view EXCEPT ![cc] = Told(view[cc], p, FALSE)]

Confirmed(cc, p) ==
  /\ Nothing
  /\ p \in Range(reg_signals[cc])
  /\ view' = [view EXCEPT ![cc] = Told(view[cc], p, TRUE)]

CountGiven(cc, c) ==
  Nothing /\ view' = [view EXCEPT ![cc] = Counted(view[cc], c, ports[c])]

(* A client that learns nothing. *)
LEMMA NothingLearned ==
  ASSUME CallsTypeOK, NEW cc \in Clients, view' = [view EXCEPT ![cc] = view[cc]]
  PROVE  view' = view
BY DEF CallsTypeOK

(* A call of notify_add or notify_del with the path of a signal. *)
LEMMA SignalCases ==
  ASSUME Sound, CInv, NEW cc \in Clients, NEW r \in Requests,
         ctrl_engine_deserialize_string(cc, r), AboutSignal(r)
  PROVE  \/ Nothing /\ view' = view
         \/ \E p \in Paths :
              Attached(cc, p) \/ Detaches(cc, p) \/ Denied(cc, p) \/ Confirmed(cc, p)
<1>0. IInv /\ CallsTypeOK /\ OnlyRegistered /\ DownIsEmpty /\ RecordsAgree
  BY DEF CInv, Rest, IInv
<1>1. PICK p \in Paths : r.params = <<p>> /\ r.params[1] = p
  BY DEF AboutSignal
<1>2. ValidCall(r) /\ r.method[1] = Ctrl /\ r.method[2] \in {"notify_add", "notify_del"}
  BY DEF AboutSignal
<1>3. WellFormed(r.method)
  <2>1. Len(r.method) = 2 /\ Len(NoDot) = 1
    BY DEF AboutSignal, NoDot
  <2> QED
    BY <2>1 DEF WellFormed
<1>4. Refusal(r) = ""
  <2>1. Present(Ctrl)
    BY <1>0, UpHasEngine DEF ctrl_engine_deserialize_string
  <2>2. Accepts(r.method[2], r.params)
    BY <1>1, <1>2, PathParts DEF Accepts
  <2> QED
    BY <1>2, <1>3, <2>1, <2>2 DEF Refusal, Commands
<1> DEFINE e == CallError(cc, r)
<1>5. e = IF r.method[2] = "notify_add" THEN AddError(cc, p) ELSE DelError(cc, p)
  BY <1>1, <1>2, <1>4 DEF CallError
<1>6. Answer(cc, r).error = e
  BY <1>2 DEF Answer, ErrorReply, Reply
<1>7. view' = [view EXCEPT ![cc] = ReadsNotify(view[cc], r.method[2], p, e)]
  <2>1. ~AboutPorts(r)
    BY <1>2, CallsAssumption DEF AboutPorts
  <2> QED
    BY <1>1, <1>6, <2>1 DEF ctrl_engine_deserialize_string, Reads
<1>8. /\ e # "" => Nothing
      /\ e = "" /\ r.method[2] = "notify_add" => engine_ctrl_notify_add(cc, p)
      /\ e = "" /\ r.method[2] = "notify_del" => engine_ctrl_notify_del(cc, p)
  BY <1>1, <1>2 DEF ctrl_engine_deserialize_string, Effect
<1> HIDE DEF e
<1>9. CASE e = ""
  BY <1>2, <1>7, <1>8, <1>9 DEF ReadsNotify, Attached, Detaches
<1>10. CASE e = "ENOENT"
  <2>1. p \notin Range(reg_signals[cc])
    BY <1>0, <1>2, <1>5, <1>10, AddErrors, DelErrors DEF OnlyRegistered
  <2>2. ReadsNotify(view[cc], r.method[2], p, e) \in {view[cc], Told(view[cc], p, FALSE)}
    BY <1>10 DEF ReadsNotify
  <2> QED
    BY <1>0, <1>7, <1>8, <1>10, <2>1, <2>2, NothingLearned DEF Denied
<1>11. CASE e = "EEXIST"
  <2>1. p \in Range(reg_signals[cc])
    BY <1>0, <1>2, <1>5, <1>11, AddErrors, DelErrors DEF RecordsAgree, Attaches
  <2>2. ReadsNotify(view[cc], r.method[2], p, e) \in {view[cc], Told(view[cc], p, TRUE)}
    BY <1>11 DEF ReadsNotify
  <2> QED
    BY <1>0, <1>7, <1>8, <1>11, <2>1, <2>2, NothingLearned DEF Confirmed
<1>12. e \in {"", "ENOENT", "EEXIST"}
  BY <1>0, <1>2, <1>5, AddErrors, DelErrors
<1> QED
  BY <1>9, <1>10, <1>11, <1>12

(* Any other request. *)
LEMMA OtherCases ==
  ASSUME Sound, CInv, NEW cc \in Clients, NEW r \in Requests,
         ctrl_engine_deserialize_string(cc, r), ~AboutSignal(r)
  PROVE  Nothing /\ (view' = view \/ \E c \in Comps : CountGiven(cc, c))
<1>0. IInv /\ CallsTypeOK
  BY DEF CInv, Rest
<1>1. ASSUME CallError(cc, r) = "", r.method[2] \in {"notify_add", "notify_del"}
      PROVE  FALSE
  <2>1. /\ Refusal(r) = ""
        /\ \/ AddError(cc, r.params[1]) = ""
           \/ DelError(cc, r.params[1]) = ""
    BY <1>1 DEF CallError
  <2>2. r.params[1] \in Paths
    BY <1>0, <2>1, AddErrors, DelErrors
  <2>3. /\ ValidCall(r) /\ WellFormed(r.method)
        /\ r.method[2] \in Commands(r.method[1])
        /\ Accepts(r.method[2], r.params)
    BY <2>1 DEF Refusal
  <2>4. r.method \in {Ctrl} \X {"notify_add", "notify_del"}
    BY <1>1, <2>3 DEF Commands, WellFormed, ValidCall, Requests, Methods
  <2>5. r.params = <<r.params[1]>>
    <3>1. r.params \in Params
      BY <2>3 DEF ValidCall, Requests
    <3>2. Len(r.params) = 1
      BY <1>1, <2>3 DEF Accepts
    <3> QED
      BY <3>1, <3>2 DEF Params
  <2> QED
    BY <2>2, <2>3, <2>4, <2>5 DEF AboutSignal
<1>2. Nothing
  BY <1>1 DEF ctrl_engine_deserialize_string, Effect
<1>3. CASE AboutPorts(r) /\ Answer(cc, r).error = ""
  <2>1. PICK c \in Comps : r.method[1] = c /\ r.method[2] = "status"
    BY <1>3 DEF AboutPorts
  <2>2. CallError(cc, r) = ""
    BY <1>3 DEF Answer, ErrorReply
  <2>3. Answer(cc, r).result = ports[c]
    BY <2>1, <2>2 DEF Answer, Reply
  <2>4. Reads(view[cc], r, Answer(cc, r)) = Counted(view[cc], c, ports[c])
    BY <1>3, <2>1, <2>3 DEF Reads
  <2> QED
    BY <1>2, <2>1, <2>4 DEF CountGiven, ctrl_engine_deserialize_string
<1>4. CASE ~(AboutPorts(r) /\ Answer(cc, r).error = "")
  <2>1. Reads(view[cc], r, Answer(cc, r)) = view[cc]
    BY <1>4 DEF Reads
  <2> QED
    BY <1>0, <1>2, <2>1, NothingLearned DEF ctrl_engine_deserialize_string
<1> QED
  BY <1>3, <1>4

-----------------------------------------------------------------------------
(* The steps of CtrlCalls keep the invariant of CtrlNotify. *)
LEMMA NothingStep == ASSUME IInv, Nothing PROVE IInv'
BY OtherStep DEF Nothing, IInv, TypeOK

(* A hub's two signals have their paths. *)
LEMMA HubPath ==
  ASSUME NEW c \in Comps
  PROVE  <<c, "port_new">> \in Paths /\ <<c, "port_del">> \in Paths
BY CallsAssumption DEF Paths

(* The part of a step that CtrlNotify describes. *)
LEMMA NotifyPart ==
  ASSUME Sound, CInv, CallsNext PROVE IInv'
<1>0. IInv
  BY DEF CInv
<1>1. ASSUME NEW c \in Comps, hub_engine_newconn(c) \/ hub_engine_errorcb(c) PROVE IInv'
  BY <1>0, <1>1, HubPath, QuietSteps DEF hub_engine_newconn, hub_engine_errorcb
<1>2. ASSUME NEW c \in Comps, engine_hub_init(c) \/ engine_hub_fini(c) PROVE IInv'
  BY <1>0, <1>2, QuietSteps DEF engine_hub_init, engine_hub_fini
<1>3. ASSUME NEW s \in Sigs, SignalDel(s) PROVE IInv'
  BY <1>0, <1>3, SignalDelStep DEF SignalDel
<1>4. ASSUME NEW cc \in Clients, NewConn(cc) PROVE IInv'
  BY <1>0, <1>4, NewConnStep DEF NewConn
<1>5. ASSUME NEW cc \in Clients, ConnFini(cc) PROVE IInv'
  BY <1>0, <1>5, ConnFiniStep DEF ConnFini
<1>6. ASSUME NEW cc \in Clients, NEW r \in Requests, ctrl_engine_deserialize_string(cc, r)
      PROVE  IInv'
  <2>1. CASE AboutSignal(r)
    BY <1>0, <1>6, <2>1, SignalCases, NothingStep, AddStep, DelStep
    DEF Attached, Detaches, Denied, Confirmed
  <2>2. CASE ~AboutSignal(r)
    BY <1>0, <1>6, <2>2, OtherCases, NothingStep
  <2> QED
    BY <2>1, <2>2
<1>7. CASE EngineFini \/ EngineFiniEnds
  BY <1>0, <1>7, QuietSteps DEF EngineFini, EngineFiniEnds
<1>8. CASE EngineFiniConn
  BY <1>0, <1>8, FiniConnStep DEF EngineFiniConn
<1> QED
  BY <1>1, <1>2, <1>3, <1>4, <1>5, <1>6, <1>7, <1>8 DEF CallsNext

-----------------------------------------------------------------------------
(* A step after which everybody is told and attached as before. *)
LEMMA SameStep ==
  ASSUME CInv, reg_signals' = reg_signals, view' = view, ports' = ports,
         finishing' = finishing, \A c \in Comps : signals[c] \subseteq signals'[c],
         DownIsEmpty'
  PROVE  Rest' /\ NoneMisled
<1>0. CallsTypeOK /\ OnlyRegistered /\ KnowsSubscriptions /\ KnowsPorts
  BY DEF CInv, Rest
<1>1. CallsTypeOK'
  BY <1>0 DEF CallsTypeOK
<1>2. OnlyRegistered'
  BY <1>0, PathParts DEF OnlyRegistered, Registered
<1>3. KnowsSubscriptions' /\ KnowsPorts'
  BY <1>0 DEF KnowsSubscriptions, KnowsPorts
<1>4. Misled' = Misled
  BY DEF Misled
<1> QED
  BY <1>1, <1>2, <1>3, <1>4 DEF Rest, NoneMisled

(* The steps of that kind. *)
LEMMA QuietCalls ==
  ASSUME CInv,
         \/ \E c \in Comps : engine_hub_init(c)
         \/ \E cc \in Clients : NewConn(cc)
         \/ EngineFini
         \/ EngineFiniEnds
         \/ Nothing /\ view' = view /\ ports' = ports
         \/ UNCHANGED <<vars, callvars>>
  PROVE  Rest' /\ NoneMisled
<1>0. TypeOK /\ DownIsEmpty
  BY DEF CInv, IInv, Rest
<1>1. /\ reg_signals' = reg_signals /\ view' = view /\ ports' = ports
      /\ finishing' = finishing
  BY DEF engine_hub_init, NewConn, EngineFini, EngineFiniEnds, Nothing, vars, callvars,
     vde_component_signals_register, ctrl_engine_newconn, engine_ctrl_fini, FiniEnds
<1>2. \A c \in Comps : signals[c] \subseteq signals'[c]
  BY <1>0 DEF engine_hub_init, NewConn, EngineFini, EngineFiniEnds, Nothing, vars, callvars,
     vde_component_signals_register, ctrl_engine_newconn, engine_ctrl_fini, FiniEnds, TypeOK
<1>3. DownIsEmpty'
  BY <1>0 DEF DownIsEmpty, engine_hub_init, NewConn, EngineFini, EngineFiniEnds, Nothing, vars,
     callvars, vde_component_signals_register, ctrl_engine_newconn, engine_ctrl_fini, FiniEnds
<1> QED
  BY <1>1, <1>2, <1>3, SameStep

(* engine_hub_fini: the ports are gone, but the hub is being finalised. *)
LEMMA HubFiniCalls ==
  ASSUME CInv, NEW c \in Comps, engine_hub_fini(c)
  PROVE  Rest' /\ NoneMisled
<1>0. CallsTypeOK /\ OnlyRegistered /\ DownIsEmpty /\ KnowsSubscriptions /\ KnowsPorts
  BY DEF CInv, Rest
<1>1. /\ reg_signals' = reg_signals /\ view' = view /\ signals' = signals
      /\ ctrl_conns' = ctrl_conns /\ engine' = engine
      /\ ports' = [ports EXCEPT ![c] = 0]
      /\ finishing = None /\ finishing' = c
  BY DEF engine_hub_fini, vde_component_signals_deregister, Idle
<1>2. CallsTypeOK' /\ OnlyRegistered' /\ DownIsEmpty' /\ KnowsSubscriptions'
  BY <1>0, <1>1 DEF CallsTypeOK, OnlyRegistered, Registered, DownIsEmpty, KnowsSubscriptions
<1>3. KnowsPorts'
  <2>1. \A d \in Comps : d # c => ports'[d] = ports[d]
    BY <1>0, <1>1 DEF CallsTypeOK
  <2>2. \A d \in Comps : finishing # d
    BY <1>1, NotifyAssumption
  <2> QED
    BY <1>0, <1>1, <2>1, <2>2 DEF KnowsPorts
<1>4. Misled' = Misled
  BY <1>1 DEF Misled
<1> QED
  BY <1>2, <1>3, <1>4 DEF Rest, NoneMisled

(* A port is added or removed: all that are attached to both signals are   *)
(* attached to the one that is raised, and get the new number.             *)
LEMMA RaiseCalls ==
  ASSUME CInv, NEW p \in Paths, NEW n \in Nat,
         vde_component_signal_raise(p),
         ports' = [ports EXCEPT ![p[1]] = n],
         view' = Noticed(p, n)
  PROVE  Rest' /\ NoneMisled
<1> DEFINE c == p[1]
<1>0. /\ CallsTypeOK /\ OnlyRegistered /\ DownIsEmpty /\ KnowsSubscriptions /\ KnowsPorts
      /\ TypeOK /\ RecordsAgree
  BY DEF CInv, Rest, IInv
<1>1. /\ notified' = {<<cc, p>> : cc \in Range(callbacks[p])}
      /\ UNCHANGED <<signals, callbacks, finishing, ctrl_conns, conn, reg_signals, engine>>
  BY DEF vde_component_signal_raise
<1>2. c \in Comps /\ p \in {c} \X Sigs
  BY PathParts
<1>3. ASSUME NEW cc \in Clients
      PROVE  /\ view'[cc] \in {view[cc], Counted(view[cc], c, n)}
             /\ p \in Range(reg_signals[cc]) => view'[cc] = Counted(view[cc], c, n)
  <2>1. p \in Range(reg_signals[cc]) => <<cc, p>> \in notified'
    BY <1>0, <1>1 DEF RecordsAgree
  <2>2. view'[cc] = IF <<cc, p>> \in notified' THEN Counted(view[cc], c, n) ELSE view[cc]
    BY DEF Noticed, ReadsNotice, Notice
  <2> QED
    BY <2>1, <2>2
<1>4. ASSUME NEW cc \in Clients
      PROVE  /\ view[cc] \in Views /\ view'[cc] \in Views
             /\ view'[cc].attached = view[cc].attached
             /\ \A d \in Comps : d # c => view'[cc].ports[d] = view[cc].ports[d]
  <2>1. view[cc] \in Views
    BY <1>0 DEF CallsTypeOK, Views
  <2> QED
    BY <1>2, <1>3, <2>1, CountedView
<1>5. CallsTypeOK'
  <2>1. view' = [cc \in Clients |-> view'[cc]]
    BY DEF Noticed
  <2>2. view' \in [Clients -> Views]
    BY <1>4, <2>1
  <2> QED
    BY <1>0, <2>2 DEF CallsTypeOK, Views
<1>6. OnlyRegistered' /\ DownIsEmpty'
  BY <1>0, <1>1 DEF OnlyRegistered, Registered, DownIsEmpty
<1>7. KnowsSubscriptions'
  BY <1>0, <1>1, <1>4 DEF KnowsSubscriptions
<1>8. KnowsPorts'
  <2> SUFFICES ASSUME NEW cc \in Clients, NEW d \in Comps,
                      finishing # d, {d} \X Sigs \subseteq Range(reg_signals[cc]),
                      view'[cc].ports[d] # Unknown
               PROVE  view'[cc].ports[d] = ports'[d]
    BY <1>1 DEF KnowsPorts
  <2>1. CASE d = c
    <3>1. p \in Range(reg_signals[cc])
      BY <1>2, <2>1
    <3>2. {c} \X Sigs \subseteq view[cc].attached
      BY <1>0, <2>1 DEF KnowsSubscriptions
    <3>3. view'[cc].ports[c] = n
      BY <1>2, <1>3, <1>4, <3>1, <3>2, CountedView
    <3> QED
      BY <1>0, <1>2, <2>1, <3>3 DEF CallsTypeOK
  <2>2. CASE d # c
    <3>1. view[cc].ports[d] = ports[d]
      BY <1>0, <1>4, <2>2 DEF KnowsPorts
    <3> QED
      BY <1>0, <1>4, <2>2, <3>1 DEF CallsTypeOK
  <2> QED
    BY <2>1, <2>2
<1>9. Misled' = Misled
  BY <1>1, <1>4 DEF Misled
<1> QED
  BY <1>5, <1>6, <1>7, <1>8, <1>9 DEF Rest, NoneMisled

(* A signal goes: those attached to it lose it and are not told. *)
LEMMA SignalDelCalls ==
  ASSUME Sound, CInv, NEW s \in Sigs, SignalDel(s)
  PROVE  Rest' /\ NoneMisled
<1>0. /\ CallsTypeOK /\ OnlyRegistered /\ DownIsEmpty /\ KnowsSubscriptions /\ KnowsPorts
      /\ TypeOK /\ IInv
  BY DEF CInv, Rest, IInv
<1> DEFINE p == <<finishing, s>>
<1>1. /\ finishing \in Comps /\ p \in Paths /\ p[1] = finishing
      /\ reg_signals' = DestroyCallbacks(p)
      /\ signals' = [signals EXCEPT ![finishing] = @ \ {s}]
      /\ finishing' \in {None, finishing}
      /\ UNCHANGED <<ctrl_conns, engine, ports, view>>
  BY <1>0 DEF SignalDel, vde_component_signal_del, TypeOK, Paths, callvars
<1> HIDE DEF p
<1>2. \A cc \in Clients : Range(reg_signals'[cc]) = Range(reg_signals[cc]) \ {p}
  BY <1>0, <1>1, DestroyedPath
<1>3. CallsTypeOK' /\ DownIsEmpty'
  BY <1>0, <1>1 DEF CallsTypeOK, DownIsEmpty
<1>4. OnlyRegistered'
  <2> SUFFICES ASSUME NEW cc \in Clients, NEW q \in Paths, q \in Range(reg_signals[cc]), q # p
               PROVE  q[2] \in signals'[q[1]]
    BY <1>2 DEF OnlyRegistered, Registered
  <2>1. q[2] \in signals[q[1]] /\ q[1] \in Comps
    BY <1>0, PathParts DEF OnlyRegistered, Registered
  <2>2. q[1] # finishing \/ q[2] # s
    BY PathParts DEF p
  <2> QED
    BY <1>0, <1>1, <2>1, <2>2 DEF TypeOK
<1>5. KnowsSubscriptions'
  BY <1>0, <1>1, <1>2 DEF KnowsSubscriptions
<1>6. KnowsPorts'
  <2> SUFFICES ASSUME NEW cc \in Clients, NEW d \in Comps,
                      finishing' # d, {d} \X Sigs \subseteq Range(reg_signals'[cc]),
                      view[cc].ports[d] # Unknown
               PROVE  view[cc].ports[d] = ports[d]
    BY <1>1 DEF KnowsPorts
  <2>1. d # finishing
    <3>1. CASE d = finishing
      <4>1. p \in {d} \X Sigs
        BY <3>1 DEF p
      <4> QED
        BY <1>2, <4>1
    <3> QED
      BY <3>1
  <2>2. {d} \X Sigs \subseteq Range(reg_signals[cc])
    BY <1>2
  <2> QED
    BY <1>0, <2>1, <2>2 DEF KnowsPorts
<1>7. NoneMisled
  <2> SUFFICES ASSUME NEW t \in Misled', t \notin Misled PROVE finishing = t[2][1]
    BY DEF NoneMisled
  <2>1. t \in Clients \X Paths /\ t[2] \in Range(reg_signals[t[1]]) /\ t[2] \notin Range(reg_signals'[t[1]])
    BY <1>1 DEF Misled
  <2>2. t[2] = p
    BY <1>2, <2>1
  <2> QED
    BY <1>1, <2>2
<1> QED
  BY <1>3, <1>4, <1>5, <1>6, <1>7 DEF Rest

(* One client is told something. *)
LEMMA ViewUpdate ==
  ASSUME CallsTypeOK, NEW cc \in Clients, NEW STATE v, v \in Views,
         view' = [view EXCEPT ![cc] = v]
  PROVE  /\ view' \in [Clients -> Views]
         /\ view'[cc] = v
         /\ \A d \in Clients : d # cc => view'[d] = view[d]
BY DEF CallsTypeOK, Views

(* One client is told something, and its own paths may change with that. *)
LEMMA ClientStep ==
  ASSUME CInv, NEW cc \in Clients, view' \in [Clients -> Views],
         \A d \in Clients : d # cc => /\ view'[d] = view[d]
                                      /\ Range(reg_signals'[d]) = Range(reg_signals[d]),
         ports' = ports, signals' = signals, finishing' = finishing, DownIsEmpty',
         Range(reg_signals'[cc]) \subseteq view'[cc].attached,
         \A p \in Range(reg_signals'[cc]) : Registered(p),
         \A c \in Comps : /\ finishing # c
                          /\ {c} \X Sigs \subseteq Range(reg_signals'[cc])
                          /\ view'[cc].ports[c] # Unknown
                          => view'[cc].ports[c] = ports[c],
         view'[cc].attached \ Range(reg_signals'[cc])
           \subseteq view[cc].attached \ Range(reg_signals[cc])
  PROVE  Rest' /\ NoneMisled
<1>0. CallsTypeOK /\ OnlyRegistered /\ KnowsSubscriptions /\ KnowsPorts
  BY DEF CInv, Rest
<1>1. CallsTypeOK'
  BY <1>0 DEF CallsTypeOK, Views
<1>2. OnlyRegistered'
  BY <1>0 DEF OnlyRegistered, Registered
<1>3. KnowsSubscriptions'
  BY <1>0 DEF KnowsSubscriptions
<1>4. KnowsPorts'
  <2> SUFFICES ASSUME NEW d \in Clients, NEW c \in Comps,
                      finishing # c, {c} \X Sigs \subseteq Range(reg_signals'[d]),
                      view'[d].ports[c] # Unknown
               PROVE  view'[d].ports[c] = ports[c]
    BY DEF KnowsPorts
  <2>1. CASE d = cc
    BY <2>1
  <2>2. CASE d # cc
    <3>1. view'[d] = view[d] /\ Range(reg_signals'[d]) = Range(reg_signals[d])
      BY <2>2
    <3> QED
      BY <1>0, <3>1 DEF KnowsPorts
  <2> QED
    BY <2>1, <2>2
<1>5. Misled' \subseteq Misled
  <2> SUFFICES ASSUME NEW d \in Clients, NEW p \in Paths,
                      p \in view'[d].attached, p \notin Range(reg_signals'[d])
               PROVE  p \in view[d].attached /\ p \notin Range(reg_signals[d])
    BY DEF Misled
  <2>1. CASE d = cc
    BY <2>1
  <2>2. CASE d # cc
    BY <2>2
  <2> QED
    BY <2>1, <2>2
<1> QED
  BY <1>1, <1>2, <1>3, <1>4, <1>5 DEF Rest, NoneMisled

(* A connection goes, and what it knew with it. *)
LEMMA GoneCalls ==
  ASSUME Sound, CInv,
         \/ \E cc \in Clients : ConnFini(cc)
         \/ EngineFiniConn
  PROVE  Rest' /\ NoneMisled
<1>0. TypeOK /\ ListIsUp /\ DownIsEmpty /\ CallsTypeOK
  BY DEF CInv, IInv, Rest
<1>1. PICK cc \in Clients : /\ reg_signals' = [reg_signals EXCEPT ![cc] = <<>>]
                            /\ view' = [view EXCEPT ![cc] = NoView]
                            /\ ports' = ports /\ signals' = signals /\ finishing' = finishing
                            /\ engine' = engine /\ engine # "down"
  <2>1. CASE \E cc \in Clients : ConnFini(cc)
    <3>1. PICK cc \in Clients : ConnFini(cc)
      BY <2>1
    <3>2. cc \in Range(ctrl_conns)
      BY <1>0, <3>1 DEF ConnFini, ctrl_conn_fini, ListIsUp
    <3>3. engine # "down"
      BY <1>0, <3>2, ListEmpty DEF DownIsEmpty
    <3> QED
      BY <3>1, <3>3 DEF ConnFini, ctrl_conn_fini
  <2>2. CASE EngineFiniConn
    <3>1. Head(ctrl_conns) \in Clients
      BY <1>0, <2>2 DEF EngineFiniConn, FiniConn, TypeOK
    <3> QED
      BY <2>2, <3>1 DEF EngineFiniConn, FiniConn
  <2> QED
    BY <2>1, <2>2
<1>2. /\ Range(reg_signals'[cc]) = {}
      /\ \A d \in Clients : d # cc => Range(reg_signals'[d]) = Range(reg_signals[d])
  BY <1>0, <1>1, ListEmpty DEF TypeOK
<1>3. /\ NoView \in Views /\ NoView.attached = {}
      /\ \A c \in Comps : NoView.ports[c] = Unknown
  BY DEF NoView, Views
<1>4. /\ view' \in [Clients -> Views] /\ view'[cc] = NoView
      /\ \A d \in Clients : d # cc => view'[d] = view[d]
  BY <1>0, <1>1, <1>3, ViewUpdate
<1>5. DownIsEmpty'
  BY <1>0, <1>1 DEF DownIsEmpty
<1> QED
  BY <1>1, <1>2, <1>3, <1>4, <1>5, ClientStep

(* A request. *)
LEMMA RequestCalls ==
  ASSUME Sound, CInv, NEW cc \in Clients, NEW r \in Requests,
         ctrl_engine_deserialize_string(cc, r)
  PROVE  Rest' /\ NoneMisled
<1>0. /\ IInv /\ CallsTypeOK /\ OnlyRegistered /\ DownIsEmpty /\ KnowsSubscriptions
      /\ KnowsPorts /\ TypeOK
  BY DEF CInv, Rest, IInv
<1>1. ports' = ports
  BY DEF ctrl_engine_deserialize_string
<1>2. view[cc] \in Views
  BY <1>0 DEF CallsTypeOK, Views
<1>3. Range(reg_signals[cc]) \in SUBSET Paths
  BY <1>0 DEF TypeOK, Range
<1>4. Range(reg_signals[cc]) \subseteq view[cc].attached
  BY <1>0 DEF KnowsSubscriptions
<1>5. ASSUME NEW p \in Paths, Attached(cc, p) PROVE Rest' /\ NoneMisled
  <2> DEFINE v == Told(view[cc], p, TRUE)
             R == Range(reg_signals[cc]) \cup {p}
  <2>1. /\ signals' = signals /\ finishing' = finishing /\ DownIsEmpty' /\ Registered(p)
        /\ view' = [view EXCEPT ![cc] = v]
    BY <1>0, <1>5 DEF Attached, engine_ctrl_notify_add, Attaches, DownIsEmpty
  <2>2. /\ Range(reg_signals'[cc]) = R
        /\ \A d \in Clients : d # cc => Range(reg_signals'[d]) = Range(reg_signals[d])
    BY <1>0, <1>5, AddedPath DEF Attached
  <2>3. /\ v \in Views /\ v.attached = view[cc].attached \cup {p} /\ v.ports[p[1]] = Unknown
        /\ \A c \in Comps : c # p[1] => v.ports[c] = view[cc].ports[c]
    BY <1>2, ToldView
  <2>4. \A q \in R : Registered(q)
    BY <1>0, <1>3, <2>1 DEF OnlyRegistered
  <2>5. ASSUME NEW c \in Comps, finishing # c, {c} \X Sigs \subseteq R, v.ports[c] # Unknown
        PROVE  v.ports[c] = ports[c]
    <3>1. c # p[1] /\ v.ports[c] = view[cc].ports[c]
      BY <2>3, <2>5
    <3>2. {c} \X Sigs \subseteq Range(reg_signals[cc])
      BY <2>5, <3>1, PathParts
    <3> QED
      BY <1>0, <2>5, <3>1, <3>2 DEF KnowsPorts
  <2>6. /\ R \in SUBSET Paths /\ R \subseteq v.attached
        /\ v.attached \ R \subseteq view[cc].attached \ Range(reg_signals[cc])
    BY <1>3, <1>4, <2>3
  <2> HIDE DEF v, R
  <2>7. /\ view' \in [Clients -> Views] /\ view'[cc] = v
        /\ \A d \in Clients : d # cc => view'[d] = view[d]
    BY <1>0, <2>1, <2>3, ViewUpdate
  <2> QED
    BY <1>1, <2>1, <2>2, <2>4, <2>5, <2>6, <2>7, ClientStep
<1>6. ASSUME NEW p \in Paths, Detaches(cc, p) PROVE Rest' /\ NoneMisled
  <2> DEFINE v == Told(view[cc], p, FALSE)
             R == Range(reg_signals[cc]) \ {p}
  <2>1. /\ signals' = signals /\ finishing' = finishing /\ DownIsEmpty'
        /\ view' = [view EXCEPT ![cc] = v]
    BY <1>0, <1>6 DEF Detaches, engine_ctrl_notify_del, DownIsEmpty
  <2>2. /\ Range(reg_signals'[cc]) = R
        /\ \A d \in Clients : d # cc => Range(reg_signals'[d]) = Range(reg_signals[d])
    BY <1>0, <1>6, RemovedPath DEF Detaches
  <2>3. /\ v \in Views /\ v.attached = view[cc].attached \ {p} /\ v.ports[p[1]] = Unknown
        /\ \A c \in Comps : c # p[1] => v.ports[c] = view[cc].ports[c]
    BY <1>2, ToldView
  <2>4. \A q \in R : Registered(q)
    BY <1>0, <1>3 DEF OnlyRegistered
  <2>5. ASSUME NEW c \in Comps, finishing # c, {c} \X Sigs \subseteq R, v.ports[c] # Unknown
        PROVE  v.ports[c] = ports[c]
    BY <1>0, <2>3, <2>5 DEF KnowsPorts
  <2>6. /\ R \in SUBSET Paths /\ R \subseteq v.attached
        /\ v.attached \ R \subseteq view[cc].attached \ Range(reg_signals[cc])
    BY <1>3, <1>4, <2>3
  <2> HIDE DEF v, R
  <2>7. /\ view' \in [Clients -> Views] /\ view'[cc] = v
        /\ \A d \in Clients : d # cc => view'[d] = view[d]
    BY <1>0, <2>1, <2>3, ViewUpdate
  <2> QED
    BY <1>1, <2>1, <2>2, <2>4, <2>5, <2>6, <2>7, ClientStep
<1>7. ASSUME NEW STATE v, v \in Views, Nothing, view' = [view EXCEPT ![cc] = v],
             Range(reg_signals[cc]) \subseteq v.attached,
             \A c \in Comps : /\ finishing # c
                              /\ {c} \X Sigs \subseteq Range(reg_signals[cc])
                              /\ v.ports[c] # Unknown
                              => v.ports[c] = ports[c],
             v.attached \subseteq view[cc].attached \cup Range(reg_signals[cc])
      PROVE  Rest' /\ NoneMisled
  <2> DEFINE R == Range(reg_signals[cc])
  <2>1. /\ signals' = signals /\ finishing' = finishing /\ DownIsEmpty'
        /\ reg_signals' = reg_signals
    BY <1>0, <1>7 DEF Nothing, DownIsEmpty
  <2>2. /\ Range(reg_signals'[cc]) = R
        /\ \A d \in Clients : d # cc => Range(reg_signals'[d]) = Range(reg_signals[d])
    BY <2>1
  <2>3. \A q \in R : Registered(q)
    BY <1>0, <1>3 DEF OnlyRegistered
  <2>4. v.attached \ R \subseteq view[cc].attached \ Range(reg_signals[cc])
    BY <1>7
  <2>5. /\ view' \in [Clients -> Views] /\ view'[cc] = v
        /\ \A d \in Clients : d # cc => view'[d] = view[d]
    BY <1>0, <1>7, ViewUpdate
  <2> QED
    BY <1>1, <1>7, <2>1, <2>2, <2>3, <2>4, <2>5, ClientStep
<1>8. ASSUME NEW p \in Paths, Denied(cc, p) PROVE Rest' /\ NoneMisled
  <2> DEFINE v == Told(view[cc], p, FALSE)
  <2>1. Nothing /\ view' = [view EXCEPT ![cc] = v] /\ p \notin Range(reg_signals[cc])
    BY <1>8 DEF Denied
  <2>2. /\ v \in Views /\ v.ports[p[1]] = Unknown
        /\ v.attached = view[cc].attached \ {p}
        /\ \A c \in Comps : c # p[1] => v.ports[c] = view[cc].ports[c]
    BY <1>2, ToldView
  <2> HIDE DEF v
  <2>3. /\ Range(reg_signals[cc]) \subseteq v.attached
        /\ v.attached \subseteq view[cc].attached \cup Range(reg_signals[cc])
    BY <1>4, <2>1, <2>2
  <2>4. \A c \in Comps : /\ finishing # c
                         /\ {c} \X Sigs \subseteq Range(reg_signals[cc])
                         /\ v.ports[c] # Unknown
                         => v.ports[c] = ports[c]
    BY <1>0, <2>2 DEF KnowsPorts
  <2> QED
    BY <1>7, <2>1, <2>2, <2>3, <2>4
<1>9. ASSUME NEW p \in Paths, Confirmed(cc, p) PROVE Rest' /\ NoneMisled
  <2> DEFINE v == Told(view[cc], p, TRUE)
  <2>1. Nothing /\ view' = [view EXCEPT ![cc] = v] /\ p \in Range(reg_signals[cc])
    BY <1>9 DEF Confirmed
  <2>2. /\ v \in Views /\ v.ports[p[1]] = Unknown
        /\ v.attached = view[cc].attached \cup {p}
        /\ \A c \in Comps : c # p[1] => v.ports[c] = view[cc].ports[c]
    BY <1>2, ToldView
  <2> HIDE DEF v
  <2>3. /\ Range(reg_signals[cc]) \subseteq v.attached
        /\ v.attached \subseteq view[cc].attached \cup Range(reg_signals[cc])
    BY <1>4, <2>1, <2>2
  <2>4. \A c \in Comps : /\ finishing # c
                         /\ {c} \X Sigs \subseteq Range(reg_signals[cc])
                         /\ v.ports[c] # Unknown
                         => v.ports[c] = ports[c]
    BY <1>0, <2>2 DEF KnowsPorts
  <2> QED
    BY <1>7, <2>1, <2>2, <2>3, <2>4
<1>10. ASSUME NEW c \in Comps, CountGiven(cc, c) PROVE Rest' /\ NoneMisled
  <2> DEFINE v == Counted(view[cc], c, ports[c])
  <2>1. ports[c] \in Nat
    BY <1>0 DEF CallsTypeOK
  <2>2. /\ v \in Views /\ v.attached = view[cc].attached
        /\ {c} \X Sigs \subseteq view[cc].attached => v.ports[c] = ports[c]
        /\ \A d \in Comps : d # c => v.ports[d] = view[cc].ports[d]
    <3> DEFINE w == view[cc]
               n == ports[c]
    <3>1. w \in Views /\ n \in Nat /\ v = Counted(w, c, n)
      BY <1>2, <2>1
    <3> HIDE DEF w, n, v
    <3>2. /\ v \in Views /\ v.attached = w.attached
          /\ {c} \X Sigs \subseteq w.attached => v.ports[c] = n
          /\ \A d \in Comps : d # c => v.ports[d] = w.ports[d]
      BY <3>1, CountedView
    <3> QED
      BY <3>2 DEF w, n
  <2>3. Nothing /\ view' = [view EXCEPT ![cc] = v]
    BY <1>10 DEF CountGiven
  <2> HIDE DEF v
  <2>4. ASSUME NEW d \in Comps, finishing # d, {d} \X Sigs \subseteq Range(reg_signals[cc]),
               v.ports[d] # Unknown
        PROVE  v.ports[d] = ports[d]
    <3>1. CASE d = c
      BY <1>4, <2>2, <2>4, <3>1
    <3>2. CASE d # c
      BY <1>0, <2>2, <2>4, <3>2 DEF KnowsPorts
    <3> QED
      BY <3>1, <3>2
  <2> QED
    BY <1>4, <1>7, <2>2, <2>3, <2>4
<1>11. CASE AboutSignal(r)
  BY <1>1, <1>5, <1>6, <1>8, <1>9, <1>11, SignalCases, QuietCalls
<1>12. CASE ~AboutSignal(r)
  BY <1>1, <1>10, <1>12, OtherCases, QuietCalls
<1> QED
  BY <1>11, <1>12

-----------------------------------------------------------------------------
(* The initial states satisfy the invariant. *)
LEMMA CallsInitial == CallsInit => CInv
<1> SUFFICES ASSUME CallsInit PROVE CInv
  OBVIOUS
<1>1. IInv
  BY InitIInv DEF CallsInit
<1>2. \A cc \in Clients : Range(reg_signals[cc]) = {}
  BY ListEmpty DEF CallsInit, Init
<1>3. CallsTypeOK /\ \A cc \in Clients, c \in Comps : view[cc].ports[c] = Unknown
  BY DEF CallsInit, CallsTypeOK, NoView
<1>4. OnlyRegistered /\ KnowsSubscriptions
  BY <1>2 DEF OnlyRegistered, KnowsSubscriptions
<1>5. KnowsPorts /\ DownIsEmpty
  BY <1>3 DEF KnowsPorts, DownIsEmpty, CallsInit, Init
<1> QED
  BY <1>1, <1>3, <1>4, <1>5 DEF CInv, Rest

(* Every step keeps it, and misleads nobody unless a component ends. *)
LEMMA CallsStep ==
  ASSUME Sound, CInv, [CallsNext]_<<vars, callvars>> PROVE CInv' /\ NoneMisled
<1>0. CallsTypeOK
  BY DEF CInv, Rest
<1>1. CASE UNCHANGED <<vars, callvars>>
  <2>1. IInv'
    BY <1>1, QuietSteps DEF CInv, vars
  <2> QED
    BY <1>1, <2>1, QuietCalls DEF CInv
<1>2. CASE CallsNext
  <2>1. IInv'
    BY <1>2, NotifyPart
  <2>2. ASSUME NEW c \in Comps, hub_engine_newconn(c) PROVE Rest' /\ NoneMisled
    <3>1. ports[c] + 1 \in Nat /\ ports'[c] = ports[c] + 1
      BY <1>0, <2>2 DEF hub_engine_newconn, CallsTypeOK
    <3>2. <<c, "port_new">>[1] = c
      OBVIOUS
    <3> QED
      BY <2>2, <3>1, <3>2, HubPath, RaiseCalls DEF hub_engine_newconn
  <2>3. ASSUME NEW c \in Comps, hub_engine_errorcb(c) PROVE Rest' /\ NoneMisled
    <3>1. ports[c] - 1 \in Nat /\ ports'[c] = ports[c] - 1
      BY <1>0, <2>3 DEF hub_engine_errorcb, CallsTypeOK
    <3>2. <<c, "port_del">>[1] = c
      OBVIOUS
    <3> QED
      BY <2>3, <3>1, <3>2, HubPath, RaiseCalls DEF hub_engine_errorcb
  <2>4. Rest' /\ NoneMisled
    BY <1>2, <2>2, <2>3, QuietCalls, HubFiniCalls, SignalDelCalls, GoneCalls, RequestCalls
    DEF CallsNext
  <2> QED
    BY <2>1, <2>4 DEF CInv
<1> QED
  BY <1>1, <1>2

(* CInv is an invariant. *)
LEMMA CallsInvariance == ASSUME Sound PROVE CallsSpec => []CInv
<1>1. CInv /\ [CallsNext]_<<vars, callvars>> => CInv'
  BY Sound, CallsStep
<1> QED
  BY <1>1, CallsInitial, PTL DEF CallsSpec

(* With method calls, hubs and notices added, the records of connections   *)
(* and signals still agree, and no signal calls a connection that is gone. *)
THEOREM RecordsStillAgree == ASSUME Sound PROVE CallsSpec => [](RecordsAgree /\ NoDanglingCallback)
<1>1. CInv => RecordsAgree /\ NoDanglingCallback
  BY InvImpliesNoDangling DEF CInv, IInv
<1> QED
  BY <1>1, CallsInvariance, PTL

(* Whatever clients ask and hubs do, a client attached to both signals of  *)
(* a hub knows its number of ports once it has been told one: the lengths  *)
(* that newconn, errorcb and status take are all of the same list, after   *)
(* the change.                                                             *)
THEOREM ClientsKnowPorts == ASSUME Sound PROVE CallsSpec => []KnowsPorts
<1>1. CInv => KnowsPorts
  BY DEF CInv, Rest
<1> QED
  BY <1>1, CallsInvariance, PTL

(* The replies of notify_add and notify_del never deny a registration that *)
(* the engine holds.                                                       *)
THEOREM ClientsKnowSubscriptions == ASSUME Sound PROVE CallsSpec => []KnowsSubscriptions
<1>1. CInv => KnowsSubscriptions
  BY DEF CInv, Rest
<1> QED
  BY <1>1, CallsInvariance, PTL

(* Only the end of a component leaves a client believing that it is        *)
(* attached when it is not.                                                *)
THEOREM NothingElseMisleads == ASSUME Sound PROVE CallsSpec => OnlyEndMisleads
<1>1. CInv /\ [CallsNext]_<<vars, callvars>> => [NoneMisled]_<<vars, callvars>>
  BY Sound, CallsStep
<1> QED
  BY <1>1, CallsInvariance, PTL DEF CallsSpec, OnlyEndMisleads, NoneMisled
=============================================================================
