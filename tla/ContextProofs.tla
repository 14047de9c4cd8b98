--------------------------- MODULE ContextProofs ---------------------------
(***************************************************************************)
(* Proofs about the context, for any number of component objects, names    *)
(* and module files.  The invariant says where every component is in the   *)
(* ordhash, how far each pass of the shutdown has come, and whom the       *)
(* connection managers refer to.                                           *)
(***************************************************************************)
EXTENDS Context, ListRemoval, FiniteSetTheorems

Keys == Names \cup {Zero}
Present == {"live", "finished"}
Passes == {"managers", "others", "delete"}

Types ==
  /\ TypeOK
  /\ attr \in [Objs -> Attr \cup {None}]
  /\ iter >= 1

(* The ordhash: a key leads to one component, no two to the same, and its  *)
(* string is interned.                                                     *)
Hashed ==
  /\ Range(list) = {k \in Keys : hash[k] # None}
  /\ IsInjective(list)
  /\ \A k, l \in Keys : hash[k] # None /\ hash[k] = hash[l] => k = l
  /\ \A k \in Names : hash[k] # None => k \in interned

(* The ordhash and the components lead to each other. *)
Held ==
  /\ \A o \in Objs : status[o] \in Present => hash[attr[o].qname] = o
  /\ \A k \in Keys : hash[k] # None =>
       \/ status[hash[k]] \in Present /\ attr[hash[k]].qname = k
       \/ phase = "delete" /\ status[hash[k]] = "deleted"

(* The status of the i-th component of the list in the three passes. *)
ManagersPass(i) ==
  status[hash[list[i]]] =
    IF i < iter /\ Kind(hash[list[i]]) = "conn_manager" THEN "finished" ELSE "live"
OthersPass(i) ==
  status[hash[list[i]]] =
    IF i < iter \/ Kind(hash[list[i]]) = "conn_manager" THEN "finished" ELSE "live"
DeletePass(i) ==
  status[hash[list[i]]] = IF i < iter THEN "deleted" ELSE "finished"

Progress ==
  /\ initialized = 0 \/ phase \in {"loading", "deleted"} => list = <<>>
  /\ phase \notin Passes => \A o \in Objs : status[o] # "finished"
  /\ phase = "managers" => \A i \in 1..Len(list) : ManagersPass(i)
  /\ phase = "others" => \A i \in 1..Len(list) : OthersPass(i)
  /\ phase = "delete" => \A i \in 1..Len(list) : DeletePass(i)

(* A manager has a transport and an engine that are alive, and the         *)
(* transport has somebody to call back; other components have neither.     *)
Linked ==
  \A c \in Objs : status[c] = "live" =>
    IF Kind(c) = "conn_manager"
      THEN /\ attr[c].transport \in Objs /\ status[attr[c].transport] = "live"
           /\ Kind(attr[c].transport) = "transport"
           /\ cm_cb_arg[attr[c].transport] \in Objs
           /\ attr[c].engine \in Objs /\ status[attr[c].engine] = "live"
           /\ Kind(attr[c].engine) = "engine"
      ELSE attr[c].transport = None /\ attr[c].engine = None

(* Whom a transport calls back was, and if it is alive still is, a         *)
(* connection manager.                                                     *)
CallsBack ==
  /\ \A t \in listening : cm_cb_arg[t] \in Objs
  /\ \A t \in Objs : cm_cb_arg[t] \in Objs =>
       /\ status[cm_cb_arg[t]] # "unused"
       /\ status[cm_cb_arg[t]] = "live" => Kind(cm_cb_arg[t]) = "conn_manager"

Counted ==
  /\ RefcountExact
  /\ \A o \in Objs : status[o] = "unused" => refcount[o] = 0

Inv ==
  /\ Types /\ Hashed /\ Held /\ Progress
  /\ Linked /\ CallsBack /\ Counted /\ ConnectionsServed

(* No component exists initially. *)
LEMMA Initial == Init => Inv
<1> SUFFICES ASSUME Init PROVE Inv
    OBVIOUS
<1> USE DEF Init
<1>1. Types
      BY DEF Types, TypeOK, Phases, Statuses
<1>2. Hashed /\ Held /\ Progress
      BY ListEmpty DEF Hashed, Held, Progress, Keys, Present, Passes
<1>3. Linked /\ CallsBack /\ Counted /\ ConnectionsServed
      BY ContextAssumption DEF Linked, CallsBack, Counted, RefcountExact, ConnectionsServed
<1> QED BY <1>1, <1>2, <1>3 DEF Inv

(* A present component has a place in the list. *)
LEMMA Place ==
  ASSUME Inv, NEW o \in Objs, status[o] \in Present
  PROVE  /\ attr[o] \in Attr /\ attr[o].qname \in Keys /\ hash[attr[o].qname] = o
         /\ \E i \in 1..Len(list) : list[i] = attr[o].qname /\ hash[list[i]] = o
<1>1. attr[o] \in Attr /\ list \in Seq(Keys)
      BY DEF Inv, Types, TypeOK, Present, Keys
<1>2. attr[o].qname \in Keys /\ hash[attr[o].qname] = o
      BY <1>1 DEF Inv, Held, Attr, Keys
<1>3. attr[o].qname \in Range(list)
      BY <1>2, ContextAssumption DEF Inv, Hashed
<1>4. DOMAIN list = 1..Len(list)
      BY <1>1
<1> QED BY <1>1, <1>2, <1>3, <1>4 DEF Range

(* What is at a place of the list. *)
LEMMA AtPlace ==
  ASSUME Inv, NEW i \in 1..Len(list)
  PROVE  /\ list[i] \in Keys /\ hash[list[i]] \in Objs
         /\ \A j \in 1..Len(list) : hash[list[j]] = hash[list[i]] => j = i
<1>1. /\ list \in Seq(Keys) /\ DOMAIN list = 1..Len(list)
      /\ hash \in [Keys -> Objs \cup {None}]
      BY DEF Inv, Types, TypeOK, Keys
<1>2. \A j \in 1..Len(list) : list[j] \in Keys /\ hash[list[j]] # None
      BY <1>1 DEF Inv, Hashed, Range
<1>3. \A j \in 1..Len(list) : hash[list[j]] = hash[list[i]] => list[j] = list[i]
      BY <1>2 DEF Inv, Hashed
<1> QED BY <1>1, <1>2, <1>3 DEF Inv, Hashed, IsInjective

-----------------------------------------------------------------------------
(* A step that changes no component and not the ordhash. *)
LEMMA QuietStep ==
  ASSUME Inv, UNCHANGED <<ordhash, objects>>, Types', Progress',
         interned \subseteq interned', phase = "delete" => phase' = "delete"
  PROVE  Inv'
<1> USE DEF Inv, ordhash, objects, links
<1>1. Hashed'
      BY DEF Hashed
<1>2. Held'
      BY DEF Held
<1>3. Linked' /\ CallsBack'
      BY DEF Linked, CallsBack, Kind
<1>4. Counted' /\ ConnectionsServed'
      BY DEF Counted, RefcountExact, ConnectionsServed, Managers, Kind
<1> QED BY <1>1, <1>2, <1>3, <1>4

(* Initialisation and loading, and the end of the context. *)
LEMMA ControlSteps ==
  ASSUME Inv,
         \/ vde_context_init
         \/ \E f \in Files : module_try_load(f)
         \/ LoadingEnds
         \/ vde_context_delete
  PROVE  Inv'
<1>1. /\ UNCHANGED <<ordhash, objects, iter>>
      /\ interned' = interned
      /\ phase \notin Passes /\ phase' \notin Passes
      BY DEF vde_context_init, module_try_load, LoadingEnds, vde_context_delete, control, Passes
<1>2. Types'
  <2>1. /\ initialized' \in {0, 1} /\ phase' \in Phases
        /\ modules' \subseteq Files /\ tried' \subseteq Files
        BY DEF vde_context_init, module_try_load, LoadingEnds, vde_context_delete, control,
               loading, Inv, Types, TypeOK, Phases
  <2> QED BY <1>1, <2>1 DEF Inv, Types, TypeOK, ordhash, objects, links
<1>3. Progress'
  <2>1. /\ initialized' = 0 \/ phase' \in {"loading", "deleted"} => list = <<>>
        /\ \A o \in Objs : status[o] # "finished"
        BY <1>1 DEF vde_context_init, module_try_load, LoadingEnds, vde_context_delete, control,
                    Inv, Progress, Passes
  <2>2. /\ phase' \notin {"managers", "others", "delete"} /\ list' = list /\ status' = status
        BY <1>1 DEF Passes, ordhash, objects
  <2> QED BY <2>1, <2>2 DEF Progress
<1> QED BY <1>1, <1>2, <1>3, QuietStep DEF Passes

(* vde_context_fini: all components in the list are alive. *)
LEMMA FiniBegins == ASSUME Inv, vde_context_fini PROVE Inv'
<1>1. /\ UNCHANGED <<ordhash, objects>> /\ interned' = interned
      /\ phase = "run" /\ phase' = "managers" /\ iter' = 1 /\ initialized' = 1
      BY DEF vde_context_fini, Running
<1>2. Types'
      BY <1>1 DEF vde_context_fini, Inv, Types, TypeOK, Phases, ordhash, objects, links, loading
<1>3. ASSUME NEW i \in 1..Len(list) PROVE ManagersPass(i)'
  <2>1. status[hash[list[i]]] = "live"
        BY <1>1, AtPlace, ContextAssumption DEF Inv, Held, Progress, Passes, Present
  <2>2. i \in Nat /\ i >= 1
        BY DEF Inv, Types, TypeOK
  <2>3. ~(i < iter')
        BY <1>1, <2>2
  <2> QED BY <1>1, <2>1, <2>3 DEF ManagersPass, ordhash, objects
<1>4. Progress'
      BY <1>1, <1>3 DEF Progress, ordhash, objects, Passes
<1> QED BY <1>1, <1>2, <1>4, QuietStep

(* A step that changes only who listens and who has connections. *)
LEMMA SameComponents ==
  ASSUME Inv, UNCHANGED <<status, attr, refcount, cm_cb_arg>>,
         UNCHANGED <<control, loading, interned, ordhash>>,
         Types', CallsBack', ConnectionsServed'
  PROVE  Inv'
<1>1. Hashed'
      BY DEF Inv, Hashed, ordhash
<1>2. Held'
      BY DEF Inv, Held, ordhash, control
<1>3. Progress'
      BY DEF Inv, Progress, control, ordhash, ManagersPass, OthersPass, DeletePass, Kind
<1>4. Linked'
      BY DEF Inv, Linked, Kind
<1>5. Counted'
      BY DEF Inv, Counted, RefcountExact, Managers, Kind
<1> QED BY <1>1, <1>2, <1>3, <1>4, <1>5 DEF Inv

(* vde_conn_manager_listen arms a transport that has somebody to call. *)
LEMMA ListenStep == ASSUME Inv, NEW o \in Objs, conn_manager_listen(o) PROVE Inv'
<1> USE DEF Inv, conn_manager_listen
<1>1. /\ attr[o].transport \in Objs /\ cm_cb_arg[attr[o].transport] \in Objs
      /\ status[o] = "live" /\ listening' = listening \cup {attr[o].transport}
      /\ UNCHANGED <<status, attr, refcount, cm_cb_arg, connected>>
      /\ UNCHANGED <<control, loading, interned, ordhash>>
      BY DEF Linked
<1>2. Types'
      BY <1>1 DEF Types, TypeOK, control, loading, ordhash
<1>3. CallsBack'
      BY <1>1 DEF CallsBack, Kind
<1>4. ConnectionsServed'
      BY <1>1 DEF ConnectionsServed
<1> QED BY <1>1, <1>2, <1>3, <1>4, SameComponents

(* An accepted connection goes to an engine that is alive. *)
LEMMA AcceptStep ==
  ASSUME Inv, NEW t \in Objs, vde_transport_call_cm_accept_cb(t) PROVE Inv'
<1> USE DEF Inv, vde_transport_call_cm_accept_cb
<1>1. /\ cm_cb_arg[t] \in Objs /\ status[cm_cb_arg[t]] = "live"
      /\ Kind(cm_cb_arg[t]) = "conn_manager"
      BY DEF CallsBack
<1>2. /\ attr[cm_cb_arg[t]].engine \in Objs /\ status[attr[cm_cb_arg[t]].engine] = "live"
      /\ connected' = connected \cup {attr[cm_cb_arg[t]].engine}
      /\ UNCHANGED <<status, attr, refcount, cm_cb_arg, listening>>
      /\ UNCHANGED <<control, loading, interned, ordhash>>
      BY <1>1 DEF Linked
<1>3. Types'
      BY <1>2 DEF Types, TypeOK, control, loading, ordhash
<1>4. CallsBack'
      BY <1>2 DEF CallsBack, Kind
<1>5. ConnectionsServed'
      BY <1>2 DEF ConnectionsServed
<1> QED BY <1>2, <1>3, <1>4, <1>5, SameComponents

-----------------------------------------------------------------------------
(* The managers that use p as their transport and as their engine. *)
TUsers(p) == {c \in Managers : attr[c].transport = p}
EUsers(p) == {c \in Managers : attr[c].engine = p}

(* They can be counted. *)
LEMMA UsersFinite ==
  ASSUME NEW p
  PROVE  /\ IsFiniteSet(TUsers(p)) /\ Cardinality(TUsers(p)) \in Nat
         /\ IsFiniteSet(EUsers(p)) /\ Cardinality(EUsers(p)) \in Nat
<1>1. TUsers(p) \in SUBSET Objs /\ EUsers(p) \in SUBSET Objs
      BY DEF TUsers, EUsers, Managers
<1> QED BY <1>1, ContextAssumption, FS_Subset, FS_CardinalityType

(* What the invariant says of one manager. *)
LEMMA ManagerLinks ==
  ASSUME Inv, NEW c \in Managers
  PROVE  /\ c \in Objs /\ status[c] = "live" /\ Kind(c) = "conn_manager"
         /\ attr[c].transport \in Objs /\ status[attr[c].transport] = "live"
         /\ attr[c].engine \in Objs /\ status[attr[c].engine] = "live"
         /\ Kind(attr[c].transport) = "transport" /\ Kind(attr[c].engine) = "engine"
         /\ attr[c].transport # attr[c].engine
         /\ attr[c].transport # c /\ attr[c].engine # c
<1>1. c \in Objs /\ status[c] = "live" /\ Kind(c) = "conn_manager"
      BY DEF Managers
<1> QED BY <1>1 DEF Inv, Linked

(* A manager goes and gives back its references. *)
LEMMA ManagerGone ==
  ASSUME Inv, NEW m \in Managers, Managers' = Managers \ {m},
         \A c \in Managers \ {m} : attr'[c] = attr[c],
         NEW p \in Objs, p # m, status[p] = "live", refcount'[p] = RefsPut(refcount, m)[p]
  PROVE  /\ refcount'[p] = 1 + Cardinality(TUsers(p)') + Cardinality(EUsers(p)')
         /\ refcount'[p] \in Nat
<1> DEFINE t == attr[m].transport
           e == attr[m].engine
<1>1. t # e
      BY ManagerLinks
<1>2. TUsers(p)' = TUsers(p) \ {m} /\ EUsers(p)' = EUsers(p) \ {m}
      BY DEF TUsers, EUsers
<1>3. (m \in TUsers(p) <=> p = t) /\ (m \in EUsers(p) <=> p = e)
      BY DEF TUsers, EUsers
<1>4. refcount[p] = 1 + Cardinality(TUsers(p)) + Cardinality(EUsers(p))
      BY DEF Inv, Counted, RefcountExact, TUsers, EUsers
<1>5. refcount'[p] = IF p \in {t, e} THEN refcount[p] - 1 ELSE refcount[p]
      BY DEF RefsPut
<1> HIDE DEF t, e
<1>6. /\ Cardinality(TUsers(p)') = IF p = t THEN Cardinality(TUsers(p)) - 1 ELSE Cardinality(TUsers(p))
      /\ Cardinality(EUsers(p)') = IF p = e THEN Cardinality(EUsers(p)) - 1 ELSE Cardinality(EUsers(p))
  <2>1. /\ IsFiniteSet(TUsers(p)) /\ IsFiniteSet(EUsers(p))
        BY UsersFinite
  <2>2. Cardinality(TUsers(p) \ {m}) =
          IF m \in TUsers(p) THEN Cardinality(TUsers(p)) - 1 ELSE Cardinality(TUsers(p))
        BY <2>1, FS_RemoveElement
  <2>3. Cardinality(EUsers(p) \ {m}) =
          IF m \in EUsers(p) THEN Cardinality(EUsers(p)) - 1 ELSE Cardinality(EUsers(p))
        BY <2>1, FS_RemoveElement
  <2> QED BY <1>2, <1>3, <2>2, <2>3
<1>7. /\ Cardinality(TUsers(p)) \in Nat /\ Cardinality(EUsers(p)) \in Nat
      /\ p = t => Cardinality(TUsers(p)) # 0
      /\ p = e => Cardinality(EUsers(p)) # 0
      BY <1>3, UsersFinite, FS_EmptySet
<1> QED BY <1>1, <1>4, <1>5, <1>6, <1>7

(* A manager comes and takes its references. *)
LEMMA ManagerCame ==
  ASSUME Inv, NEW o \in Objs, status[o] = "unused", Managers' = Managers \cup {o},
         \A c \in Managers : attr'[c] = attr[c],
         attr'[o].transport # attr'[o].engine, attr'[o].transport # o, attr'[o].engine # o,
         NEW p \in Objs, status[p] = "live" \/ p = o,
         refcount'[p] = IF p \in {o, attr'[o].transport, attr'[o].engine}
                          THEN refcount[p] + 1 ELSE refcount[p]
  PROVE  refcount'[p] = 1 + Cardinality(TUsers(p)') + Cardinality(EUsers(p)')
<1>1. o \notin Managers
      BY DEF Managers
<1>2. /\ TUsers(p)' = IF p = attr'[o].transport THEN TUsers(p) \cup {o} ELSE TUsers(p)
      /\ EUsers(p)' = IF p = attr'[o].engine THEN EUsers(p) \cup {o} ELSE EUsers(p)
      /\ o \notin TUsers(p) /\ o \notin EUsers(p)
      BY <1>1 DEF TUsers, EUsers
<1>3. /\ Cardinality(TUsers(p)') = IF p = attr'[o].transport
                                     THEN Cardinality(TUsers(p)) + 1 ELSE Cardinality(TUsers(p))
      /\ Cardinality(EUsers(p)') = IF p = attr'[o].engine
                                     THEN Cardinality(EUsers(p)) + 1 ELSE Cardinality(EUsers(p))
      /\ Cardinality(TUsers(p)) \in Nat /\ Cardinality(EUsers(p)) \in Nat
  <2>1. IsFiniteSet(TUsers(p)) /\ IsFiniteSet(EUsers(p))
        BY UsersFinite
  <2>2. Cardinality(TUsers(p)) \in Nat /\ Cardinality(EUsers(p)) \in Nat
        BY <2>1, FS_CardinalityType
  <2>3. /\ Cardinality(TUsers(p) \cup {o}) = Cardinality(TUsers(p)) + 1
        /\ Cardinality(EUsers(p) \cup {o}) = Cardinality(EUsers(p)) + 1
        BY <1>2, <2>1, FS_AddElement
  <2> QED BY <1>2, <2>2, <2>3
<1>4. CASE p = o
  <2>1. TUsers(o) = {} /\ EUsers(o) = {}
        BY ManagerLinks DEF TUsers, EUsers
  <2>2. refcount[o] = 0
        BY DEF Inv, Counted
  <2> QED BY <1>3, <1>4, <2>1, <2>2, FS_EmptySet
<1>5. CASE p # o
  <2>1. refcount[p] = 1 + Cardinality(TUsers(p)) + Cardinality(EUsers(p))
        BY <1>5 DEF Inv, Counted, RefcountExact, TUsers, EUsers
  <2> QED BY <1>3, <1>5, <2>1
<1> QED BY <1>4, <1>5

(* A component that is not a manager comes: only its own count changes. *)
LEMMA OtherCame ==
  ASSUME Inv, NEW o \in Objs, status[o] = "unused", Managers' = Managers,
         \A c \in Managers : attr'[c] = attr[c],
         NEW p \in Objs, status[p] = "live" \/ p = o,
         refcount'[p] = IF p = o THEN refcount[p] + 1 ELSE refcount[p]
  PROVE  refcount'[p] = 1 + Cardinality(TUsers(p)') + Cardinality(EUsers(p)')
<1>1. TUsers(p)' = TUsers(p) /\ EUsers(p)' = EUsers(p)
      BY DEF TUsers, EUsers
<1>2. CASE p = o
  <2>1. \A c \in Managers : attr[c].transport # o /\ attr[c].engine # o
        BY ManagerLinks
  <2>2. TUsers(o) = {} /\ EUsers(o) = {}
        BY <2>1 DEF TUsers, EUsers
  <2>3. Cardinality(TUsers(p)') = 0 /\ Cardinality(EUsers(p)') = 0
        BY <1>1, <1>2, <2>2, FS_EmptySet
  <2>4. refcount[o] = 0
        BY DEF Inv, Counted
  <2> QED BY <1>2, <2>3, <2>4
<1>3. CASE p # o
      BY <1>1, <1>3 DEF Inv, Counted, RefcountExact, TUsers, EUsers
<1> QED BY <1>2, <1>3

-----------------------------------------------------------------------------
(* The key of a new component is not in use, although it was looked up     *)
(* under the quark its name had before it was interned.                    *)
LEMMA NewKey ==
  ASSUME Inv, NEW k \in Keys, hash[Quark(k)] = None
  PROVE  hash[k] = None
<1>1. interned \subseteq Names /\ hash \in [Keys -> Objs \cup {None}]
      BY DEF Inv, Types, TypeOK, Keys
<1>2. CASE k \in interned
      BY <1>2 DEF Quark
<1>3. CASE k \notin interned
      BY <1>1, <1>3 DEF Quark, Inv, Hashed, Keys
<1> QED BY <1>2, <1>3

(* While the context runs, what the ordhash leads to is alive. *)
LEMMA FoundAlive ==
  ASSUME Inv, Running, NEW k, Quark(k) = k \/ Quark(k) = Zero, k \in Keys,
         hash[Quark(k)] # None
  PROVE  hash[Quark(k)] \in Objs /\ status[hash[Quark(k)]] = "live"
<1>1. Quark(k) \in Keys /\ hash \in [Keys -> Objs \cup {None}]
      BY DEF Inv, Types, TypeOK, Keys
<1>2. phase = "run"
      BY DEF Running
<1> QED BY <1>1, <1>2 DEF Inv, Held, Progress, Passes, Present

(* The ordhash with a new component in it. *)
LEMMA NewHashed ==
  ASSUME Inv, NEW o \in Objs, status[o] = "unused", NEW k \in Keys, hash[k] = None,
         vde_ordhash_insert(k, o), interned' = interned \cup ({k} \ {Zero}), phase = "run"
  PROVE  Hashed' /\ list' \in Seq(Keys) /\ hash' \in [Keys -> Objs \cup {None}]
<1>1. /\ list \in Seq(Keys) /\ hash \in [Keys -> Objs \cup {None}]
      /\ k \notin Range(list) /\ IsInjective(list) /\ o # None
      BY ContextAssumption DEF Inv, Types, TypeOK, Hashed, Keys
<1>2. /\ list' \in Seq(Keys) /\ Range(list') = Range(list) \cup {k} /\ IsInjective(list')
      BY <1>1, ListAppend DEF vde_ordhash_insert
<1>3. /\ hash' \in [Keys -> Objs \cup {None}]
      /\ \A l \in Keys : hash'[l] = IF l = k THEN o ELSE hash[l]
      BY <1>1 DEF vde_ordhash_insert
<1>4. \A l \in Keys : hash[l] # o
      BY <1>1 DEF Inv, Held, Present
<1>5. Range(list') = {l \in Keys : hash'[l] # None}
      BY <1>1, <1>2, <1>3 DEF Inv, Hashed
<1>6. \A l, n \in Keys : hash'[l] # None /\ hash'[l] = hash'[n] => l = n
      BY <1>3, <1>4 DEF Inv, Hashed
<1>7. \A l \in Names : hash'[l] # None => l \in interned'
      BY <1>3, ContextAssumption DEF Inv, Hashed, Keys
<1> QED BY <1>2, <1>3, <1>5, <1>6, <1>7 DEF Hashed

(* A component is created: a manager of t and e, or one that has none. *)
LEMMA CreatedStep ==
  ASSUME Inv, Running, NEW o \in Objs, status[o] = "unused",
         NEW m \in Files, NEW k \in Keys, hash[Quark(k)] = None,
         interned' = interned \cup ({k} \ {Zero}),
         NEW STATE t, t \in Objs \cup {None}, NEW STATE e, e \in Objs \cup {None},
         NewComponent(o, m, k, t, e),
         \/ m.kind # "conn_manager" /\ t = None /\ e = None
         \/ /\ m.kind = "conn_manager"
            /\ t \in Objs /\ status[t] = "live" /\ Kind(t) = "transport"
            /\ e \in Objs /\ status[e] = "live" /\ Kind(e) = "engine"
  PROVE  Inv'
<1> DEFINE a == [qname |-> k, module |-> m, transport |-> t, engine |-> e]
<1>0. /\ TypeOK /\ attr \in [Objs -> Attr \cup {None}] /\ status \in [Objs -> Statuses]
      /\ None \notin Objs /\ phase = "run" /\ initialized = 1 /\ iter >= 1
      BY ContextAssumption DEF Inv, Types, TypeOK, Running
<1>1. a \in Attr /\ a.qname = k /\ a.module = m /\ a.transport = t /\ a.engine = e
      BY DEF Attr, Keys
<1>2. /\ status' = [status EXCEPT ![o] = "live"] /\ attr' = [attr EXCEPT ![o] = a]
      /\ refcount' = RefsTaken(refcount, o, t, e)
      /\ cm_cb_arg' = [p \in Objs |-> IF p = t THEN o ELSE cm_cb_arg[p]]
      /\ vde_ordhash_insert(k, o)
      /\ UNCHANGED <<listening, connected, control, loading>>
      BY DEF NewComponent
<1> HIDE DEF a
<1>3. /\ status' \in [Objs -> Statuses] /\ attr' \in [Objs -> Attr \cup {None}]
      /\ \A p \in Objs : status'[p] = IF p = o THEN "live" ELSE status[p]
      /\ \A p \in Objs : attr'[p] = IF p = o THEN a ELSE attr[p]
      BY <1>0, <1>1, <1>2 DEF Statuses
<1>4. hash[k] = None
      BY NewKey
<1>5. Hashed' /\ list' \in Seq(Keys) /\ hash' \in [Keys -> Objs \cup {None}]
      BY <1>0, <1>2, <1>4, NewHashed
<1>6. Types'
  <2>1. /\ refcount' \in [Objs -> Nat] /\ cm_cb_arg' \in [Objs -> Objs \cup {None}]
        /\ interned' \subseteq Names
    <3>1. refcount \in [Objs -> Nat] /\ cm_cb_arg \in [Objs -> Objs \cup {None}]
          BY <1>0 DEF TypeOK
    <3>2. refcount' \in [Objs -> Nat]
          BY <1>2, <3>1 DEF RefsTaken
    <3>3. cm_cb_arg' \in [Objs -> Objs \cup {None}]
          BY <1>2, <3>1
    <3>4. interned' \subseteq Names
          BY <1>0 DEF TypeOK, Keys
    <3> QED BY <3>2, <3>3, <3>4
  <2>2. \A p \in Objs : status'[p] \in {"live", "finished"} => attr'[p] \in Attr
        BY <1>0, <1>1, <1>3 DEF TypeOK
  <2> QED BY <1>0, <1>2, <1>3, <1>5, <2>1, <2>2 DEF Types, TypeOK, control, loading, Keys
<1>7. \A l \in Keys : hash'[l] = IF l = k THEN o ELSE hash[l]
      BY <1>0, <1>2 DEF vde_ordhash_insert, TypeOK, Keys
<1>8. Held'
  <2>1. \A p \in Objs : status'[p] \in Present => hash'[attr'[p].qname] = p
    <3> SUFFICES ASSUME NEW p \in Objs, status'[p] \in Present PROVE hash'[attr'[p].qname] = p
        OBVIOUS
    <3>1. CASE p = o
          BY <1>1, <1>3, <1>7, <3>1
    <3>2. CASE p # o
          BY <1>0, <1>3, <1>4, <1>7, <3>2, Place
    <3> QED BY <3>1, <3>2
  <2>2. \A l \in Keys : hash'[l] # None =>
          status'[hash'[l]] \in Present /\ attr'[hash'[l]].qname = l
    <3> SUFFICES ASSUME NEW l \in Keys, hash'[l] # None
                 PROVE  status'[hash'[l]] \in Present /\ attr'[hash'[l]].qname = l
        OBVIOUS
    <3>1. CASE l = k
          BY <1>1, <1>3, <1>7, <3>1 DEF Present
    <3>2. CASE l # k
      <4>1. hash'[l] = hash[l] /\ hash[l] \in Objs
            BY <1>0, <1>7, <3>2 DEF TypeOK, Keys
      <4>2. status[hash[l]] \in Present /\ attr[hash[l]].qname = l
            BY <1>0, <4>1 DEF Inv, Held
      <4>3. hash[l] # o
            BY <4>2 DEF Present
      <4> QED BY <1>3, <4>1, <4>2, <4>3
    <3> QED BY <3>1, <3>2
  <2> QED BY <2>1, <2>2 DEF Held
<1>9. Progress'
  <2>1. phase' = "run" /\ initialized' = 1
        BY <1>0, <1>2 DEF control
  <2>2. \A p \in Objs : status'[p] # "finished"
        BY <1>0, <1>3 DEF Inv, Progress, Passes
  <2> QED BY <2>1, <2>2 DEF Progress
<1>10. \A p \in Objs : p # o => Kind(p)' = Kind(p)
       BY <1>3 DEF Kind
<1>11. Kind(o)' = m.kind /\ attr'[o].transport = t /\ attr'[o].engine = e
       BY <1>1, <1>3 DEF Kind
<1>12. \A p \in Objs : status[p] = "live" => p # o
       OBVIOUS
<1>13. Linked'
  <2> SUFFICES ASSUME NEW c \in Objs, status'[c] = "live"
               PROVE  IF Kind(c)' = "conn_manager"
                        THEN /\ attr'[c].transport \in Objs /\ status'[attr'[c].transport] = "live"
                             /\ Kind(attr[c].transport)' = "transport"
                             /\ cm_cb_arg'[attr'[c].transport] \in Objs
                             /\ attr'[c].engine \in Objs /\ status'[attr'[c].engine] = "live"
                             /\ Kind(attr[c].engine)' = "engine"
                        ELSE attr'[c].transport = None /\ attr'[c].engine = None
      BY DEF Linked
  <2>1. CASE c = o
    <3>1. CASE m.kind = "conn_manager"
      <4>1. /\ t \in Objs /\ status[t] = "live" /\ Kind(t) = "transport"
            /\ e \in Objs /\ status[e] = "live" /\ Kind(e) = "engine"
            BY <3>1
      <4>2. /\ status'[t] = "live" /\ attr'[t].module.kind = "transport"
            /\ status'[e] = "live" /\ attr'[e].module.kind = "engine"
            BY <1>3, <1>12, <4>1 DEF Kind
      <4>3. cm_cb_arg'[t] = o
            BY <1>2, <4>1
      <4> QED BY <1>11, <2>1, <3>1, <4>1, <4>2, <4>3 DEF Kind
    <3>2. CASE m.kind # "conn_manager"
          BY <1>11, <2>1, <3>2
    <3> QED BY <3>1, <3>2
  <2>2. CASE c # o
    <3>1. status[c] = "live" /\ attr'[c] = attr[c] /\ Kind(c)' = Kind(c)
          BY <1>3, <1>10, <2>2
    <3>2. CASE Kind(c) = "conn_manager"
      <4>1. c \in Managers
            BY <3>1, <3>2 DEF Managers
      <4>2. /\ attr[c].transport \in Objs /\ status[attr[c].transport] = "live"
            /\ Kind(attr[c].transport) = "transport"
            /\ attr[c].engine \in Objs /\ status[attr[c].engine] = "live"
            /\ Kind(attr[c].engine) = "engine"
            /\ cm_cb_arg[attr[c].transport] \in Objs
            BY <3>1, <3>2 DEF Inv, Linked
      <4>3. /\ status'[attr[c].transport] = "live" /\ attr'[attr[c].transport] = attr[attr[c].transport]
            /\ status'[attr[c].engine] = "live" /\ attr'[attr[c].engine] = attr[attr[c].engine]
            BY <1>3, <1>12, <4>2
      <4>4. cm_cb_arg'[attr[c].transport] \in Objs
            BY <1>2, <4>2
      <4> QED BY <3>1, <3>2, <4>2, <4>3, <4>4 DEF Kind
    <3>3. CASE Kind(c) # "conn_manager"
          BY <3>1, <3>3 DEF Inv, Linked
    <3> QED BY <3>2, <3>3
  <2> QED BY <2>1, <2>2
<1>14. CallsBack'
  <2>1. \A p \in listening' : cm_cb_arg'[p] \in Objs
        BY <1>0, <1>2 DEF Inv, CallsBack, TypeOK
  <2>2. ASSUME NEW p \in Objs, cm_cb_arg'[p] \in Objs
        PROVE  /\ status'[cm_cb_arg'[p]] # "unused"
               /\ status'[cm_cb_arg'[p]] = "live" => Kind(cm_cb_arg[p])' = "conn_manager"
    <3>1. CASE p = t
      <4>1. cm_cb_arg'[p] = o /\ m.kind = "conn_manager"
            BY <1>0, <1>2, <3>1
      <4> QED BY <1>3, <1>11, <4>1 DEF Kind
    <3>2. CASE p # t
      <4>1. cm_cb_arg'[p] = cm_cb_arg[p]
            BY <1>2, <3>2
      <4>2. /\ status[cm_cb_arg[p]] # "unused" /\ cm_cb_arg[p] # o
            /\ status[cm_cb_arg[p]] = "live" => Kind(cm_cb_arg[p]) = "conn_manager"
            BY <2>2, <4>1 DEF Inv, CallsBack
      <4>3. status'[cm_cb_arg[p]] = status[cm_cb_arg[p]] /\ attr'[cm_cb_arg[p]] = attr[cm_cb_arg[p]]
            BY <1>3, <2>2, <4>1, <4>2
      <4> QED BY <4>1, <4>2, <4>3 DEF Kind
    <3> QED BY <3>1, <3>2
  <2> QED BY <2>1, <2>2 DEF CallsBack
<1>15. \A c \in Managers : attr'[c] = attr[c]
       BY <1>3 DEF Managers
<1>16. ASSUME NEW p \in Objs, status[p] = "live" \/ p = o
       PROVE  refcount'[p] = 1 + Cardinality(TUsers(p)') + Cardinality(EUsers(p)')
  <2>1. CASE m.kind = "conn_manager"
    <3>1. Managers' = Managers \cup {o}
          BY <1>3, <1>10, <1>11, <2>1 DEF Managers
    <3>2. t # e /\ t # o /\ e # o
          BY <2>1
    <3>3. refcount'[p] = IF p \in {o, t, e} THEN refcount[p] + 1 ELSE refcount[p]
          BY <1>2 DEF RefsTaken
    <3>4. /\ attr'[o].transport # attr'[o].engine /\ attr'[o].transport # o /\ attr'[o].engine # o
          /\ refcount'[p] = IF p \in {o, attr'[o].transport, attr'[o].engine}
                              THEN refcount[p] + 1 ELSE refcount[p]
          BY <1>11, <3>2, <3>3
    <3> QED BY <1>15, <1>16, <3>1, <3>4, ManagerCame
  <2>2. CASE m.kind # "conn_manager"
    <3>1. Managers' = Managers
          BY <1>3, <1>10, <1>11, <2>2 DEF Managers
    <3>2. refcount'[p] = IF p = o THEN refcount[p] + 1 ELSE refcount[p]
          BY <1>0, <1>2, <2>2 DEF RefsTaken
    <3> QED BY <1>15, <1>16, <3>1, <3>2, OtherCame
  <2> QED BY <2>1, <2>2
<1>17. Counted'
  <2>1. \A p \in Objs : status'[p] = "live" => status[p] = "live" \/ p = o
        BY <1>3
  <2>2. RefcountExact'
        BY <1>16, <2>1 DEF RefcountExact, TUsers, EUsers
  <2>3. \A p \in Objs : status'[p] = "unused" => refcount'[p] = 0
    <3> SUFFICES ASSUME NEW p \in Objs, status'[p] = "unused" PROVE refcount'[p] = 0
        OBVIOUS
    <3>1. p # o /\ status[p] = "unused" /\ refcount[p] = 0
          BY <1>3 DEF Inv, Counted
    <3>2. p # t /\ p # e
          BY <1>0, <3>1
    <3> QED BY <1>2, <3>1, <3>2 DEF RefsTaken
  <2> QED BY <2>2, <2>3 DEF Counted
<1>18. ConnectionsServed'
       BY <1>0, <1>2, <1>3 DEF Inv, ConnectionsServed, TypeOK
<1> QED BY <1>5, <1>6, <1>8, <1>9, <1>13, <1>14, <1>17, <1>18 DEF Inv

(* vde_context_new_component *)
LEMMA NewComponentStep ==
  ASSUME Inv, NEW o \in Objs, NEW name \in Keys, NEW m \in Files,
         NEW tname \in Names, NEW ename \in Names,
         vde_context_new_component(o, name, m, tname, ename)
  PROVE  Inv'
<1> DEFINE t == hash[Quark(tname)]
           e == hash[Quark(ename)]
<1>1. /\ Running /\ status[o] = "unused" /\ hash[Quark(name)] = None
      /\ interned' = interned \cup ({name} \ {Zero})
      BY DEF vde_context_new_component
<1>2. CASE UNCHANGED <<control, loading, ordhash, objects>>
  <2>1. Types' /\ interned \subseteq interned'
        BY <1>1, <1>2 DEF Inv, Types, TypeOK, control, loading, ordhash, objects, links, Keys
  <2>2. Progress'
        BY <1>2 DEF Inv, Progress, control, ordhash, objects, ManagersPass, OthersPass, DeletePass, Kind
  <2> QED BY <1>2, <2>1, <2>2, QuietStep DEF control
<1>3. CASE m.kind # "conn_manager" /\ NewComponent(o, m, name, None, None)
      BY <1>1, <1>3, CreatedStep
<1>4. CASE m.kind = "conn_manager" /\ conn_manager_init(t, e) /\ NewComponent(o, m, name, t, e)
  <2>1. /\ t # None /\ Kind(t) = "transport" /\ e # None /\ Kind(e) = "engine"
        BY <1>4 DEF conn_manager_init
  <2>2. t \in Objs /\ status[t] = "live" /\ e \in Objs /\ status[e] = "live"
        BY <1>1, <2>1, FoundAlive DEF Quark, Keys
  <2> HIDE DEF t, e
  <2> QED BY <1>1, <1>4, <2>1, <2>2, CreatedStep
<1> QED BY <1>2, <1>3, <1>4 DEF vde_context_new_component

-----------------------------------------------------------------------------
(* What the references are when o, a manager or not, is finished: it is    *)
(* not alive any more, and no other component's links change.              *)
LEMMA GoneCounted ==
  ASSUME Inv, NEW o \in Objs, status[o] = "live",
         NEW p \in Objs, p # o, refcount'[p] = RefsPut(refcount, o)[p],
         Managers' = Managers \ {o}, \A c \in Managers \ {o} : attr'[c] = attr[c]
  PROVE  /\ refcount'[p] \in Nat
         /\ status[p] = "live" =>
              refcount'[p] = 1 + Cardinality(TUsers(p)') + Cardinality(EUsers(p)')
         /\ status[p] # "live" => refcount'[p] = refcount[p]
<1>0. refcount[p] \in Nat /\ None \notin Objs
      BY ContextAssumption DEF Inv, Types, TypeOK
<1>1. CASE Kind(o) = "conn_manager"
  <2>1. o \in Managers
        BY <1>1 DEF Managers
  <2>2. CASE status[p] = "live"
        BY <2>1, <2>2, ManagerGone
  <2>3. CASE status[p] # "live"
    <3>1. status[attr[o].transport] = "live" /\ status[attr[o].engine] = "live"
          BY <2>1, ManagerLinks
    <3> QED BY <1>0, <2>3, <3>1 DEF RefsPut
  <2> QED BY <2>2, <2>3
<1>2. CASE Kind(o) # "conn_manager"
  <2>1. attr[o].transport = None /\ attr[o].engine = None
        BY <1>2 DEF Inv, Linked
  <2>2. refcount'[p] = refcount[p]
        BY <1>0, <2>1 DEF RefsPut
  <2>3. Managers' = Managers /\ o \notin Managers
        BY <1>2 DEF Managers
  <2>4. TUsers(p)' = TUsers(p) /\ EUsers(p)' = EUsers(p)
        BY <2>3 DEF TUsers, EUsers
  <2>5. status[p] = "live" => refcount[p] = 1 + Cardinality(TUsers(p)) + Cardinality(EUsers(p))
        BY DEF Inv, Counted, RefcountExact, TUsers, EUsers
  <2> QED BY <1>0, <2>2, <2>4, <2>5
<1> QED BY <1>1, <1>2

(* The links of the others when nobody refers to o. *)
LEMMA GoneLinked ==
  ASSUME Inv, NEW o \in Objs, status[o] = "live",
         \A c \in Managers \ {o} : attr[c].transport # o /\ attr[c].engine # o,
         NEW STATE s, s \in {"finished", "deleted"}, status' = [status EXCEPT ![o] = s],
         \A c \in Objs \ {o} : attr'[c] = attr[c],
         UNCHANGED <<cm_cb_arg, listening>>, connected' = connected \ {o}
  PROVE  Linked' /\ CallsBack' /\ ConnectionsServed' /\ Managers' = Managers \ {o}
<1>0. /\ \A p \in Objs : status'[p] = IF p = o THEN s ELSE status[p]
      /\ s # "live" /\ s # "unused" /\ connected \subseteq Objs
      BY DEF Inv, Types, TypeOK
<1>1. \A c \in Objs \ {o} : Kind(c)' = Kind(c)
      BY DEF Kind
<1>2. Managers' = Managers \ {o}
      BY <1>0, <1>1 DEF Managers
<1>3. Linked'
  <2> SUFFICES ASSUME NEW c \in Objs, status'[c] = "live"
               PROVE  IF Kind(c)' = "conn_manager"
                        THEN /\ attr'[c].transport \in Objs /\ status'[attr'[c].transport] = "live"
                             /\ Kind(attr[c].transport)' = "transport"
                             /\ cm_cb_arg'[attr'[c].transport] \in Objs
                             /\ attr'[c].engine \in Objs /\ status'[attr'[c].engine] = "live"
                             /\ Kind(attr[c].engine)' = "engine"
                        ELSE attr'[c].transport = None /\ attr'[c].engine = None
      BY DEF Linked
  <2>1. c # o /\ status[c] = "live" /\ attr'[c] = attr[c] /\ Kind(c)' = Kind(c)
        BY <1>0, <1>1
  <2>2. CASE Kind(c) = "conn_manager"
    <3>1. c \in Managers \ {o}
          BY <2>1, <2>2 DEF Managers
    <3>2. /\ attr[c].transport \in Objs \ {o} /\ status[attr[c].transport] = "live"
          /\ Kind(attr[c].transport) = "transport"
          /\ attr[c].engine \in Objs \ {o} /\ status[attr[c].engine] = "live"
          /\ Kind(attr[c].engine) = "engine"
          /\ cm_cb_arg[attr[c].transport] \in Objs
          BY <2>1, <2>2, <3>1 DEF Inv, Linked
    <3>3. /\ status'[attr[c].transport] = "live" /\ attr'[attr[c].transport] = attr[attr[c].transport]
          /\ status'[attr[c].engine] = "live" /\ attr'[attr[c].engine] = attr[attr[c].engine]
          BY <1>0, <3>2
    <3>4. /\ Kind(attr[c].transport)' = Kind(attr[c].transport)
          /\ Kind(attr[c].engine)' = Kind(attr[c].engine)
          BY <2>1, <3>3 DEF Kind
    <3> QED BY <2>1, <2>2, <3>2, <3>3, <3>4
  <2>3. CASE Kind(c) # "conn_manager"
        BY <2>1, <2>3 DEF Inv, Linked
  <2> QED BY <2>2, <2>3
<1>4. CallsBack'
  <2>1. \A t \in listening' : cm_cb_arg'[t] \in Objs
        BY DEF Inv, CallsBack
  <2>2. ASSUME NEW t \in Objs, cm_cb_arg'[t] \in Objs
        PROVE  /\ status'[cm_cb_arg'[t]] # "unused"
               /\ status'[cm_cb_arg'[t]] = "live" => Kind(cm_cb_arg[t])' = "conn_manager"
    <3>1. CASE cm_cb_arg[t] = o
          BY <1>0, <3>1
    <3>2. CASE cm_cb_arg[t] # o
      <4>1. /\ status'[cm_cb_arg[t]] = status[cm_cb_arg[t]]
            /\ attr'[cm_cb_arg[t]] = attr[cm_cb_arg[t]]
            BY <1>0, <2>2, <3>2
      <4> QED BY <2>2, <4>1 DEF Inv, CallsBack, Kind
    <3> QED BY <3>1, <3>2
  <2> QED BY <2>1, <2>2 DEF CallsBack
<1>5. ConnectionsServed'
      BY <1>0 DEF Inv, ConnectionsServed
<1> QED BY <1>2, <1>3, <1>4, <1>5

(* vde_context_component_del: the last reference is the context's, so that *)
(* no manager refers to the component.                                     *)
LEMMA DelStep == ASSUME Inv, NEW o \in Objs, vde_context_component_del(o) PROVE Inv'
<1> DEFINE q == attr[o].qname
<1>0. /\ TypeOK /\ attr \in [Objs -> Attr \cup {None}] /\ status[o] = "live" /\ refcount[o] = 1
      /\ phase = "run" /\ initialized = 1 /\ iter >= 1 /\ None \notin Objs
      BY ContextAssumption DEF vde_context_component_del, PutIfLast, Running, Inv, Types
<1>1. /\ list' = vde_list_remove(list, q) /\ hash' = [hash EXCEPT ![q] = None]
      /\ refcount' = [RefsPut(refcount, o) EXCEPT ![o] = @ - 1]
      /\ connected' = connected \ {o} /\ UNCHANGED <<cm_cb_arg, listening>>
      /\ status' = [status EXCEPT ![o] = "deleted"] /\ attr' = [attr EXCEPT ![o] = None]
      /\ UNCHANGED <<control, loading, interned>>
      BY DEF vde_context_component_del, vde_ordhash_remove, vde_component_fini, vde_component_delete
<1>2. q \in Keys /\ hash[q] = o
      BY <1>0, Place DEF Present
<1> HIDE DEF q
<1>3. /\ list \in Seq(Keys) /\ hash \in [Keys -> Objs \cup {None}]
      /\ q \in Range(list) /\ IsInjective(list)
      BY <1>0, <1>2 DEF TypeOK, Keys, Inv, Hashed
<1>4. list' \in Seq(Keys) /\ Range(list') = Range(list) \ {q} /\ IsInjective(list')
      BY <1>1, <1>3, ListRemove
<1>5. /\ hash' \in [Keys -> Objs \cup {None}]
      /\ \A l \in Keys : hash'[l] = IF l = q THEN None ELSE hash[l]
      BY <1>1, <1>2, <1>3
<1>6. Hashed'
  <2>1. Range(list') = {l \in Keys : hash'[l] # None}
        BY <1>4, <1>5 DEF Inv, Hashed
  <2> QED BY <1>1, <1>4, <1>5, <2>1 DEF Inv, Hashed, Keys
<1>7. /\ \A p \in Objs : status'[p] = IF p = o THEN "deleted" ELSE status[p]
      /\ \A p \in Objs : attr'[p] = IF p = o THEN None ELSE attr[p]
      BY <1>0, <1>1 DEF TypeOK
<1>8. Held'
  <2>1. ASSUME NEW p \in Objs, status'[p] \in Present PROVE hash'[attr'[p].qname] = p
    <3>1. p # o /\ attr'[p] = attr[p] /\ status[p] \in Present
          BY <1>7, <2>1 DEF Present
    <3>2. attr[p].qname \in Keys /\ hash[attr[p].qname] = p
          BY <3>1, Place
    <3> QED BY <1>2, <1>5, <3>1, <3>2
  <2>2. ASSUME NEW l \in Keys, hash'[l] # None
        PROVE  status'[hash'[l]] \in Present /\ attr'[hash'[l]].qname = l
    <3>1. l # q /\ hash'[l] = hash[l] /\ hash[l] \in Objs
          BY <1>3, <1>5, <2>2
    <3>2. status[hash[l]] \in Present /\ attr[hash[l]].qname = l /\ hash[l] # o
          BY <1>0, <1>2, <3>1 DEF Inv, Held, Hashed
    <3> QED BY <1>7, <3>1, <3>2
  <2> QED BY <2>1, <2>2 DEF Held
<1>9. Progress'
  <2>1. phase' = "run" /\ initialized' = 1
        BY <1>0, <1>1 DEF control
  <2>2. \A p \in Objs : status'[p] # "finished"
        BY <1>0, <1>7 DEF Inv, Progress, Passes
  <2> QED BY <2>1, <2>2 DEF Progress
<1>10. \A c \in Managers : attr[c].transport # o /\ attr[c].engine # o
  <2>1. 1 = 1 + Cardinality(TUsers(o)) + Cardinality(EUsers(o))
        BY <1>0 DEF Inv, Counted, RefcountExact, TUsers, EUsers
  <2>2. Cardinality(TUsers(o)) = 0 /\ Cardinality(EUsers(o)) = 0
        BY <2>1, UsersFinite
  <2>3. TUsers(o) = {} /\ EUsers(o) = {}
        BY <2>2, UsersFinite, FS_EmptySet
  <2> QED BY <2>3 DEF TUsers, EUsers
<1>11. \A c \in Objs \ {o} : attr'[c] = attr[c]
       BY <1>7
<1>12. Linked' /\ CallsBack' /\ ConnectionsServed' /\ Managers' = Managers \ {o}
       BY <1>0, <1>1, <1>10, <1>11, GoneLinked
<1>13. \A p \in Objs : p # o => refcount'[p] = RefsPut(refcount, o)[p]
       BY <1>1 DEF RefsPut
<1>14. \A c \in Managers \ {o} : attr'[c] = attr[c]
       BY <1>11 DEF Managers
<1>15. ASSUME NEW p \in Objs, p # o
       PROVE  /\ refcount'[p] \in Nat
              /\ status[p] = "live" =>
                   refcount'[p] = 1 + Cardinality(TUsers(p)') + Cardinality(EUsers(p)')
              /\ status[p] # "live" => refcount'[p] = refcount[p]
       BY <1>0, <1>12, <1>13, <1>14, <1>15, GoneCounted
<1>16. Counted'
  <2>1. \A p \in Objs : status'[p] = "live" => p # o /\ status[p] = "live"
        BY <1>7
  <2>2. RefcountExact'
        BY <1>15, <2>1 DEF RefcountExact, TUsers, EUsers
  <2>3. \A p \in Objs : status'[p] = "unused" => refcount'[p] = 0
        BY <1>7, <1>15 DEF Inv, Counted
  <2> QED BY <2>2, <2>3 DEF Counted
<1>17. Types'
  <2>1. refcount'[o] \in Nat
    <3>1. RefsPut(refcount, o)[o] = 1
      <4>1. attr[o].transport # o /\ attr[o].engine # o
        <5>1. CASE Kind(o) = "conn_manager"
              BY <1>0, <5>1, ManagerLinks DEF Managers
        <5>2. CASE Kind(o) # "conn_manager"
              BY <1>0, <5>2 DEF Inv, Linked
        <5> QED BY <5>1, <5>2
      <4> QED BY <1>0, <4>1 DEF RefsPut
    <3>2. DOMAIN RefsPut(refcount, o) = Objs
          BY DEF RefsPut
    <3>3. refcount'[o] = RefsPut(refcount, o)[o] - 1
          BY <1>1, <3>2
    <3> QED BY <3>1, <3>3
  <2>2. refcount' \in [Objs -> Nat]
    <3>1. DOMAIN refcount' = Objs
          BY <1>1 DEF RefsPut
    <3>2. refcount' = [p \in Objs |-> refcount'[p]]
          BY <1>1, <3>1 DEF RefsPut
    <3> QED BY <1>15, <2>1, <3>2
  <2>3. status' \in [Objs -> Statuses] /\ attr' \in [Objs -> Attr \cup {None}]
        BY <1>0, <1>1 DEF TypeOK, Statuses
  <2>4. \A p \in Objs : status'[p] \in {"live", "finished"} => attr'[p] \in Attr
        BY <1>0, <1>7 DEF TypeOK
  <2> QED BY <1>0, <1>1, <1>4, <1>5, <2>2, <2>3, <2>4 DEF Types, TypeOK, control, loading, Keys
<1> QED BY <1>6, <1>8, <1>9, <1>12, <1>16, <1>17 DEF Inv

-----------------------------------------------------------------------------
(* After the first pass no manager is alive, in the last no component. *)
LEMMA ManagersFinished ==
  ASSUME Inv, phase \in {"others", "delete"}
  PROVE  Managers = {}
<1> SUFFICES ASSUME NEW c \in Managers PROVE FALSE
    OBVIOUS
<1>1. c \in Objs /\ status[c] = "live" /\ Kind(c) = "conn_manager"
      BY DEF Managers
<1>2. PICK i \in 1..Len(list) : hash[list[i]] = c
      BY <1>1, Place DEF Present
<1> QED BY <1>1, <1>2 DEF Inv, Progress, OthersPass, DeletePass

LEMMA NoneAlive ==
  ASSUME Inv, phase = "delete", NEW o \in Objs
  PROVE  status[o] # "live"
<1> SUFFICES ASSUME status[o] = "live" PROVE FALSE
    OBVIOUS
<1>1. PICK i \in 1..Len(list) : hash[list[i]] = o
      BY Place DEF Present
<1> QED BY <1>1 DEF Inv, Progress, DeletePass

(* One turn of a loop, which has come to o. *)
Turn(o) ==
  /\ iter <= Len(list) /\ o = hash[list[iter]] /\ iter' = iter + 1
  /\ UNCHANGED <<initialized, phase, loading, interned, ordhash>>

(* It finishes o, *)
Finishes(o) ==
  /\ phase \in {"managers", "others"} /\ FinishedInThisPass(o)
  /\ status' = [status EXCEPT ![o] = "finished"]
  /\ refcount' = RefsPut(refcount, o)
  /\ vde_component_fini(o) /\ UNCHANGED attr

(* frees it, or passes it over. *)
Frees(o) ==
  phase = "delete" /\ vde_component_delete(o) /\ UNCHANGED <<refcount, links>>

Skips(o) ==
  phase \in {"managers", "others"} /\ ~FinishedInThisPass(o) /\ UNCHANGED objects

(* Where a turn is in the list, before and after. *)
LEMMA Turned ==
  ASSUME Inv, NEW o, Turn(o)
  PROVE  /\ iter \in 1..Len(list) /\ iter' \in Nat /\ iter' >= 1
         /\ o \in Objs /\ hash[list[iter]] = o /\ iter < iter'
         /\ \A j \in 1..Len(list) : j # iter =>
              hash[list[j]] \in Objs /\ hash[list[j]] # o /\ (j < iter' <=> j < iter)
         /\ list' = list /\ hash' = hash /\ interned' = interned
         /\ initialized' = initialized /\ phase' = phase
         /\ modules' = modules /\ tried' = tried
<1>1. iter \in Nat /\ iter >= 1 /\ Len(list) \in Nat
      BY DEF Inv, Types, TypeOK
<1>2. iter <= Len(list) /\ o = hash[list[iter]] /\ iter' = iter + 1
      BY DEF Turn
<1>3. iter \in 1..Len(list) /\ iter' \in Nat /\ iter' >= 1 /\ iter < iter'
      BY <1>1, <1>2
<1>4. o \in Objs /\ \A j \in 1..Len(list) : hash[list[j]] = o => j = iter
      BY <1>2, <1>3, AtPlace
<1>5. \A j \in 1..Len(list) : j # iter => (j < iter' <=> j < iter)
      BY <1>1, <1>2
<1>6. \A j \in 1..Len(list) : hash[list[j]] \in Objs
      BY AtPlace
<1> QED BY <1>2, <1>3, <1>4, <1>5, <1>6 DEF Turn, ordhash, loading

(* The ordhash is not touched in the shutdown. *)
LEMMA TurnHashed == ASSUME Inv, NEW o, Turn(o) PROVE Hashed'
  BY Turned DEF Inv, Hashed

(* A component is finished in its pass. *)
LEMMA FinishStep ==
  ASSUME Inv, NEW o, Turn(o), Finishes(o)
  PROVE  Inv'
<1>0. TypeOK /\ attr \in [Objs -> Attr \cup {None}] /\ None \notin Objs
      BY ContextAssumption DEF Inv, Types
<1>1. /\ o \in Objs /\ hash[list[iter]] = o /\ iter \in 1..Len(list) /\ iter < iter'
      /\ list' = list /\ hash' = hash /\ phase' = phase
      BY Turned
<1>2. /\ phase \in {"managers", "others"} /\ FinishedInThisPass(o)
      /\ refcount' = RefsPut(refcount, o) /\ attr' = attr
      /\ connected' = connected \ {o} /\ UNCHANGED <<cm_cb_arg, listening>>
      BY DEF Finishes, vde_component_fini
<1>3. /\ status' = [status EXCEPT ![o] = "finished"]
      /\ \A p \in Objs : status'[p] = IF p = o THEN "finished" ELSE status[p]
      BY <1>0, <1>1 DEF TypeOK, Finishes
<1>4. status[o] = "live"
  <2>1. CASE phase = "managers"
    <3>1. ManagersPass(iter)
          BY <1>1, <2>1 DEF Inv, Progress
    <3> QED BY <1>0, <1>1, <3>1 DEF ManagersPass, TypeOK
  <2>2. CASE phase = "others"
    <3>1. OthersPass(iter) /\ Kind(o) # "conn_manager"
          BY <1>1, <1>2, <2>2 DEF Inv, Progress, FinishedInThisPass
    <3> QED BY <1>0, <1>1, <3>1 DEF OthersPass, TypeOK
  <2> QED BY <1>2, <2>1, <2>2
<1>5. Held'
  <2>1. \A p \in Objs : status'[p] \in Present <=> status[p] \in Present
        BY <1>3, <1>4 DEF Present
  <2>2. \A k \in Keys : hash[k] # None => hash[k] \in Objs
        BY <1>0 DEF TypeOK, Keys
  <2>3. \A k \in Keys : hash[k] # None => status[hash[k]] \in Present /\ attr[hash[k]].qname = k
        BY <1>2 DEF Inv, Held
  <2>4. \A p \in Objs : status'[p] \in Present => hash[attr[p].qname] = p
        BY <2>1 DEF Inv, Held
  <2> QED BY <1>1, <1>2, <2>1, <2>2, <2>3, <2>4 DEF Held
<1>6. Progress'
  <2>1. ASSUME NEW j \in 1..Len(list), phase = "managers" PROVE ManagersPass(j)'
    <3>1. Kind(o) = "conn_manager" /\ ManagersPass(j)
          BY <1>2, <2>1 DEF FinishedInThisPass, Inv, Progress
    <3>2. CASE j = iter
          BY <1>1, <1>2, <1>3, <3>1, <3>2 DEF ManagersPass, Kind
    <3>3. CASE j # iter
      <4>1. hash[list[j]] \in Objs /\ hash[list[j]] # o /\ (j < iter' <=> j < iter)
            BY <3>3, Turned
      <4> QED BY <1>1, <1>2, <1>3, <3>1, <4>1 DEF ManagersPass, Kind
    <3> QED BY <3>2, <3>3
  <2>2. ASSUME NEW j \in 1..Len(list), phase = "others" PROVE OthersPass(j)'
    <3>1. OthersPass(j)
          BY <2>2 DEF Inv, Progress
    <3>2. CASE j = iter
          BY <1>1, <1>2, <1>3, <3>2 DEF OthersPass
    <3>3. CASE j # iter
      <4>1. hash[list[j]] \in Objs /\ hash[list[j]] # o /\ (j < iter' <=> j < iter)
            BY <3>3, Turned
      <4> QED BY <1>1, <1>2, <1>3, <3>1, <4>1 DEF OthersPass, Kind
    <3> QED BY <3>2, <3>3
  <2>3. initialized' = 0 \/ phase' \in {"loading", "deleted"} => list' = <<>>
        BY Turned DEF Inv, Progress
  <2> QED BY <1>1, <1>2, <2>1, <2>2, <2>3 DEF Progress, Passes
<1>7. \A c \in Managers \ {o} : attr[c].transport # o /\ attr[c].engine # o
  <2>1. CASE phase = "managers"
        BY <1>2, <2>1, ManagerLinks DEF FinishedInThisPass
  <2>2. CASE phase = "others"
        BY <2>2, ManagersFinished
  <2> QED BY <1>2, <2>1, <2>2
<1>8. Linked' /\ CallsBack' /\ ConnectionsServed' /\ Managers' = Managers \ {o}
      BY <1>1, <1>2, <1>3, <1>4, <1>7, GoneLinked
<1>9. ASSUME NEW p \in Objs, p # o
      PROVE  /\ refcount'[p] \in Nat
             /\ status[p] = "live" =>
                  refcount'[p] = 1 + Cardinality(TUsers(p)') + Cardinality(EUsers(p)')
             /\ status[p] # "live" => refcount'[p] = refcount[p]
      BY <1>1, <1>2, <1>4, <1>8, <1>9, GoneCounted
<1>10. Counted'
  <2>1. \A p \in Objs : status'[p] \in {"live", "unused"} => p # o /\ status[p] = status'[p]
        BY <1>3
  <2>2. RefcountExact'
        BY <1>9, <2>1 DEF RefcountExact, TUsers, EUsers
  <2>3. ASSUME NEW p \in Objs, status'[p] = "unused" PROVE refcount'[p] = 0
    <3>1. p # o /\ status[p] = "unused"
          BY <2>1, <2>3
    <3>2. refcount[p] = 0
          BY <3>1 DEF Inv, Counted
    <3> QED BY <1>9, <3>1, <3>2
  <2> QED BY <2>2, <2>3 DEF Counted
<1>11. Types'
  <2>1. refcount'[o] \in Nat
    <3>1. attr[o].transport # o /\ attr[o].engine # o
      <4>1. CASE Kind(o) = "conn_manager"
            BY <1>1, <1>4, <4>1, ManagerLinks DEF Managers
      <4>2. CASE Kind(o) # "conn_manager"
            BY <1>0, <1>1, <1>4, <4>2 DEF Inv, Linked
      <4> QED BY <4>1, <4>2
    <3> QED BY <1>0, <1>1, <1>2, <3>1 DEF RefsPut, TypeOK
  <2>2. refcount' \in [Objs -> Nat]
    <3>1. refcount' = [p \in Objs |-> refcount'[p]]
          BY <1>2 DEF RefsPut
    <3> QED BY <1>9, <2>1, <3>1
  <2>3. status' \in [Objs -> Statuses]
        BY <1>0, <1>1, <1>3 DEF TypeOK, Statuses
  <2>4. \A p \in Objs : status'[p] \in {"live", "finished"} => attr'[p] \in Attr
        BY <1>0, <1>2, <1>3, <1>4 DEF TypeOK
  <2>5. connected' \subseteq Objs
        BY <1>0, <1>2 DEF TypeOK
  <2> QED BY <1>0, <1>2, <2>2, <2>3, <2>4, <2>5, Turned DEF Types, TypeOK
<1> QED BY <1>5, <1>6, <1>8, <1>10, <1>11, TurnHashed DEF Inv

(* A component is freed in the last pass. *)
LEMMA FreeStep ==
  ASSUME Inv, NEW o, Turn(o), Frees(o)
  PROVE  Inv'
<1>0. TypeOK /\ attr \in [Objs -> Attr \cup {None}] /\ None \notin Objs
      BY ContextAssumption DEF Inv, Types
<1>1. /\ o \in Objs /\ hash[list[iter]] = o /\ iter \in 1..Len(list) /\ iter < iter'
      /\ list' = list /\ hash' = hash /\ phase' = phase
      BY Turned
<1>2. /\ phase = "delete" /\ refcount' = refcount
      /\ cm_cb_arg' = cm_cb_arg /\ listening' = listening /\ connected' = connected
      /\ status' = [status EXCEPT ![o] = "deleted"] /\ attr' = [attr EXCEPT ![o] = None]
      BY DEF Frees, vde_component_delete, links
<1>3. /\ \A p \in Objs : status'[p] = IF p = o THEN "deleted" ELSE status[p]
      /\ \A p \in Objs : attr'[p] = IF p = o THEN None ELSE attr[p]
      BY <1>0, <1>1, <1>2 DEF TypeOK
<1>4. \A p \in Objs : status'[p] # "live"
      BY <1>2, <1>3, NoneAlive
<1>5. Types'
  <2>1. status' \in [Objs -> Statuses] /\ attr' \in [Objs -> Attr \cup {None}]
        BY <1>0, <1>2 DEF TypeOK, Statuses
  <2>2. \A p \in Objs : status'[p] \in {"live", "finished"} => attr'[p] \in Attr
        BY <1>0, <1>3 DEF TypeOK
  <2>3. iter' \in Nat /\ iter' >= 1 /\ UNCHANGED <<initialized, phase, modules, tried, interned, list, hash>>
        BY Turned
  <2> QED BY <1>0, <1>2, <2>1, <2>2, <2>3 DEF Types, TypeOK
<1>6. Held'
  <2>1. \A k \in Keys : hash[k] # None => hash[k] \in Objs
        BY <1>0 DEF TypeOK, Keys
  <2>2. \A p \in Objs : status'[p] \in Present => p # o /\ status[p] \in Present
        BY <1>3 DEF Present
  <2>3. \A p \in Objs : status'[p] \in Present => hash[attr'[p].qname] = p
        BY <1>3, <2>2 DEF Inv, Held
  <2>4. \A k \in Keys : hash[k] # None =>
          \/ status'[hash[k]] \in Present /\ attr'[hash[k]].qname = k
          \/ status'[hash[k]] = "deleted"
        BY <1>3, <2>1 DEF Inv, Held
  <2> QED BY <1>1, <1>2, <2>3, <2>4 DEF Held
<1>7. Progress'
  <2>1. ASSUME NEW j \in 1..Len(list) PROVE DeletePass(j)'
    <3>1. DeletePass(j)
          BY <1>2 DEF Inv, Progress
    <3>2. CASE j = iter
          BY <1>1, <1>3, <3>2 DEF DeletePass
    <3>3. CASE j # iter
      <4>1. hash[list[j]] \in Objs /\ hash[list[j]] # o /\ (j < iter' <=> j < iter)
            BY <3>3, Turned
      <4> QED BY <1>1, <1>3, <3>1, <4>1 DEF DeletePass
    <3> QED BY <3>2, <3>3
  <2>2. initialized' = 0 => list' = <<>>
        BY Turned DEF Inv, Progress
  <2> QED BY <1>1, <1>2, <2>1, <2>2 DEF Progress, Passes
<1>8. Linked' /\ Counted'
  <2>1. \A p \in Objs : status'[p] = "unused" => refcount'[p] = 0
        BY <1>2, <1>3 DEF Inv, Counted
  <2> QED BY <1>4, <2>1 DEF Linked, Counted, RefcountExact
<1>9. CallsBack'
  <2>1. \A t \in listening' : cm_cb_arg'[t] \in Objs
        BY <1>2 DEF Inv, CallsBack
  <2>2. \A p \in Objs : status'[p] = "unused" => status[p] = "unused"
        BY <1>3
  <2>3. \A t \in Objs : cm_cb_arg'[t] \in Objs =>
          status'[cm_cb_arg'[t]] # "unused" /\ status'[cm_cb_arg'[t]] # "live"
        BY <1>2, <1>4, <2>2 DEF Inv, CallsBack
  <2> QED BY <2>1, <2>3 DEF CallsBack
<1>10. ConnectionsServed'
  <2>1. connected = {}
        BY <1>0, <1>2, NoneAlive DEF Inv, ConnectionsServed, TypeOK
  <2> QED BY <1>2, <2>1 DEF ConnectionsServed
<1> QED BY <1>5, <1>6, <1>7, <1>8, <1>9, <1>10, TurnHashed DEF Inv

(* A component another pass finishes is passed over. *)
LEMMA SkipStep ==
  ASSUME Inv, NEW o, Turn(o), Skips(o)
  PROVE  Inv'
<1>1. /\ o \in Objs /\ hash[list[iter]] = o /\ iter \in 1..Len(list) /\ iter < iter'
      /\ list' = list /\ hash' = hash /\ phase' = phase
      BY Turned
<1>2. /\ phase \in {"managers", "others"} /\ ~FinishedInThisPass(o) /\ UNCHANGED objects
      /\ status' = status /\ attr' = attr
      BY DEF Skips, objects
<1>3. Types'
  <2>1. UNCHANGED <<refcount, cm_cb_arg, listening, connected>>
        BY <1>2 DEF objects, links
  <2> QED BY <1>2, <2>1, Turned DEF Inv, Types, TypeOK
<1>4. ASSUME phase = "managers", NEW j \in 1..Len(list) PROVE ManagersPass(j)'
  <2>1. ManagersPass(j) /\ Kind(o) # "conn_manager"
        BY <1>2, <1>4 DEF Inv, Progress, FinishedInThisPass
  <2>2. j # iter => (j < iter' <=> j < iter)
        BY Turned
  <2> QED BY <1>1, <1>2, <2>1, <2>2 DEF ManagersPass, Kind
<1>5. ASSUME phase = "others", NEW j \in 1..Len(list) PROVE OthersPass(j)'
  <2>1. OthersPass(j) /\ Kind(o) = "conn_manager"
        BY <1>2, <1>5 DEF Inv, Progress, FinishedInThisPass
  <2>2. j # iter => (j < iter' <=> j < iter)
        BY Turned
  <2> QED BY <1>1, <1>2, <2>1, <2>2 DEF OthersPass, Kind
<1>6. Progress'
  <2>1. initialized' = 0 => list' = <<>>
        BY Turned DEF Inv, Progress
  <2> QED BY <1>1, <1>2, <1>4, <1>5, <2>1 DEF Progress, Passes
<1>7. UNCHANGED ordhash /\ interned' = interned
      BY Turned DEF ordhash
<1> QED BY <1>1, <1>2, <1>3, <1>6, <1>7, QuietStep

(* One turn of a loop of vde_context_fini. *)
LEMMA TurnStep == ASSUME Inv, FiniStep PROVE Inv'
<1>1. PICK o : o = hash[list[iter]]
      OBVIOUS
<1>2. Turn(o)
      BY <1>1 DEF FiniStep, Turn
<1>3. Finishes(o) \/ Frees(o) \/ Skips(o)
  <2>1. FinishedInThisPass(o) => phase \in {"managers", "others"}
        BY DEF FinishedInThisPass
  <2>2. phase \in {"managers", "others", "delete"}
        BY DEF FiniStep
  <2> QED BY <1>1, <2>1, <2>2 DEF FiniStep, Finishes, Frees, Skips
<1> QED BY <1>2, <1>3, FinishStep, FreeStep, SkipStep

(* A loop of vde_context_fini ends: the next pass begins, or everything is *)
(* gone and the ordhash is emptied.                                        *)
LEMMA PassEndsStep == ASSUME Inv, FiniPassEnds PROVE Inv'
<1>0. /\ iter \in Nat /\ iter >= 1 /\ Len(list) \in Nat /\ iter > Len(list) /\ iter' = 1
      /\ \A j \in 1..Len(list) : j < iter /\ ~(j < 1)
      BY DEF Inv, Types, TypeOK, FiniPassEnds
<1>1. CASE phase \in {"managers", "others"}
  <2>1. /\ UNCHANGED <<initialized, ordhash, modules, tried, interned, objects>>
        /\ phase' = IF phase = "managers" THEN "others" ELSE "delete"
        BY <1>1 DEF FiniPassEnds
  <2>2. Types'
    <3>1. phase' \in Phases /\ iter' \in Nat /\ iter' >= 1
          BY <1>0, <2>1 DEF Phases
    <3>2. UNCHANGED <<initialized, list, hash, modules, tried, interned, status, attr, refcount,
                      cm_cb_arg, listening, connected>>
          BY <2>1 DEF ordhash, objects, links
    <3> QED BY <3>1, <3>2 DEF Inv, Types, TypeOK
  <2>3. ASSUME phase = "managers", NEW j \in 1..Len(list) PROVE OthersPass(j)'
        BY <1>0, <2>1, <2>3 DEF Inv, Progress, ManagersPass, OthersPass, Kind, ordhash, objects
  <2>4. ASSUME phase = "others", NEW j \in 1..Len(list) PROVE DeletePass(j)'
        BY <1>0, <2>1, <2>4 DEF Inv, Progress, OthersPass, DeletePass, Kind, ordhash, objects
  <2>5. Progress'
    <3>1. initialized' = 0 => list' = <<>>
          BY <2>1 DEF Inv, Progress, ordhash
    <3>2. phase' \in {"others", "delete"} /\ list' = list
          BY <1>1, <2>1 DEF ordhash
    <3>3. phase' = "others" => \A j \in 1..Len(list') : OthersPass(j)'
          BY <1>1, <2>1, <2>3, <3>2
    <3>4. phase' = "delete" => \A j \in 1..Len(list') : DeletePass(j)'
          BY <1>1, <2>1, <2>4, <3>2
    <3> QED BY <3>1, <3>2, <3>3, <3>4 DEF Progress, Passes
  <2> QED BY <1>1, <2>1, <2>2, <2>5, QuietStep
<1>2. CASE phase = "delete"
  <2>1. /\ initialized' = 0 /\ phase' = "run" /\ list' = <<>>
        /\ hash' = [k \in Names \cup {Zero} |-> None] /\ modules' = {}
        /\ UNCHANGED <<tried, interned, objects>>
        BY <1>2 DEF FiniPassEnds
  <2>2. ASSUME NEW o \in Objs PROVE status[o] \notin Present
    <3> SUFFICES ASSUME status[o] \in Present PROVE FALSE
        OBVIOUS
    <3>1. PICK j \in 1..Len(list) : hash[list[j]] = o
          BY Place
    <3>2. status[o] = "deleted"
          BY <1>0, <1>2, <3>1 DEF Inv, Progress, DeletePass
    <3> QED BY <3>2 DEF Present
  <2>3. Types'
    <3>1. /\ phase' \in Phases /\ iter' \in Nat /\ iter' >= 1 /\ initialized' \in {0, 1}
          /\ list' \in Seq(Names \cup {Zero}) /\ modules' \subseteq Files
          /\ hash' \in [Names \cup {Zero} -> Objs \cup {None}]
          BY <1>0, <2>1 DEF Phases
    <3>2. UNCHANGED <<tried, interned, status, attr, refcount, cm_cb_arg, listening, connected>>
          BY <2>1 DEF objects, links
    <3> QED BY <3>1, <3>2 DEF Inv, Types, TypeOK
  <2>4. Hashed' /\ Held'
        BY <2>1, <2>2, ListEmpty DEF Hashed, Held, Keys, objects
  <2>5. Progress'
        BY <2>1, <2>2 DEF Progress, Passes, Present, objects
  <2>6. Linked' /\ CallsBack' /\ Counted' /\ ConnectionsServed'
        BY <2>1, <2>2 DEF Inv, Linked, CallsBack, Counted, RefcountExact, ConnectionsServed,
                          Managers, Kind, Present, objects, links
  <2> QED BY <2>3, <2>4, <2>5, <2>6 DEF Inv
<1> QED BY <1>1, <1>2 DEF FiniPassEnds

-----------------------------------------------------------------------------
(* Every step preserves the invariant. *)
LEMMA Step == Inv /\ [Next]_vars => Inv'
<1> SUFFICES ASSUME Inv, [Next]_vars PROVE Inv'
    OBVIOUS
<1>1. ASSUME NEW o \in Objs, NEW name \in Names \cup {Zero}, NEW m \in Files,
             NEW tname \in Names, NEW ename \in Names,
             vde_context_new_component(o, name, m, tname, ename)
      PROVE  Inv'
      BY <1>1, NewComponentStep DEF Keys
<1>2. CASE UNCHANGED vars
  <2>1. UNCHANGED <<control, loading, interned, ordhash, objects>>
        BY <1>2 DEF vars
  <2>2. Types'
        BY <2>1 DEF Inv, Types, TypeOK, control, loading, ordhash, objects, links
  <2>3. Progress'
        BY <2>1 DEF Inv, Progress, ManagersPass, OthersPass, DeletePass, Kind,
                    control, ordhash, objects
  <2> QED BY <2>1, <2>2, <2>3, QuietStep DEF control
<1> QED BY <1>1, <1>2, ControlSteps, DelStep, ListenStep, AcceptStep, FiniBegins,
           TurnStep, PassEndsStep DEF Next

(* It holds in every state of every execution. *)
LEMMA Invariance == Spec => []Inv
<1> QED BY Initial, Step, PTL DEF Spec

(* Type correctness, for every set of components, names and files: in      *)
(* particular no reference count ever drops below 0.                       *)
THEOREM TypeCorrect == Spec => []TypeOK
<1>1. Inv => TypeOK
      BY DEF Inv, Types
<1> QED BY <1>1, Invariance, PTL

(* The list and the table of the ordhash always hold the same keys, each   *)
(* once, and lead to the component of that name: the assertions of         *)
(* vde_ordhash_insert, _remove and _entry_lookup never fail, however many  *)
(* components there are.                                                   *)
THEOREM OrdhashAlwaysConsistent == Spec => []ListMatchesHash
<1>1. Inv => ListMatchesHash
  <2> SUFFICES ASSUME Inv PROVE ListMatchesHash
      OBVIOUS
  <2>1. Range(list) = {k \in Names \cup {Zero} : hash[k] # None} /\ IsInjective(list)
        BY DEF Inv, Hashed, Keys
  <2> QED BY <2>1 DEF ListMatchesHash, Inv, Held, Keys
<1> QED BY <1>1, Invariance, PTL

(* The reference count of a live component is always the context's         *)
(* reference and one for each connection manager that uses it.             *)
THEOREM RefcountsAlwaysExact == Spec => []RefcountExact
<1>1. Inv => RefcountExact
      BY DEF Inv, Counted
<1> QED BY <1>1, Invariance, PTL

(* A connection manager that is alive always has a transport and an engine *)
(* that are alive: component_del refuses to delete them, and               *)
(* vde_context_fini finishes the managers first.                           *)
THEOREM ReferencesAlwaysAlive == Spec => []ReferencesAlive
<1>1. Inv => ReferencesAlive
      BY ManagerLinks DEF ReferencesAlive
<1> QED BY <1>1, Invariance, PTL

(* vde_context_get_component always finds a component under its own name,  *)
(* and under another one at most the component without a name.             *)
THEOREM LookupAlwaysByName == Spec => []LookupByName
<1>1. Inv => LookupByName
  <2> SUFFICES ASSUME Inv, Running PROVE LookupByName
      BY DEF LookupByName
  <2>0. phase = "run" /\ None \notin Objs
        BY ContextAssumption DEF Running
  <2>1. ASSUME NEW o \in Objs, status[o] = "live" PROVE hash[Quark(attr[o].qname)] = o
    <3>1. attr[o].qname \in Keys /\ hash[attr[o].qname] = o
          BY <2>1, Place DEF Present
    <3>2. attr[o].qname = Zero \/ attr[o].qname \in interned
          BY <2>0, <3>1 DEF Inv, Hashed, Keys
    <3>3. Quark(attr[o].qname) = attr[o].qname
          BY <3>2 DEF Quark
    <3> QED BY <3>1, <3>3
  <2>2. ASSUME NEW name \in Names, hash[Quark(name)] # None
        PROVE  attr[hash[Quark(name)]].qname \in {name, Zero}
    <3>1. Quark(name) \in {name, Zero} /\ Quark(name) \in Keys
          BY DEF Quark, Keys
    <3> QED BY <2>0, <2>2, <3>1 DEF Inv, Held
  <2> QED BY <2>1, <2>2 DEF LookupByName
<1> QED BY <1>1, Invariance, PTL

(* An engine that has connections is always alive, whatever transports     *)
(* still listen and in every pass of the shutdown.                         *)
THEOREM ConnectionsAlwaysServed == Spec => []ConnectionsServed
<1>1. Inv => ConnectionsServed
      BY DEF Inv
<1> QED BY <1>1, Invariance, PTL
=============================================================================
