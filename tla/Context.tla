------------------------------ MODULE Context ------------------------------
(***************************************************************************)
(* The vde context (context.c) and the life of its components              *)
(* (component.c): loading modules, creating, looking up and deleting       *)
(* components, the reference counts connection managers hold on their      *)
(* transport and engine (conn_manager.c), and the three passes in which    *)
(* vde_context_fini takes everything down.  The components are kept in a   *)
(* vde_ordhash (vde_ordhash.c): a hash table and a list of its keys.       *)
(*                                                                         *)
(* An element of Objs is the memory of one component, used once.  The      *)
(* application initialises a context that is not initialised, or again     *)
(* after an initialisation that failed, and deletes a component once.      *)
(***************************************************************************)
EXTENDS VdeList

CONSTANTS
  Objs,         \* component objects
  Names,        \* names the application uses
  Zero,         \* the quark of NULL and of every string never interned
  None,         \* not a component
  Files         \* module files: [id, kind, family, valid]

Kinds == {"engine", "transport", "conn_manager"}

ASSUME ContextAssumption ==
  /\ Zero \notin Names
  /\ None \notin Objs
  /\ IsFiniteSet(Objs)
  /\ \A f \in Files : f.kind \in Kinds /\ f.valid \in BOOLEAN

VARIABLES
  initialized,    \* vde_context.initialized
  phase,          \* what the thread is doing, see Phases
  iter,           \* position of the iterator of vde_context_fini
  modules,        \* the registered modules (looked up by kind and family)
  tried,          \* files already examined by vde_modules_load
  interned,       \* strings that have a quark
  list, hash,     \* the vde_ordhash of components
  status,         \* of each component object, see Statuses
  attr,           \* its qname, module, transport and engine
  refcount,
  cm_cb_arg,      \* of a transport: the connection manager to call back
  listening,      \* transports whose accept event is armed
  connected       \* engines with open connections

loading == <<modules, tried>>
ordhash == <<list, hash>>
links == <<cm_cb_arg, listening, connected>>
control == <<initialized, phase, iter>>
objects == <<status, attr, refcount, links>>
vars == <<control, loading, interned, ordhash, objects>>

(* "managers", "others" and "delete" are the passes of vde_context_fini. *)
Phases == {"run", "loading", "managers", "others", "delete", "deleted"}
Statuses == {"unused", "live", "finished", "deleted"}
Attr == [qname : Names \cup {Zero}, module : Files,
         transport : Objs \cup {None}, engine : Objs \cup {None}]

TypeOK ==
  /\ initialized \in {0, 1}
  /\ phase \in Phases
  /\ iter \in Nat
  /\ modules \subseteq Files
  /\ tried \subseteq Files
  /\ interned \subseteq Names
  /\ list \in Seq(Names \cup {Zero})
  /\ hash \in [Names \cup {Zero} -> Objs \cup {None}]
  /\ status \in [Objs -> Statuses]
  /\ \A o \in Objs : status[o] \in {"live", "finished"} => attr[o] \in Attr
  /\ refcount \in [Objs -> Nat]
  /\ cm_cb_arg \in [Objs -> Objs \cup {None}]
  /\ listening \subseteq Objs
  /\ connected \subseteq Objs

(* vde_context_new *)
Init ==
  /\ initialized = 0
  /\ phase = "run"
  /\ iter = 1
  /\ modules = {}
  /\ tried = {}
  /\ interned = {}
  /\ list = <<>>
  /\ hash = [k \in Names \cup {Zero} |-> None]
  /\ status = [o \in Objs |-> "unused"]
  /\ attr = [o \in Objs |-> None]
  /\ refcount = [o \in Objs |-> 0]
  /\ cm_cb_arg = [o \in Objs |-> None]
  /\ listening = {}
  /\ connected = {}

(* vde_quark_try_string *)
Quark(name) == IF name \in interned THEN name ELSE Zero

Kind(o) == attr[o].module.kind
Running == phase = "run" /\ initialized = 1

-----------------------------------------------------------------------------
(* vde_context_init up to the loop over the module files. *)
vde_context_init ==
  /\ phase = "run"
  /\ list = <<>>
  /\ initialized' = 1
  /\ modules' = {}
  /\ tried' = {}
  /\ phase' \in {"loading", "run"}     \* "run": fts_open has failed
  /\ UNCHANGED <<iter, interned, ordhash, objects>>

(* vde_context_register_module refuses a second module of the same kind    *)
(* and family and one whose operations are missing.                        *)
Registers(f) ==
  /\ f.valid
  /\ \A m \in modules : m.kind # f.kind \/ m.family # f.family

(* One turn of the loop of vde_modules_load: module_try_load fails, or the *)
(* module is registered if it can be; its result is ignored.               *)
module_try_load(f) ==
  /\ phase = "loading"
  /\ f \notin tried
  /\ tried' = tried \cup {f}
  /\ \/ Registers(f) /\ modules' = modules \cup {f}
     \/ UNCHANGED modules
  /\ UNCHANGED <<control, interned, ordhash, objects>>

(* The loop has ended, and fts_close succeeds or fails. *)
LoadingEnds ==
  /\ phase = "loading"
  /\ phase' = "run"
  /\ tried' = {}
  /\ UNCHANGED <<initialized, iter, modules, interned, ordhash, objects>>

-----------------------------------------------------------------------------
(* Mutant: the manager takes a reference on its transport only. *)
RefsTakenOnce(r, o, t, e) == [p \in Objs |-> IF p \in {o, t} THEN r[p] + 1 ELSE r[p]]

(* The context's own reference on o, and those conn_manager_init takes. *)
RefsTaken(r, o, t, e) == [p \in Objs |-> IF p \in {o, t, e} THEN r[p] + 1 ELSE r[p]]

(* Mutant: the key is the quark the name had before it was interned. *)
InsertUnderOldQuark(k, o) ==
  /\ list' = Append(list, Quark(k))
  /\ hash' = [hash EXCEPT ![Quark(k)] = o]

(* vde_ordhash_insert *)
vde_ordhash_insert(k, o) ==
  /\ list' = Append(list, k)
  /\ hash' = [hash EXCEPT ![k] = o]

(* vde_component_new, vde_component_init and the insertion of the new      *)
(* component, which is a connection manager of t and e or has none.        *)
NewComponent(o, m, k, t, e) ==
  /\ status' = [status EXCEPT ![o] = "live"]
  /\ attr' = [attr EXCEPT ![o] = [qname |-> k, module |-> m, transport |-> t, engine |-> e]]
  /\ refcount' = RefsTaken(refcount, o, t, e)
  /\ cm_cb_arg' = [p \in Objs |-> IF p = t THEN o ELSE cm_cb_arg[p]]
  /\ vde_ordhash_insert(k, o)
  /\ UNCHANGED <<listening, connected, control, loading>>

(* What conn_manager_init asks of the components its two names lead to. *)
conn_manager_init(t, e) ==
  /\ t # None /\ Kind(t) = "transport"
  /\ e # None /\ Kind(e) = "engine"

(* vde_context_new_component with a name, or with NULL, whose quark is     *)
(* Zero.  A name in use or a family that is not there changes nothing; an  *)
(* initialisation that fails leaves the name interned.                     *)
vde_context_new_component(o, name, m, tname, ename) ==
  LET t == hash[Quark(tname)]
      e == hash[Quark(ename)]
  IN  /\ Running
      /\ status[o] = "unused"
      /\ hash[Quark(name)] = None
      /\ m \in modules
      /\ interned' = interned \cup ({name} \ {Zero})
      /\ \/ /\ UNCHANGED <<control, loading, ordhash, objects>>
         \/ /\ m.kind # "conn_manager"
            /\ NewComponent(o, m, name, None, None)
         \/ /\ m.kind = "conn_manager"
            /\ conn_manager_init(t, e)
            /\ NewComponent(o, m, name, t, e)

-----------------------------------------------------------------------------
(* The references conn_manager_fini gives back. *)
RefsPut(r, o) ==
  [p \in Objs |-> IF p \in {attr[o].transport, attr[o].engine} THEN r[p] - 1 ELSE r[p]]

(* Mutant: the engine leaves its connections open. *)
FiniKeepsConnections(o) == UNCHANGED links

(* vde_component_fini: an engine closes its connections. *)
vde_component_fini(o) ==
  /\ connected' = connected \ {o}
  /\ UNCHANGED <<cm_cb_arg, listening>>

(* vde_component_delete frees the component and all that was in it. *)
vde_component_delete(o) ==
  /\ status' = [status EXCEPT ![o] = "deleted"]
  /\ attr' = [attr EXCEPT ![o] = None]

(* vde_component_put_if_last *)
PutIfLast(o) == refcount[o] = 1

(* Mutant: the key is left in the list. *)
RemoveFromHash(k) ==
  /\ hash' = [hash EXCEPT ![k] = None]
  /\ UNCHANGED list

(* vde_ordhash_remove *)
vde_ordhash_remove(k) ==
  /\ list' = vde_list_remove(list, k)
  /\ hash' = [hash EXCEPT ![k] = None]

(* vde_context_component_del: EBUSY unless the context's reference is the  *)
(* last one.                                                               *)
vde_context_component_del(o) ==
  /\ Running
  /\ status[o] = "live"
  /\ hash[attr[o].qname] # None
  /\ PutIfLast(o)
  /\ vde_ordhash_remove(attr[o].qname)
  /\ refcount' = [RefsPut(refcount, o) EXCEPT ![o] = @ - 1]
  /\ vde_component_fini(o)
  /\ vde_component_delete(o)
  /\ UNCHANGED <<control, loading, interned>>

(* vde_conn_manager_listen, on a transport that can listen. *)
conn_manager_listen(o) ==
  /\ Running
  /\ status[o] = "live"
  /\ Kind(o) = "conn_manager"
  /\ listening' = listening \cup {attr[o].transport}
  /\ UNCHANGED <<status, attr, refcount, cm_cb_arg, connected>>
  /\ UNCHANGED <<control, loading, interned, ordhash>>

(* A transport accepts a connection and calls its connection manager back, *)
(* which gives the connection to its engine.                               *)
vde_transport_call_cm_accept_cb(t) ==
  /\ Running
  /\ t \in listening
  /\ status[t] = "live"
  /\ status[cm_cb_arg[t]] = "live"
  /\ connected' = connected \cup {attr[cm_cb_arg[t]].engine}
  /\ UNCHANGED <<status, attr, refcount, cm_cb_arg, listening>>
  /\ UNCHANGED <<control, loading, interned, ordhash>>

-----------------------------------------------------------------------------
(* vde_context_fini up to its first loop *)
vde_context_fini ==
  /\ Running
  /\ phase' = "managers"
  /\ iter' = 1
  /\ UNCHANGED <<initialized, loading, interned, ordhash, objects>>

(* Mutant: one pass in the order of the list finishes every component. *)
FinishedInAnyPass(o) == status[o] = "live"

(* Connection managers are finished in the first pass, the rest in the     *)
(* second.                                                                 *)
FinishedInThisPass(o) ==
  \/ phase = "managers" /\ Kind(o) = "conn_manager"
  \/ phase = "others" /\ Kind(o) # "conn_manager"

(* One turn of a loop of vde_context_fini. *)
FiniStep ==
  LET o == hash[list[iter]]
  IN  /\ phase \in {"managers", "others", "delete"}
      /\ iter <= Len(list)
      /\ iter' = iter + 1
      /\ \/ /\ FinishedInThisPass(o)
            /\ status' = [status EXCEPT ![o] = "finished"]
            /\ refcount' = RefsPut(refcount, o)
            /\ vde_component_fini(o)
            /\ UNCHANGED attr
         \/ /\ phase # "delete" /\ ~FinishedInThisPass(o)
            /\ UNCHANGED objects
         \/ /\ phase = "delete"
            /\ vde_component_delete(o)
            /\ UNCHANGED <<refcount, links>>
      /\ UNCHANGED <<initialized, phase, loading, interned, ordhash>>

(* A loop ends; after the last one the ordhash is emptied and deleted and  *)
(* the modules are forgotten.                                              *)
FiniPassEnds ==
  /\ iter > Len(list)
  /\ \/ phase = "managers" /\ phase' = "others"
     \/ phase = "others" /\ phase' = "delete"
     \/ phase = "delete" /\ phase' = "run"
  /\ iter' = 1
  /\ IF phase = "delete"
       THEN /\ initialized' = 0
            /\ list' = <<>>
            /\ hash' = [k \in Names \cup {Zero} |-> None]
            /\ modules' = {}
       ELSE UNCHANGED <<initialized, ordhash, modules>>
  /\ UNCHANGED <<tried, interned, objects>>

vde_context_delete ==
  /\ phase = "run"
  /\ initialized = 0
  /\ phase' = "deleted"
  /\ UNCHANGED <<initialized, iter, loading, interned, ordhash, objects>>

Next ==
  \/ vde_context_init
  \/ \E f \in Files : module_try_load(f)
  \/ LoadingEnds
  \/ \E o \in Objs, name \in Names \cup {Zero}, m \in Files, tname, ename \in Names :
       vde_context_new_component(o, name, m, tname, ename)
  \/ \E o \in Objs : vde_context_component_del(o)
  \/ \E o \in Objs : conn_manager_listen(o)
  \/ \E t \in Objs : vde_transport_call_cm_accept_cb(t)
  \/ vde_context_fini
  \/ FiniStep
  \/ FiniPassEnds
  \/ vde_context_delete

Spec == Init /\ [][Next]_vars

-----------------------------------------------------------------------------
Managers == {o \in Objs : status[o] = "live" /\ Kind(o) = "conn_manager"}

(* The list and the hash table of the ordhash hold the same keys, each     *)
(* once, and until the last pass of the shutdown each leads to a component *)
(* of that name: the assertions of vde_ordhash_insert, _remove and         *)
(* _entry_lookup cannot fail.                                              *)
ListMatchesHash ==
  /\ Range(list) = {k \in Names \cup {Zero} : hash[k] # None}
  /\ IsInjective(list)
  /\ phase # "delete" => \A k \in Range(list) : attr[hash[k]].qname = k

(* A component's reference count is the context's reference and one for    *)
(* each connection manager that uses it, in every pass of the shutdown.    *)
RefcountExact ==
  \A o \in Objs : status[o] = "live" =>
    refcount[o] = 1 + Cardinality({c \in Managers : attr[c].transport = o})
                    + Cardinality({c \in Managers : attr[c].engine = o})

(* A connection manager that is alive never holds a pointer to a transport *)
(* or an engine that was finished or freed: component_del refuses, and     *)
(* vde_context_fini finishes the managers first.                           *)
ReferencesAlive ==
  \A c \in Managers : /\ status[attr[c].transport] = "live"
                      /\ status[attr[c].engine] = "live"

(* vde_context_get_component finds every component under its own name, and *)
(* under any other name nothing but the component whose name is NULL: its  *)
(* quark is also that of all the strings never interned.                   *)
LookupByName ==
  Running =>
    /\ \A o \in Objs : status[o] = "live" => hash[Quark(attr[o].qname)] = o
    /\ \A name \in Names :
         hash[Quark(name)] # None => attr[hash[Quark(name)]].qname \in {name, Zero}

(* An engine that has connections is alive: one that is finished, by       *)
(* component_del or in the shutdown, has closed them, and gets no new ones *)
(* from the transports that still listen.                                  *)
ConnectionsServed == \A e \in connected : status[e] = "live"
=============================================================================
