------------------------------ MODULE RTimeout ------------------------------
(***************************************************************************)
(* Timeouts of the libevent handler (libevent_handler.c).  libevent knows  *)
(* only timeouts that fire once; a timeout added with VDE_EV_PERSIST gets  *)
(* rtimeout_cb as its callback, which calls the user's callback and then   *)
(* adds the event again.  The user's callback may itself add timeouts and  *)
(* delete others, but not its own: "this breaks if timeout_del is called    *)
(* inside the cb" (rtimeout_cb).                                           *)
(***************************************************************************)
EXTENDS FiniteSets, Integers

CONSTANTS
  Timeouts,      \* the timeouts, each added once
  None           \* not a timeout

ASSUME TimeoutAssumption == None \notin Timeouts

VARIABLES
  memory,       \* of each timeout: "new", "alloc" or "freed"
  persist,      \* the timeouts added with VDE_EV_PERSIST
  scheduled,    \* the timeouts whose event libevent will fire
  running,      \* the timeout whose user callback runs, or None
  fired         \* the timeouts that have fired: history

vars == <<memory, persist, scheduled, running, fired>>

TypeOK ==
  /\ memory \in [Timeouts -> {"new", "alloc", "freed"}]
  /\ persist \subseteq Timeouts
  /\ scheduled \subseteq Timeouts
  /\ running \in Timeouts \cup {None}
  /\ fired \subseteq Timeouts

Init ==
  /\ memory = [t \in Timeouts |-> "new"]
  /\ persist = {}
  /\ scheduled = {}
  /\ running = None
  /\ fired = {}

(* libevent_timeout_add, with or without VDE_EV_PERSIST. *)
libevent_timeout_add(t, recurs) ==
  /\ memory[t] = "new"
  /\ memory' = [memory EXCEPT ![t] = "alloc"]
  /\ persist' = IF recurs THEN persist \cup {t} ELSE persist
  /\ scheduled' = scheduled \cup {t}
  /\ UNCHANGED <<running, fired>>

(* libevent_timeout_del *)
libevent_timeout_del(t) ==
  /\ memory[t] = "alloc"
  /\ t # running
  /\ scheduled' = scheduled \ {t}
  /\ memory' = [memory EXCEPT ![t] = "freed"]
  /\ UNCHANGED <<persist, running, fired>>

(* The time has come: libevent takes the event off its list and calls the  *)
(* user's callback, through rtimeout_cb if the timeout recurs.             *)
Fire(t) ==
  /\ running = None
  /\ t \in scheduled
  /\ scheduled' = scheduled \ {t}
  /\ running' = t
  /\ fired' = fired \cup {t}
  /\ UNCHANGED <<memory, persist>>

(* Mutant: a recurring timeout is not added again. *)
ReturnsOnce ==
  /\ running # None
  /\ running' = None
  /\ UNCHANGED <<memory, persist, scheduled, fired>>

(* Mutant: every timeout is added again. *)
ReturnsAlways ==
  /\ running # None
  /\ scheduled' = scheduled \cup {running}
  /\ running' = None
  /\ UNCHANGED <<memory, persist, fired>>

(* The user's callback returns; rtimeout_cb adds the event again. *)
rtimeout_cb ==
  /\ running # None
  /\ scheduled' = IF running \in persist THEN scheduled \cup {running} ELSE scheduled
  /\ running' = None
  /\ UNCHANGED <<memory, persist, fired>>

Next ==
  \/ \E t \in Timeouts, recurs \in BOOLEAN : libevent_timeout_add(t, recurs)
  \/ \E t \in Timeouts : libevent_timeout_del(t)
  \/ \E t \in Timeouts : Fire(t)
  \/ rtimeout_cb

(* Time passes, event_dispatch takes the timeouts in the order they are    *)
(* due, and a callback returns.  Nobody has to add or delete a timeout.    *)
Spec ==
  /\ Init
  /\ [][Next]_vars
  /\ \A t \in Timeouts : SF_vars(Fire(t))
  /\ WF_vars(rtimeout_cb)

-----------------------------------------------------------------------------
(* A timeout is called "until timeout_del is called" (vde3.h): outside its  *)
(* own callback it is scheduled exactly if it was not deleted, and recurs   *)
(* or has not fired yet.  None gets lost by what the callbacks of others    *)
(* add and delete, none fires once too often, and libevent keeps no event   *)
(* in freed memory.                                                         *)
ScheduledExactly ==
  \A t \in Timeouts : t # running =>
    (t \in scheduled <=> memory[t] = "alloc" /\ (t \in persist \/ t \notin fired))

(* A recurring timeout is called over and over until it is deleted. *)
Recurs ==
  \A t \in Timeouts : (t \in persist) ~> []<>(memory[t] = "freed" \/ running = t)
=============================================================================
