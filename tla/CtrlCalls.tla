----------------------------- MODULE CtrlCalls -----------------------------
(***************************************************************************)
(* Method calls on the control engine, together with CtrlNotify and the    *)
(* hubs (engine_hub.c) whose commands and signals the calls are about.     *)
(* A client sends strings; ctrl_engine_deserialize_string answers each     *)
(* with one reply, an error or the result of a command; and a hub raises   *)
(* port_new and port_del with its number of ports.                         *)
(*                                                                         *)
(* What a client can conclude from the replies and notices written to it   *)
(* is kept in the history variable view, which no action of the library    *)
(* reads: the question is whether it is right.  A message counts when it   *)
(* is written; CtrlOut is about its way to the client.                     *)
(*                                                                         *)
(* A string that names a component and something in it, separated by a     *)
(* dot, is a pair; one that check_split_path refuses is NoDot.             *)
(***************************************************************************)
EXTENDS CtrlNotify

CONSTANTS
  Ctrl,        \* the name of the control engine's component
  MaxPorts     \* ports of a hub, for model checking

ASSUME CallsAssumption ==
  /\ Sigs = {"port_new", "port_del"}
  /\ Ctrl \notin Comps
  /\ MaxPorts \in Nat

VARIABLES
  ports,       \* of each hub, the length of hub_engine.ports
  view         \* of each client, what it can conclude

callvars == <<ports, view>>

Unknown == -1
NoDot == <<"no dot">>
IntParam == <<"int">>

(* A client that has been told nothing. *)
NoView == [attached |-> {}, ports |-> [c \in Comps |-> Unknown]]

CallsInit ==
  /\ Init
  /\ ports = [c \in Comps |-> 0]
  /\ view = [cc \in Clients |-> NoView]

CallsTypeOK ==
  /\ ports \in [Comps -> Nat]
  /\ view \in [Clients -> [attached : SUBSET Paths, ports : [Comps -> Nat \cup {Unknown}]]]

-----------------------------------------------------------------------------
(* Requests and what is sent back. *)

(* A string from a client: not JSON; or JSON, but not a call with a method *)
(* name, an array of parameters and an id that is not negative; or a call. *)
(* A parameter is an integer or a string; the strings that matter are      *)
(* those that look like the path of a signal.                              *)
Strings == Paths \cup {<<c, "no such signal">> : c \in Comps} \cup {<<Ctrl, "port_new">>, NoDot}

Params == {<<>>, <<IntParam>>} \cup {<<s>> : s \in Strings}

Methods ==
  {NoDot} \cup ((Comps \cup {Ctrl}) \X {"notify_add", "notify_del", "status", "printport"})

Requests ==
  [form : {"call"}, method : Methods, params : Params]
    \cup [form : {"not JSON", "not a call"}, method : {NoDot}, params : {<<>>}]

(* rpc_10_sobj_validate_call *)
ValidCall(r) == r.form = "call"

(* check_split_path: there is a dot, with a name on either side. *)
WellFormed(s) == s # NoDot

(* rpc_10_build_reply: a result, which matters only when it is a number,   *)
(* or an error; the id is the request's.                                   *)
Reply(result) == [result |-> result, error |-> ""]

(* rpc_XX_build_error_reply: the message is left out. *)
ErrorReply(errno) == [result |-> Unknown, error |-> errno]

(* rpc_10_build_notice *)
Notice(p, n) == [method |-> p, params |-> n]

-----------------------------------------------------------------------------
(* What a client concludes. *)

(* It is now, or no longer, attached to p: what it knew of the hub's ports *)
(* may have changed before.                                                *)
Told(v, p, attached) ==
  [attached |-> IF attached THEN v.attached \cup {p} ELSE v.attached \ {p},
   ports |-> [v.ports EXCEPT ![p[1]] = Unknown]]

(* It knows the number of ports: it will hear of every change only if it   *)
(* is attached to both signals.                                            *)
Counted(v, c, n) ==
  IF {c} \X Sigs \subseteq v.attached
    THEN [v EXCEPT !.ports = [@ EXCEPT ![c] = n]]
    ELSE v

(* The reply to a call of notify_add or notify_del.  An error that says it *)
(* is, or is not, attached tells it something only if it believed the      *)
(* opposite.                                                               *)
ReadsNotify(v, command, p, error) ==
  CASE error = "" -> Told(v, p, command = "notify_add")
    [] error = "ENOENT" /\ p \in v.attached -> Told(v, p, FALSE)
    [] error = "EEXIST" /\ p \notin v.attached -> Told(v, p, TRUE)
    [] OTHER -> v

(* The reply to any request. *)
AboutSignal(r) ==
  /\ ValidCall(r)
  /\ r.method \in {Ctrl} \X {"notify_add", "notify_del"}
  /\ r.params \in {<<p>> : p \in Paths}

AboutPorts(r) == ValidCall(r) /\ r.method \in Comps \X {"status"}

Reads(v, r, reply) ==
  CASE AboutSignal(r) -> ReadsNotify(v, r.method[2], r.params[1], reply.error)
    [] AboutPorts(r) /\ reply.error = "" -> Counted(v, r.method[1], reply.result)
    [] OTHER -> v

ReadsNotice(v, notice) == Counted(v, notice.method[1], notice.params)

-----------------------------------------------------------------------------
(* The calls. *)

(* vde_context_get_component: the component is there. *)
Present(c) == IF c = Ctrl THEN engine = "up" ELSE signals[c] # {}

(* vde_component_command_get: the commands registered by engine_ctrl_init  *)
(* and engine_hub_init.                                                    *)
Commands(c) == IF c = Ctrl THEN {"notify_add", "notify_del"} ELSE {"status", "printport"}

(* The parameters that the generated wrapper of a command accepts. *)
Accepts(command, params) ==
  CASE command = "status" -> params = <<>>
    [] command = "printport" -> params = <<IntParam>>
    [] OTHER -> Len(params) = 1 /\ params[1] # IntParam

(* The errno of a request that calls no function of a component, or "". *)
Refusal(r) ==
  IF ~ValidCall(r) \/ ~WellFormed(r.method) THEN "EINVAL"
  ELSE IF ~Present(r.method[1]) \/ r.method[2] \notin Commands(r.method[1]) THEN "ENOENT"
  ELSE IF ~Accepts(r.method[2], r.params) THEN "EINVAL"
  ELSE ""

(* Mutant: a failed attach is always reported as ENOENT. *)
AddErrnoLost(cc, p) ==
  IF ~WellFormed(p) THEN "EINVAL"
  ELSE IF p \notin Paths \/ ~Attaches(cc, p) THEN "ENOENT"
  ELSE ""

(* The errno of engine_ctrl_notify_add: the path is not well-formed, the   *)
(* component or its signal is not found, or the connection is attached.    *)
AddError(cc, p) ==
  IF ~WellFormed(p) THEN "EINVAL"
  ELSE IF p \notin Paths \/ ~Registered(p) THEN "ENOENT"
  ELSE IF ~Attaches(cc, p) THEN "EEXIST"
  ELSE ""

(* The errno of engine_ctrl_notify_del: the connection has no such path,   *)
(* which is looked for first (so that EINVAL, for a path without a dot, is *)
(* not reached), or it cannot be detached from the signal.                 *)
DelError(cc, p) ==
  IF /\ p \in Paths
     /\ \E q \in Range(reg_signals[cc]) : Matches(q, p)
     /\ Registered(p)
     /\ cc \in Range(callbacks[p])
    THEN ""
    ELSE "ENOENT"

(* The errno of a request: whether a function of a component refuses it. *)
CallError(cc, r) ==
  IF Refusal(r) # "" THEN Refusal(r)
  ELSE CASE r.method[2] = "notify_add" -> AddError(cc, r.params[1])
         [] r.method[2] = "notify_del" -> DelError(cc, r.params[1])
         [] OTHER -> ""

(* Mutant: errno is set when the detach has worked, and taken for a        *)
(* failure.                                                                *)
AnswerDelFails(cc, r) ==
  IF CallError(cc, r) # "" THEN ErrorReply(CallError(cc, r))
  ELSE CASE r.method[2] = "notify_del" -> ErrorReply("EINVAL")
         [] r.method[2] = "status" -> Reply(ports[r.method[1]])
         [] OTHER -> Reply(Unknown)

(* The one reply to a request; engine_hub_status gives the number of ports *)
(* and the other commands a text.                                          *)
Answer(cc, r) ==
  IF CallError(cc, r) # "" THEN ErrorReply(CallError(cc, r))
  ELSE IF r.method[2] = "status" THEN Reply(ports[r.method[1]])
  ELSE Reply(Unknown)

(* What the command does besides: only the two builtin ones, which get the *)
(* connection, change anything.                                            *)
Nothing ==
  /\ UNCHANGED <<signals, callbacks, finishing, ctrl_conns, conn, reg_signals, engine>>
  /\ notified' = {}

Effect(cc, r) ==
  \/ CallError(cc, r) # "" /\ Nothing
  \/ /\ CallError(cc, r) = ""
     /\ \/ r.method[2] = "notify_add" /\ engine_ctrl_notify_add(cc, r.params[1])
        \/ r.method[2] = "notify_del" /\ engine_ctrl_notify_del(cc, r.params[1])
        \/ r.method[2] \in {"status", "printport"} /\ Nothing

(* ctrl_engine_deserialize_string: one string of a connection that is up,  *)
(* while no component is being finalised.                                  *)
ctrl_engine_deserialize_string(cc, r) ==
  /\ Idle
  /\ conn[cc] = "up"
  /\ Effect(cc, r)
  /\ view' = [view EXCEPT ![cc] = Reads(@, r, Answer(cc, r))]
  /\ UNCHANGED ports

-----------------------------------------------------------------------------
(* The hubs. *)

(* signal_callback: the clients attached to the signal that is raised get  *)
(* a notice with the number of ports.                                      *)
Noticed(p, n) ==
  [cc \in Clients |->
     IF <<cc, p>> \in notified' THEN ReadsNotice(view[cc], Notice(p, n)) ELSE view[cc]]

(* hub_engine_newconn *)
hub_engine_newconn(c) ==
  /\ ports[c] < MaxPorts
  /\ ports' = [ports EXCEPT ![c] = @ + 1]
  /\ vde_component_signal_raise(<<c, "port_new">>)
  /\ view' = Noticed(<<c, "port_new">>, ports'[c])

(* Mutant: the length is taken before the port is removed. *)
ErrorCountsFirst(c) ==
  /\ ports[c] > 0
  /\ ports' = [ports EXCEPT ![c] = @ - 1]
  /\ vde_component_signal_raise(<<c, "port_del">>)
  /\ view' = Noticed(<<c, "port_del">>, ports[c])

(* hub_engine_errorcb, for a fatal error of a port *)
hub_engine_errorcb(c) ==
  /\ ports[c] > 0
  /\ ports' = [ports EXCEPT ![c] = @ - 1]
  /\ vde_component_signal_raise(<<c, "port_del">>)
  /\ view' = Noticed(<<c, "port_del">>, ports'[c])

(* engine_hub_init *)
engine_hub_init(c) ==
  /\ vde_component_signals_register(c)
  /\ UNCHANGED callvars

(* engine_hub_fini: it closes its ports, raising nothing, and deregisters  *)
(* commands and signals.                                                   *)
engine_hub_fini(c) ==
  /\ vde_component_signals_deregister(c)
  /\ ports' = [ports EXCEPT ![c] = 0]
  /\ UNCHANGED view

(* The client of a signal that goes is told nothing. *)
SignalDel(s) ==
  /\ vde_component_signal_del(s)
  /\ UNCHANGED callvars

-----------------------------------------------------------------------------
(* The connections and the engine. *)
NewConn(cc) ==
  /\ ctrl_engine_newconn(cc)
  /\ UNCHANGED callvars

ConnFini(cc) ==
  /\ ctrl_conn_fini(cc)
  /\ view' = [view EXCEPT ![cc] = NoView]
  /\ UNCHANGED ports

EngineFini ==
  /\ engine_ctrl_fini
  /\ UNCHANGED callvars

EngineFiniConn ==
  /\ FiniConn
  /\ view' = [view EXCEPT ![Head(ctrl_conns)] = NoView]
  /\ UNCHANGED ports

EngineFiniEnds ==
  /\ FiniEnds
  /\ UNCHANGED callvars

CallsNext ==
  \/ \E c \in Comps :
       \/ engine_hub_init(c)
       \/ engine_hub_fini(c)
       \/ hub_engine_newconn(c)
       \/ hub_engine_errorcb(c)
  \/ \E s \in Sigs : SignalDel(s)
  \/ \E cc \in Clients :
       \/ NewConn(cc)
       \/ ConnFini(cc)
       \/ \E r \in Requests : ctrl_engine_deserialize_string(cc, r)
  \/ EngineFini
  \/ EngineFiniConn
  \/ EngineFiniEnds

CallsSpec == CallsInit /\ [][CallsNext]_<<vars, callvars>>

-----------------------------------------------------------------------------
(* A client that is attached to both signals of a hub, and has been told a *)
(* number of ports since, knows how many ports the hub has: replies of     *)
(* status and notices tell one story, in whatever order they come.         *)
KnowsPorts ==
  \A cc \in Clients, c \in Comps :
    /\ finishing # c
    /\ {c} \X Sigs \subseteq Range(reg_signals[cc])
    /\ view[cc].ports[c] # Unknown
    => view[cc].ports[c] = ports[c]

(* The engine never holds a registration that the replies, read as the     *)
(* client must read them, deny: no notice comes unasked.                   *)
KnowsSubscriptions ==
  \A cc \in Clients : Range(reg_signals[cc]) \subseteq view[cc].attached

(* A client comes to believe wrongly that it is attached only when the     *)
(* component goes, of which signal_destroy_callback does not tell it; no   *)
(* reply, and nothing that another client does, misleads it.               *)
Misled == {s \in Clients \X Paths : s[2] \in view[s[1]].attached \ Range(reg_signals[s[1]])}

OnlyEndMisleads ==
  [][\A s \in Misled' \ Misled : finishing = s[2][1]]_<<vars, callvars>>
=============================================================================
