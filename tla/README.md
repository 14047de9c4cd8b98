# vde3 in TLA+

This directory specifies [vde3](../src/README.rst), an event-based C library for
building virtual network tools, checks the specifications with TLC and proves
their main properties with TLAPS. Every definition is translated from the C code;
`PROJECT.json` maps each one to its lines.

## The system

The library runs in **one thread**. An application creates a *context*, creates
*components* in it (a *transport*, an *engine*, and a *connection manager* that ties
the two together) and then runs an event loop (libevent). Each event handler runs to
its end before the next one starts. What makes the code hard is therefore not
preemption but **re-entrancy and order**: a handler calls back into an engine, which
may write to or close the connection whose handler is running; components refer to
each other and are finalised one by one; peers stop, vanish and send in pieces.

| part | state | operations | what is hard |
|---|---|---|---|
| vde2 connection (`transport_vde2.c`) | send queue, three events | write, read, send loop, close | callbacks inside the send loop, bounded retries, closing from inside a handler |
| vde2 listening and handshake (`transport_vde2.c`) | pending list, stage and socket name of each client, descriptors | listen, accept, get request, send reply, error | eleven error paths, names cut by `sun_path`, descriptor numbers that are reused |
| connection manager (`conn_manager.c`) | its pending list, references to a transport and an engine | init, listen, connect, accept callback, fini | what is left behind by a connect that fails or a manager that goes |
| hub (`engine_hub.c`) | list of ports | new connection, broadcast, error, fini | ports that stall, fail or leave during traffic; the announced number of ports |
| local connections (`localconnection.c`) | peer pointers | connect, write, close | a write is a call: recursion through the network, closes that close each other |
| context and components (`context.c`, `component.c`, `module.c`, `vde_ordhash.c`) | ordered hash, reference counts, modules | init, load, create, look up, delete, fini | the order of the shutdown, references between components |
| control engine (`engine_ctrl.c`) and signals (`signal.c`) | connections, registrations on both sides, in and out buffers | method calls, notify_add, notify_del, raise, read, write, fini | two records of one registration, either side going first; what a client may conclude from replies and notices; streams cut anywhere |
| timeouts (`libevent_handler.c`) | recurring timeouts | add, delete, fire | deletion inside callbacks |

They interact as follows. A transport hands an established connection to the
connection manager, which gives it to its engine; the engine installs callbacks and
writes packets. The hub raises `port_new` and `port_del`; the control engine passes
signals on to the control connections that asked for them, and calls the commands of
the other components for its clients. The context owns all components and finalises
them.

## Modules

| module | models | correspondence |
|---|---|---|
| `Vde2Queue` | `pkt_queue` and its retry counter | operators on a sequence, front = next to send; shared by `Vde2Conn` and `Hub` |
| `Vde2Conn` | one established connection | `handler` says where in the current handler the thread is; the calls an engine makes from a callback are steps of their own |
| `LossyFifo` | *abstract*: what a connection promises to its engine | refined by `Vde2Conn` and by each port of `Hub` |
| `Hub` | the hub over vde2 ports | `ports`, plus a queue and a write event per port |
| `Vde2Handshake` | listening, handshake, hand-over to the connection manager | `stage` and the armed handler of each client; names as `LocalPath(n)`, including the cut |
| `Vde2Fds` | the descriptor table under `Vde2Handshake` | every step is the conjunction of a handshake step and its effect on the table |
| `Context` | context, component life cycle, ordered hash, module loading | the loops of the shutdown and of the loading are stepwise (`phase`, `iter`) |
| `PubSub` | *abstract*: what notifications promise to clients | refined by `CtrlNotify` |
| `CtrlNotify` | registrations of control connections with signals | `reg_signals` (connection's record) and `callbacks` (signal's record) |
| `CtrlCalls` | method calls, and the hubs whose commands and signals they are about | extends `CtrlNotify`: each step is a step of it, or none, together with the reply; `view` (history) is what each client can conclude from what was written to it |
| `CtrlOut` | sending half of a control connection | `out_queue` above the backend's `pkt_queue` |
| `CtrlIn` | receiving half | one step per round of the loop of `ctrl_split_payload`; `buf` is what is left of the packet |
| `HubNet` | hubs joined by local connections | `stack` is the call stack of `hub_engine_readcb`; two hubs are joined if every set of hubs that has the one and that no connection leaves has the other |
| `RTimeout` | timeouts, recurring or not | `memory`, `scheduled` and the callback that runs |
| `VdeList` | the list macros of `common.h` | operators on sequences; used wherever the code keeps a `vde_list` |
| `MC*` | symmetry sets and structured constants for TLC | |
| `Vde2ConnProofs`, `Vde2HandshakeProofs`, `HubProofs`, `ContextProofs`, `CtrlCallsProofs`, `CtrlConnProofs`, `CallbackProofs`, `ListRemoval` | proofs | see below |

Conventions. Definitions keep the names of the C functions. What the kernel, a peer
or an engine decides is nondeterministic. `vde_alloc` and `vde_calloc` end the program
when memory runs out, so their error branches are not taken. Variables called
*history* decide nothing: actions read them only for a bound or for other history. Operators marked *Mutant* are deliberately wrong
variants of the definition that follows: with one in its place TLC must find the
property it is listed with violated, which shows that the property depends on the code.

## What the runs check

### Runs that pass

| run | instance | distinct states | shows |
|---|---|---|---|
| `vde2_conn` | queue of 2, 1 retry, 5 packets, two sizes | 881 | a waiting packet always has its event; each packet is in exactly one place and is tried a bounded number of times; a close from any handler leaves neither event nor packet; every packet eventually leaves and an idle connection disarms its event; the connection implements `LossyFifo`, so its queue is bounded and packets leave in order |
| `hub` | 3 connections, 3 frames, queues of 2, 1 retry | 403,551 | the port list is exactly the live connections; no frame comes back, is overtaken or repeated; each port is a lossy FIFO whatever happens on the others |
| `vde2_handshake` | `Vde2Fds` with 3 clients, names that fit, descriptors 0..8 | 579,261 | the pending list and the armed handler match each client's stage on all paths; listening again never disturbs the listener; every established connection owns its socket name; the manager forgets what it handed over; no path leaks a descriptor and none is taken from its owner, descriptor 0 excepted |
| `context` | 4 objects, 3 names, 5 module files | 63,844 | reference counts are exact and references alive in every pass of the shutdown; the ordered hash is consistent and leads every name to its component; engines with connections are alive |
| `calls` | `CtrlCalls` with a hub of up to 2 ports and 2 clients, every kind of request | 5,239 | both records of a registration agree and no callback dangles; notices reach exactly the subscribers (`PubSub`); a client attached to both signals knows the number of ports; the engine holds no registration its replies deny; only the end of the component makes a client believe wrongly that it is attached |
| `ctrl_out` | 3 messages of 1, 3, 7 or 9 bytes, payload 3, backend queue of 2 | 50,102 | the stream stays contiguous through both queues; packets wait only behind a full queue unless some were dropped; without drops everything is sent |
| `ctrl_in` | streams of up to 7 bytes, packets of up to 4, `inbuf` of 3 | 17,350 | the strings are exactly those of the stream however it is cut; the connection is closed exactly for an unfinished string that is too long |
| `hubnet` | 4 hubs, every network without cycles | 20,527 | each hub of the network handles a frame exactly once; the recursion returns; ports are mirrored at the other end |
| `rtimeout` | 3 timeouts | 1,215 | exactly the right timeouts are scheduled; recurring ones recur |

**Bounds.** Each is the smallest at which the interesting cases meet. A queue of 2
becomes full with a packet in front of another; one retry tells a first failure from
the last; 5 packets refill the queue after it was full. Three ports are a sender and
two receivers in different states. With three clients one can fail while another waits
and a third is established. Descriptor 8 leaves room for two sockets per client. Four objects are a
transport, an engine, a manager and one more. One hub with both signals and two
clients has every order of replies and notices; a second hub shares nothing with it but
the code, and the proofs cover any number of both. Message lengths are below, equal to
and above the payload, and a multiple of it. `MaxPkts`, `MaxFrames`, `MaxMsgs`,
`MaxPkt`, `MaxStream`, `MaxFd`, `MaxPorts` and `SEEN` exist only for TLC.

**Symmetry** is used for connections, clients, components and objects, only in runs
without liveness properties. **Deadlock** is checked where the system never stops
(`Vde2Fds`, `CtrlCalls`, `CtrlNotify`); elsewhere a closed connection, a
deleted context or an exhausted bound ends the behaviour.

**Fairness.** `Vde2Conn`: a handler that started goes on and a callback returns (weak
fairness), since a handler runs to its end; the write event fires if it is armed again
and again (strong), since libevent serves every active event in each round and
the event also has a timeout. `CtrlOut`: in addition the peer reads, so the property
speaks only of connections that drop nothing. `HubNet`: a recursion that started goes
on. `RTimeout`: due timeouts fire and callbacks return. Otherwise peers and
applications are never obliged to do anything.

### Runs that end in a violation

Each shows that the code does something other than what a line of the repository says;
`PROJECT.json` quotes the line.

| run | what the code does |
|---|---|
| `vde2_long_dir` | a directory of 103 characters passes the length check, but the socket names are cut and connections share one |
| `notify_fini` | finalising the control engine reads a freed connection; if the memory was reused, callbacks dangle |
| `ctrl_in_tail` | a string that came in two packets is passed on without its terminator |

The passing runs exclude exactly these cases by a constant (`DirLen`, `FreedContext`,
`Tails`).

### Other observations

Met while translating the code, and not the subject of a run:

- a packet is tried `send_maxtries + 1` times; `AttemptsBounded` states that bound;
- a delayed packet is freed although the error callback answers `EAGAIN`; the model
  does the same;
- a client that fails early closes descriptor 0, since its descriptors start as 0;
  `OnlyZeroIsTaken` states that no other descriptor is lost;
- a connect that fails stays in the manager's pending list; `ManagerForgets` speaks
  of connections that were handed over;
- with remote authorization, which `TODO` lists, an accepted connection has events but
  no callbacks; the runs set `RemoteAuthorization` to FALSE, the default;
- a component created without a name is found under every unknown name;
  `LookupByName` allows for it;
- a deleted manager stays attached to its transport, a listening transport leaves its
  accept event armed; the shutdown clears the event handler before engines close their
  connections;
- the control engine leaves its commands registered when it is finalised, against the
  assertion in `vde_component_fini`; it fails in a build that keeps assertions;
- a client is told nothing when the component whose signal it asked for goes, and is
  not attached to a later one of the same name: `OnlyEndMisleads` states that nothing
  else misleads it;
- closing one end of a local connection dereferences the NULL peer of the other. In
  `HubNet` this ends the behaviour, so nothing is claimed of what would follow;
- local connections have payload size 0, against the assertion in
  `vde_connection_init`; `CtrlOut` assumes a positive one;
- a recurring timeout deleted in its own callback is scheduled again. A comment in the
  code knows, and `RTimeout` leaves that call out.

## What is proved

TLAPS checks the following for **every** value of the constants.

**`Vde2ConnProofs`** (from `MAXQLENAssumption`, `ConnAssumption`): `TypeCorrect`,
`QueueIsServed` (`ArmedWhileQueued` and `QueueBounded`), `CloseIsComplete`,
`PacketsAccounted`, `OrderAndAttempts` and `Refinement` (the connection implements
`LossyFifo`). The properties are not inductive: that packets are sent in order depends
on what is in the queue. The invariant adds that the queue is exactly the last packets
written, in order (`QueueIsSuffix`), that only its front has been tried and how often
(`TriesCounted`), and that everything before it is split between `sent`, which is
sorted, and `dropped` (`ResolvedSplit`, `SentSorted`). The refinement follows because
`resolved` is `written - Len(pkt_queue)`.

**`Vde2HandshakeProofs`** (from `HandshakeAssumption` and, for the descriptors,
`FdsAssumption`): `TypeCorrect`, `PendingIsExact`, `EventsMatch`, `ListenerIsKept`, and
`PathsOwnedWhileNamesFit`: while the numbers used so far fit in `sun_path`, each
established connection owns its name. That needs two more facts: the names in use come
from numbers already counted (`NamesUsed`), and no two are equal (`NamesDistinct`), so
that the name the next handshake unlinks is nobody's. The hypothesis `NamesFit` is what
`vde2_long_dir` violates. `ManagerAlwaysForgets` assumes that there is no remote
authorization. `NeverLeaksFd` and `OnlyZeroIsEverTaken` are about `Vde2Fds`: every step
on the table is a step of the handshake, and the invariant adds that `data_fd` is 0, as
calloc left it, as long as the data socket does not exist (`ZeroUntilCreated`), so that
the only number a close can take from another owner is 0.

**`HubProofs`** (from `HubAssumption`): `TypeCorrect`, `PortsAlwaysLive`,
`AnnouncedIsCount`, `FramesAlwaysInOrder` and `PortsAreLossyFifos`. Every step of the
hub is, on each connection, one of the few steps of a channel: nothing, a push, a pop, a
retry or a close (`ChannelStep`). The invariant `Channel(c)` says that the packets in
the queue of `c` are the last it accepted, that those it delivered came before them, and
that all are frames of others in the order they were read; it is preserved by each of
these steps, whichever handler takes it.

**`ContextProofs`** (from `ContextAssumption`): `TypeCorrect`,
`OrdhashAlwaysConsistent`, `RefcountsAlwaysExact`, `ReferencesAlwaysAlive`,
`LookupAlwaysByName` and `ConnectionsAlwaysServed`. That a reference is alive in the
shutdown depends on how far it has come: the invariant says of each position in the list
what has become of its component in the current pass (`Progress`), that a present
component and its key lead to each other (`Held`) and no two keys to the same one
(`Hashed`), and that a live manager refers to a live transport and a live engine
(`Linked`), which are hence two components. The reference counts are then a matter of
adding an element to, or removing one from, the finite sets of managers that use a
component.

**`CtrlCallsProofs`**, first about `CtrlNotify`: `TypeCorrect`, `RecordsAlwaysAgree`,
`NeverDangling`, `NeverAttachedTwice` and `NotificationsServe` (every step is a step of
`PubSub`). They assume `Sound`: no signal name is a prefix of another (true of the hub's
signals), and the context can still be read from the freed connection when the engine is
finalised. The second is an assumption about memory that the C code does not guarantee;
`notify_fini` shows what happens without it. The invariant adds that a connection that
is not up has no registrations, without which its successor steps could not be shown to
keep the records in agreement.

Then about `CtrlCalls` (from `CallsAssumption` and `Sound`): `RecordsStillAgree`,
`ClientsKnowPorts`, `ClientsKnowSubscriptions` and `NothingElseMisleads`. Every step of
`CtrlCalls` is a step of `CtrlNotify` or leaves it alone, so its invariant carries over.
To it are added that only registered signals have callbacks (`OnlyRegistered`), so that
an attached client is among those notified, and that an engine that is down has no
connections.

**`CtrlConnProofs`**, the two halves of a control connection. About `CtrlOut` (from
`OutAssumption`), for messages, payloads and queues of any length: `StreamIsUnbroken`
and `WaitsOnlyBehindFull`. The invariant `OutInv` adds that each packet is a piece of a
message that was written, which the next write must not disturb, that an open connection
which lost nothing has packets of all that was written, so that a new message begins
where the last one ended, and that a closed one has none left. The arithmetic is in one
lemma: the chunks of a message are consecutive and end with its last byte (`ChunksCut`),
also when its length is a multiple of the payload.

About `CtrlIn` (from `InAssumption`), for packets, strings and buffers of any size:
`InTypeCorrect` (`inbuf` holds at most `MAX_INBUF_SZ` bytes), `ClosedOnlyForLong`,
`SplitButForTails`, and `SplitExactly`, which assumes that `Tails` has nothing but the
empty string, the assumption about memory that `ctrl_in_tail` drops. The invariant
`InInv` says of each byte in `inbuf` and in `buf` where in the stream it is from, so
that the separator found in `buf` is the next one of the stream.

**`CallbackProofs`**, callbacks that run inside callbacks. About `HubNet` (from
`NetAssumption`), for any set of hubs: `NetTypeCorrect`, `PortsAlwaysMirrored` and
`FrameReachesNetwork`, that a frame is handled exactly once by every hub joined to the
one that read it and by no other. That the hubs form no cycle is stated without paths,
which would need induction: each connection is the only one across some cut of the hubs
(`Forest`), and two hubs are joined if no closed set separates them. Joining two hubs
that are not joined keeps this, with the closed set as the new connection's cut. On top
of it the invariant `NetInv` says of the recursion that each call on the stack was made
by the one under it (`CallsNested`), that a port a loop has yet to come to leads to a
hub that has not seen the frame and one it has passed to a hub that has, and that a
frame which has not crossed a cut is on one side of it (`OneSided`). The last gives that
no hub is entered twice; once the stack is empty the hubs that have seen the frame are a
closed set, so all that are joined are among them.

About `RTimeout` (from `TimeoutAssumption`): `AlwaysScheduledExactly`. The property says
nothing of the timeout whose callback runs; the invariant adds that it has fired, is off
libevent's list and is still allocated.

**`ListRemoval`** holds the lemmas about lists of distinct elements (removal,
prepending, appending, head and tail) that the others share.

**Only model-checked:** liveness (`EveryPacketLeaves`, `IdleDisarms`, `EverythingSent`,
`Returns`, `Recurs`), since the prover does not handle fairness or ENABLED. Of the
safety properties that the runs check none is left.

**Only proved:** the type invariants that no run lists, `QueueBounded`, `SentInOrder`,
`AttachedOnce`, `AnnouncedCount` and `SplitsUpToTails`. They hold for every value of the
constants, and no run repeats them.

## What is not modelled

- The parsing and building of JSON (json-c); `CtrlCalls` has one request for each outcome
  of the checks. Replies and notices count as seen when they are written; that they
  may be dropped on their way is the subject of `CtrlOut`.
- The generator of the command wrappers as a program (`Accepts` is what the generated
  code checks), logging, data layouts and the example programs.
- The table of commands of a component that goes.
- Remote authorization beyond its first step, requests, attributes, and the connection
  manager's `connect_cb` and `error_cb`: nothing in the repository calls them.
- Networks of hubs with cycles, in which a frame recurses until the stack ends, and
  local connections to a control engine.
- The blocking probe of a second listen when the backlog is full.

`PROJECT.json` lists every component with its status, and the hazards with the
properties that cover them.

## Plan

Done, in the order of importance: connections and their queue, the hub, the handshake
and its descriptors, the context, notifications, method calls with the hubs they are
about, the control streams, local connections, timeouts; proofs of the safety properties
of all of these.

Next:
1. `CtrlCalls` over `CtrlOut`: a client's view of the number of ports under drops;
2. local connections to a control engine, and signals raised through them;
3. a connection manager over a transport that can connect (`connect_cb`, `error_cb`),
   once there is one.
