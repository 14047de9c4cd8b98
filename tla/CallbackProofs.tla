--------------------------- MODULE CallbackProofs ---------------------------
(***************************************************************************)
(* Proofs about callbacks that run inside callbacks.                       *)
(*                                                                         *)
(* A frame in a network of hubs (HubNet), of any size, is one recursion of *)
(* hub_engine_readcb: it is handled once by each hub of the network that   *)
(* it enters and by no other.  NetInv is the inductive invariant.          *)
(*                                                                         *)
(* Timeouts (RTimeout), of any number, whose callbacks add and delete      *)
(* others.  ScheduledExactly says nothing of the timeout whose callback    *)
(* runs: TimeoutInv adds that it has fired, is off libevent's list and     *)
(* still allocated, so that rtimeout_cb puts it back where it belongs.     *)
(***************************************************************************)
EXTENDS HubNet, RTimeout, ListRemoval

(* N[h] are the hubs that hub h has a port to. *)
Networks == [Hubs -> SUBSET Hubs]
Links == [h \in Hubs |-> Range(hub_ports[h])]

Mirrored(N) == \A h, g \in Hubs : g \in N[h] => h \in N[g]

(* The port from h to g is the only one from S to the other hubs. *)
Cuts(N, S, h, g) ==
  /\ h \in S
  /\ g \in Hubs \ S
  /\ \A x \in S, y \in Hubs \ S : y \in N[x] => x = h /\ y = g

(* The network has no cycle: it falls apart without any one connection. *)
Forest(N) == \A h, g \in Hubs : g \in N[h] => \E S \in SUBSET Hubs : Cuts(N, S, h, g)

(* The hubs that have handled the frame. *)
Visited == {h \in Hubs : seen[h] # 0}

(* A frame that has not gone over the only connection between two parts of *)
(* the network has not been in both of them.                               *)
OneSided(N, V) ==
  \A S \in SUBSET Hubs, a, b \in Hubs :
    Cuts(N, S, a, b) /\ ~({a, b} \subseteq V) => V \subseteq S \/ V \cap S = {}

(* The calls on the stack: each was made by the one under it, by another   *)
(* hub, and has a part of its hub's ports before it.                       *)
CallsNested(N, st, V) ==
  /\ \A i \in 1..Len(st) : /\ st[i].hub \in V
                           /\ IsInjective(st[i].iter)
                           /\ Range(st[i].iter) \subseteq N[st[i].hub]
  /\ \A i \in 1..(Len(st) - 1) : st[i].conn = st[i + 1].hub
  /\ st # <<>> => st[Len(st)].conn = NoHub
  /\ \A i, j \in 1..Len(st) : st[i].hub = st[j].hub => i = j

(* A port a loop has yet to come to, but for the one its frame came from,  *)
(* leads to a hub the frame has not been at.                               *)
AheadUnvisited(st, V) ==
  \A i \in 1..Len(st) : \A g \in Range(st[i].iter) : g # st[i].conn => g \notin V

(* A port of a hub that has handled the frame leads to another one, or its *)
(* loop has yet to come to it.                                             *)
BehindVisited(N, st, V) ==
  \A h \in V : \A g \in N[h] :
    g \in V \/ \E i \in 1..Len(st) : st[i].hub = h /\ g \in Range(st[i].iter)

(* The frame has not left the hubs joined to the first one. *)
WithinNetwork(N, V, o) ==
  \A S \in SUBSET Hubs : o \in S /\ (\A h \in S : N[h] \subseteq S) => V \subseteq S

Walk(N, st, V, o) ==
  /\ o \in V
  /\ OneSided(N, V)
  /\ CallsNested(N, st, V)
  /\ AheadUnvisited(st, V)
  /\ BehindVisited(N, st, V)
  /\ WithinNetwork(N, V, o)

(* The inductive invariant. *)
NetInv ==
  /\ NetTypeOK
  /\ \A h \in Hubs : IsInjective(hub_ports[h])
  /\ PortsMirrored
  /\ closing = NoHub => Mirrored(Links) /\ Forest(Links)
  /\ stack # <<>> => /\ closing = NoHub
                     /\ \A h \in Hubs : seen[h] <= 1
                     /\ Walk(Links, stack, Visited, origin)

-----------------------------------------------------------------------------
(* Joining two hubs that are not joined makes no cycle. *)
LEMMA JoinForest ==
  ASSUME NEW N \in Networks, NEW M \in Networks, NEW h \in Hubs, NEW g \in Hubs,
         NEW S \in SUBSET Hubs, h \in S, g \notin S, \A x \in S : N[x] \subseteq S,
         Mirrored(N), Forest(N),
         \A x, y \in Hubs :
           y \in M[x] <=> (y \in N[x] \/ (x = h /\ y = g) \/ (x = g /\ y = h))
  PROVE  Mirrored(M) /\ Forest(M)
<1>1. Mirrored(M)
      BY DEF Mirrored
<1>2. ASSUME NEW x \in Hubs, NEW y \in Hubs, y \in N[x]
      PROVE  x \in S <=> y \in S
      BY <1>2 DEF Mirrored
<1>3. Cuts(M, S, h, g) /\ Cuts(M, Hubs \ S, g, h)
      BY <1>2 DEF Cuts, Mirrored
<1>4. ASSUME NEW x \in Hubs, NEW y \in Hubs, y \in N[x]
      PROVE  \E T \in SUBSET Hubs : Cuts(M, T, x, y)
  <2>1. PICK T \in SUBSET Hubs : Cuts(N, T, x, y)
        BY <1>4 DEF Forest
  <2>2. CASE h \in T <=> g \in T
    <3>1. Cuts(M, T, x, y)
          BY <2>1, <2>2 DEF Cuts
    <3> QED BY <3>1
  <2>3. CASE (h \in T /\ g \notin T) /\ x \in S
    <3>1. Cuts(M, T \cup (Hubs \ S), x, y)
          BY <1>2, <1>4, <2>1, <2>3 DEF Cuts
    <3> QED BY <3>1
  <2>4. CASE (h \in T /\ g \notin T) /\ x \notin S
    <3>1. Cuts(M, T \ S, x, y)
          BY <1>2, <1>4, <2>1, <2>4 DEF Cuts
    <3> QED BY <3>1
  <2>5. CASE (h \notin T /\ g \in T) /\ x \in S
    <3>1. Cuts(M, T \cap S, x, y)
          BY <1>2, <1>4, <2>1, <2>5 DEF Cuts
    <3> QED BY <3>1
  <2>6. CASE (h \notin T /\ g \in T) /\ x \notin S
    <3>1. Cuts(M, T \cup S, x, y)
          BY <1>2, <1>4, <2>1, <2>6 DEF Cuts
    <3> QED BY <3>1
  <2> QED BY <2>2, <2>3, <2>4, <2>5, <2>6
<1>5. Forest(M)
  <2> SUFFICES ASSUME NEW x \in Hubs, NEW y \in Hubs, y \in M[x]
               PROVE  \E T \in SUBSET Hubs : Cuts(M, T, x, y)
      BY DEF Forest
  <2>1. CASE y \in N[x]
        BY <1>4, <2>1
  <2>2. CASE x = h /\ y = g
        BY <1>3, <2>2
  <2>3. CASE x = g /\ y = h
        BY <1>3, <2>3
  <2> QED BY <2>1, <2>2, <2>3
<1> QED BY <1>1, <1>5

(* The frame goes from a hub that has handled it to one that has not: it   *)
(* is still on one side of any connection it has not gone over,            *)
LEMMA OneSidedStep ==
  ASSUME NEW N \in Networks, NEW V \in SUBSET Hubs, NEW h \in V, NEW to \in N[h],
         Mirrored(N), OneSided(N, V)
  PROVE  OneSided(N, V \cup {to})
<1> SUFFICES ASSUME NEW S \in SUBSET Hubs, NEW a \in Hubs, NEW b \in Hubs,
                    Cuts(N, S, a, b), ~({a, b} \subseteq V \cup {to})
             PROVE  V \cup {to} \subseteq S \/ (V \cup {to}) \cap S = {}
    BY DEF OneSided
<1>1. h \in Hubs /\ to \in Hubs /\ h \in N[to]
      BY DEF Networks, Mirrored
<1>2. V \subseteq S \/ V \cap S = {}
      BY DEF OneSided
<1>3. h \in S <=> to \in S
      BY <1>1 DEF Cuts
<1> QED BY <1>2, <1>3

(* and the hub has not handled it before, nor have the hubs beyond.        *)
LEMMA BeyondUnvisited ==
  ASSUME NEW N \in Networks, NEW V \in SUBSET Hubs, NEW h \in V, NEW to \in N[h],
         to \notin V, NEW g \in N[to], g # h,
         Mirrored(N), Forest(N), OneSided(N, V)
  PROVE  g \notin V /\ g # to
<1>1. h \in Hubs /\ to \in Hubs /\ g \in Hubs /\ h \in N[to]
      BY DEF Networks, Mirrored
<1>2. PICK S \in SUBSET Hubs : Cuts(N, S, to, g)
      BY <1>1 DEF Forest
<1>3. h \in S /\ g \notin S /\ to \in S
      BY <1>1, <1>2 DEF Cuts
<1>4. V \subseteq S
      BY <1>1, <1>2, <1>3 DEF OneSided
<1> QED BY <1>3, <1>4

(* Only one of the hubs that have handled the frame has a port to one that *)
(* has not.                                                                *)
LEMMA OneWayIn ==
  ASSUME NEW N \in Networks, NEW V \in SUBSET Hubs, NEW h \in V, NEW g \in V,
         NEW to \in N[h], to \in N[g], to \notin V,
         Mirrored(N), Forest(N), OneSided(N, V)
  PROVE  h = g
<1> SUFFICES ASSUME h # g PROVE FALSE
    OBVIOUS
<1>1. h \in Hubs /\ g \in Hubs /\ to \in Hubs /\ g \in N[to]
      BY DEF Networks, Mirrored
<1>2. PICK S \in SUBSET Hubs : Cuts(N, S, h, to)
      BY <1>1 DEF Forest
<1>3. h \in S /\ g \notin S
      BY <1>1, <1>2 DEF Cuts
<1> QED BY <1>1, <1>2, <1>3 DEF OneSided

-----------------------------------------------------------------------------
(* The first call, of the hub that reads a frame. *)
LEMMA WalkStart ==
  ASSUME NEW N \in Networks, NEW h \in Hubs, Forest(N),
         NEW P \in Seq(Hubs), IsInjective(P), Range(P) = N[h],
         NEW st, Len(st) = 1, st # <<>>,
         st[1].hub = h, st[1].conn = NoHub, st[1].iter = P
  PROVE  Walk(N, st, {h}, h)
<1>1. OneSided(N, {h})
      BY DEF OneSided
<1>2. CallsNested(N, st, {h})
      BY DEF CallsNested
<1>3. h \notin N[h]
      BY DEF Forest, Cuts
<1>4. AheadUnvisited(st, {h})
      BY <1>3 DEF AheadUnvisited
<1>5. BehindVisited(N, st, {h})
      BY DEF BehindVisited
<1>6. WithinNetwork(N, {h}, h)
      BY DEF WithinNetwork
<1> QED BY <1>1, <1>2, <1>4, <1>5, <1>6 DEF Walk

(* The call on top of the stack comes to the port to hub to: st2 is the    *)
(* stack with the port taken off the loop, above pushed, k = 1, or         *)
(* nothing, k = 0.                                                         *)
Advance(st, st2, to, k) ==
  /\ Len(st2) = Len(st) + k
  /\ \A i \in 1..Len(st) : /\ st2[i + k].hub = st[i].hub
                           /\ st2[i + k].conn = st[i].conn
                           /\ IsInjective(st2[i + k].iter)
                           /\ Range(st2[i + k].iter)
                                = IF i = 1 THEN Range(st[i].iter) \ {to} ELSE Range(st[i].iter)

(* The call that is pushed is of hub to, by the hub of the call before. *)
Pushed(N, st, st2, to) ==
  /\ Advance(st, st2, to, 1)
  /\ st2[1].hub = to /\ st2[1].conn = st[1].hub
  /\ IsInjective(st2[1].iter) /\ Range(st2[1].iter) = N[to]

(* What is to know of a port the innermost loop comes to. *)
LEMMA ComesTo ==
  ASSUME NEW N \in Networks, NEW st \in Seq(Calls), st # <<>>,
         NEW V \in SUBSET Hubs, NEW o, Walk(N, st, V, o),
         NEW to \in Range(st[1].iter)
  PROVE  /\ 1 \in 1..Len(st) /\ st[1].hub \in V /\ to \in N[st[1].hub] /\ to \in Hubs
         /\ to # st[1].conn => to \notin V
         /\ to = st[1].conn => to \in V
<1>1. 1 \in 1..Len(st) /\ Len(st) \in Nat
      OBVIOUS
<1>2. CallsNested(N, st, V) /\ AheadUnvisited(st, V)
      BY DEF Walk
<1>3. st[1].hub \in V /\ to \in N[st[1].hub]
      BY <1>1, <1>2 DEF CallsNested
<1>4. to \in Hubs
      BY <1>3 DEF Networks
<1>5. to # st[1].conn => to \notin V
      BY <1>1, <1>2 DEF AheadUnvisited
<1>6. ASSUME to = st[1].conn PROVE to \in V
  <2>1. Len(st) # 1
        BY <1>2, <1>4, <1>6, NetAssumption DEF CallsNested
  <2>2. 1 \in 1..(Len(st) - 1) /\ 2 \in 1..Len(st)
    <3> DEFINE n == Len(st)
    <3>1. n \in Nat /\ n # 0 /\ n # 1
          BY <1>1, <2>1
    <3> HIDE DEF n
    <3>2. 1 \in 1..(n - 1) /\ 2 \in 1..n
          BY <3>1
    <3> QED BY <3>2 DEF n
  <2>3. st[1].conn = st[1 + 1].hub
        BY <1>2, <2>2 DEF CallsNested
  <2>4. st[1 + 1] = st[2]
        OBVIOUS
  <2> QED BY <1>2, <1>6, <2>2, <2>3, <2>4 DEF CallsNested
<1> QED BY <1>1, <1>3, <1>4, <1>5, <1>6

(* vde_lc_write: the port is written to. *)
LEMMA WalkWrite ==
  ASSUME NEW N \in Networks, Mirrored(N), Forest(N),
         NEW st \in Seq(Calls), st # <<>>, NEW V \in SUBSET Hubs, NEW o \in Hubs, Walk(N, st, V, o),
         NEW to \in Range(st[1].iter), to # st[1].conn,
         NEW st2 \in Seq(Calls), Pushed(N, st, st2, to)
  PROVE  to \notin V /\ Walk(N, st2, V \cup {to}, o)
<1> DEFINE h == st[1].hub
           W == V \cup {to}
<1>1. /\ Len(st) \in Nat /\ 1 \in 1..Len(st) /\ h \in V /\ to \in N[h] /\ to \in Hubs /\ to \notin V
      /\ Len(st2) = Len(st) + 1
  <2>1. Len(st) \in Nat /\ Len(st2) = Len(st) + 1
        BY DEF Advance, Pushed
  <2> QED BY <2>1, ComesTo
<1> USE DEF Pushed
<1>2. /\ OneSided(N, V) /\ CallsNested(N, st, V) /\ AheadUnvisited(st, V)
      /\ BehindVisited(N, st, V) /\ WithinNetwork(N, V, o) /\ o \in V
      BY DEF Walk
<1> HIDE DEF h
<1>3. OneSided(N, W)
      BY <1>1, <1>2, OneSidedStep
<1>4. \A j \in 1..Len(st2) : j = 1 \/ \E i \in 1..Len(st) : j = i + 1
  <2> SUFFICES ASSUME NEW j \in 1..Len(st2), j # 1
               PROVE  \E i \in 1..Len(st) : j = i + 1
      OBVIOUS
  <2>1. j - 1 \in 1..Len(st) /\ j = (j - 1) + 1
        BY <1>1
  <2> QED BY <2>1
<1>5. CallsNested(N, st2, W)
  <2>1. ASSUME NEW j \in 1..Len(st2)
        PROVE  st2[j].hub \in W /\ IsInjective(st2[j].iter) /\ Range(st2[j].iter) \subseteq N[st2[j].hub]
    <3>1. CASE j = 1
          BY <3>1
    <3>2. ASSUME NEW i \in 1..Len(st), j = i + 1
          PROVE  st2[j].hub \in W /\ IsInjective(st2[j].iter) /\ Range(st2[j].iter) \subseteq N[st2[j].hub]
          BY <1>2, <3>2 DEF CallsNested, Advance
    <3> QED BY <1>4, <3>1, <3>2
  <2>2. ASSUME NEW j \in 1..(Len(st2) - 1)
        PROVE  st2[j].conn = st2[j + 1].hub
    <3>1. CASE j = 1
          BY <1>1, <3>1 DEF Advance, h
    <3>2. CASE j # 1
      <4>1. /\ j - 1 \in 1..(Len(st) - 1) /\ j - 1 \in 1..Len(st) /\ j \in 1..Len(st)
            /\ j = (j - 1) + 1
            BY <1>1, <3>2
      <4>2. st2[j].conn = st[j - 1].conn /\ st2[j + 1].hub = st[j].hub
            BY <4>1 DEF Advance
      <4>3. st[j - 1].conn = st[j].hub
            BY <1>2, <4>1 DEF CallsNested
      <4> QED BY <4>2, <4>3
    <3> QED BY <3>1, <3>2
  <2>3. st2[Len(st2)].conn = NoHub
    <3>1. Len(st) \in 1..Len(st)
          BY <1>1
    <3>2. st2[Len(st) + 1].conn = st[Len(st)].conn
          BY <3>1 DEF Advance
    <3> QED BY <1>1, <1>2, <3>2 DEF CallsNested
  <2>4. ASSUME NEW j \in 1..Len(st2), NEW k \in 1..Len(st2), st2[j].hub = st2[k].hub
        PROVE  j = k
    <3>1. \A i \in 1..Len(st) : st2[i + 1].hub = st[i].hub /\ st[i].hub # to
          BY <1>1, <1>2 DEF Advance, CallsNested
    <3>2. \A i, l \in 1..Len(st) : st[i].hub = st[l].hub => i = l
          BY <1>2 DEF CallsNested
    <3>3. CASE j = 1 /\ k = 1
          BY <3>3
    <3>4. CASE j # 1 /\ k # 1
      <4>1. PICK i \in 1..Len(st), l \in 1..Len(st) : j = i + 1 /\ k = l + 1
            BY <1>4, <3>4
      <4> QED BY <2>4, <3>1, <3>2, <4>1
    <3>5. CASE j = 1 /\ k # 1
      <4>1. PICK i \in 1..Len(st) : k = i + 1
            BY <1>4, <3>5
      <4> QED BY <2>4, <3>1, <3>5, <4>1
    <3>6. CASE j # 1 /\ k = 1
      <4>1. PICK i \in 1..Len(st) : j = i + 1
            BY <1>4, <3>6
      <4> QED BY <2>4, <3>1, <3>6, <4>1
    <3> QED BY <3>3, <3>4, <3>5, <3>6
  <2> QED BY <2>1, <2>2, <2>3, <2>4 DEF CallsNested
<1>6. AheadUnvisited(st2, W)
  <2> SUFFICES ASSUME NEW j \in 1..Len(st2), NEW g \in Range(st2[j].iter), g # st2[j].conn
               PROVE  g \notin V /\ g # to
      BY DEF AheadUnvisited
  <2>1. CASE j = 1
    <3>1. g \in N[to] /\ g # h
          BY <2>1 DEF h
    <3> QED BY <1>1, <1>2, <3>1, BeyondUnvisited
  <2>2. ASSUME NEW i \in 1..Len(st), j = i + 1
        PROVE  g \notin V /\ g # to
    <3>1. g \in Range(st[i].iter) /\ g # st[i].conn /\ (i = 1 => g # to)
          BY <2>2 DEF Advance
    <3>2. g \notin V
          BY <1>2, <3>1 DEF AheadUnvisited
    <3>3. g # to
      <4> SUFFICES ASSUME g = to PROVE FALSE
          OBVIOUS
      <4>1. st[i].hub \in V /\ to \in N[st[i].hub]
            BY <1>2, <3>1 DEF CallsNested
      <4>2. h = st[i].hub
            BY <1>1, <1>2, <4>1, OneWayIn
      <4>3. i = 1
            BY <1>1, <1>2, <4>2 DEF CallsNested, h
      <4> QED BY <3>1, <4>3
    <3> QED BY <3>2, <3>3
  <2> QED BY <1>4, <2>1, <2>2
<1>7. BehindVisited(N, st2, W)
  <2> SUFFICES ASSUME NEW x \in W, NEW g \in N[x], g \notin W
               PROVE  \E j \in 1..Len(st2) : st2[j].hub = x /\ g \in Range(st2[j].iter)
      BY DEF BehindVisited
  <2>1. CASE x = to
    <3>1. 1 \in 1..Len(st2) /\ st2[1].hub = x /\ g \in Range(st2[1].iter)
          BY <1>1, <2>1
    <3> QED BY <3>1
  <2>2. CASE x \in V
    <3>1. PICK i \in 1..Len(st) : st[i].hub = x /\ g \in Range(st[i].iter)
          BY <1>2, <2>2 DEF BehindVisited
    <3>2. i + 1 \in 1..Len(st2)
          BY <1>1
    <3>3. /\ st2[i + 1].hub = st[i].hub
          /\ Range(st2[i + 1].iter)
               = IF i = 1 THEN Range(st[i].iter) \ {to} ELSE Range(st[i].iter)
          BY DEF Advance
    <3> QED BY <3>1, <3>2, <3>3
  <2> QED BY <2>1, <2>2
<1>8. WithinNetwork(N, W, o)
      BY <1>1, <1>2 DEF WithinNetwork
<1> QED BY <1>1, <1>2, <1>3, <1>5, <1>6, <1>7, <1>8 DEF Walk

(* The port is skipped. *)
LEMMA WalkSkip ==
  ASSUME NEW N \in Networks,
         NEW st \in Seq(Calls), st # <<>>, NEW V \in SUBSET Hubs, NEW o \in Hubs, Walk(N, st, V, o),
         NEW to \in Range(st[1].iter), to \in V,
         NEW st2 \in Seq(Calls), Advance(st, st2, to, 0)
  PROVE  Walk(N, st2, V, o)
<1>1. Len(st2) = Len(st) /\ Len(st) \in Nat /\ st2 # <<>>
  <2>1. Len(st2) = Len(st) /\ Len(st) \in Nat \ {0}
        BY DEF Advance
  <2> QED BY <2>1
<1>2. /\ OneSided(N, V) /\ CallsNested(N, st, V) /\ AheadUnvisited(st, V)
      /\ BehindVisited(N, st, V) /\ WithinNetwork(N, V, o) /\ o \in V
      BY DEF Walk
<1>3. \A i \in 1..Len(st) : /\ st2[i].hub = st[i].hub /\ st2[i].conn = st[i].conn
                            /\ IsInjective(st2[i].iter)
                            /\ Range(st2[i].iter) \subseteq Range(st[i].iter)
                            /\ Range(st[i].iter) \subseteq Range(st2[i].iter) \cup {to}
  <2> SUFFICES ASSUME NEW i \in 1..Len(st)
               PROVE  /\ st2[i].hub = st[i].hub /\ st2[i].conn = st[i].conn
                      /\ IsInjective(st2[i].iter)
                      /\ Range(st2[i].iter) \subseteq Range(st[i].iter)
                      /\ Range(st[i].iter) \subseteq Range(st2[i].iter) \cup {to}
      OBVIOUS
  <2>1. i + 0 = i
        OBVIOUS
  <2> QED BY <2>1 DEF Advance
<1>4. CallsNested(N, st2, V)
  <2>1. \A i \in 1..Len(st2) : /\ st2[i].hub \in V
                               /\ IsInjective(st2[i].iter)
                               /\ Range(st2[i].iter) \subseteq N[st2[i].hub]
        BY <1>1, <1>2, <1>3 DEF CallsNested
  <2>2. \A i \in 1..(Len(st2) - 1) : st2[i].conn = st2[i + 1].hub
    <3> SUFFICES ASSUME NEW i \in 1..(Len(st) - 1) PROVE st2[i].conn = st2[i + 1].hub
        BY <1>1
    <3>1. i \in 1..Len(st) /\ i + 1 \in 1..Len(st)
          BY <1>1
    <3> QED BY <1>2, <1>3, <3>1 DEF CallsNested
  <2>3. st2[Len(st2)].conn = NoHub
    <3>1. Len(st) \in 1..Len(st)
          BY <1>1
    <3> QED BY <1>1, <1>2, <1>3, <3>1 DEF CallsNested
  <2>4. \A i, j \in 1..Len(st2) : st2[i].hub = st2[j].hub => i = j
        BY <1>1, <1>2, <1>3 DEF CallsNested
  <2> QED BY <2>1, <2>2, <2>3, <2>4 DEF CallsNested
<1>5. AheadUnvisited(st2, V)
      BY <1>1, <1>2, <1>3 DEF AheadUnvisited
<1>6. BehindVisited(N, st2, V)
  <2> SUFFICES ASSUME NEW x \in V, NEW g \in N[x], g \notin V
               PROVE  \E j \in 1..Len(st2) : st2[j].hub = x /\ g \in Range(st2[j].iter)
      BY DEF BehindVisited
  <2>1. PICK i \in 1..Len(st) : st[i].hub = x /\ g \in Range(st[i].iter)
        BY <1>2 DEF BehindVisited
  <2> QED BY <1>1, <1>3, <2>1
<1> QED BY <1>2, <1>4, <1>5, <1>6 DEF Walk

(* The innermost loop is over. *)
LEMMA WalkReturn ==
  ASSUME NEW N \in Networks,
         NEW st \in Seq(Calls), st # <<>>, NEW V \in SUBSET Hubs, NEW o \in Hubs, Walk(N, st, V, o),
         st[1].iter = <<>>
  PROVE  Walk(N, Tail(st), V, o)
<1> DEFINE st2 == Tail(st)
<1>1. /\ Len(st) \in Nat /\ Len(st2) = Len(st) - 1
      /\ \A i \in 1..Len(st2) : i + 1 \in 1..Len(st) /\ st2[i] = st[i + 1]
      OBVIOUS
<1>2. st2 # <<>> => Len(st2) # 0
  <2>1. st2 \in Seq(Calls)
        OBVIOUS
  <2> HIDE DEF st2
  <2> QED BY <2>1
<1>3. /\ OneSided(N, V) /\ CallsNested(N, st, V) /\ AheadUnvisited(st, V)
      /\ BehindVisited(N, st, V) /\ WithinNetwork(N, V, o) /\ o \in V
      BY DEF Walk
<1> HIDE DEF st2
<1>4. CallsNested(N, st2, V)
  <2>1. \A i \in 1..Len(st2) : /\ st2[i].hub \in V
                               /\ IsInjective(st2[i].iter)
                               /\ Range(st2[i].iter) \subseteq N[st2[i].hub]
        BY <1>1, <1>3 DEF CallsNested
  <2>2. \A i \in 1..(Len(st2) - 1) : st2[i].conn = st2[i + 1].hub
        BY <1>1, <1>3 DEF CallsNested
  <2>3. st2 # <<>> => st2[Len(st2)].conn = NoHub
        BY <1>1, <1>2, <1>3 DEF CallsNested
  <2>4. \A i, j \in 1..Len(st2) : st2[i].hub = st2[j].hub => i = j
        BY <1>1, <1>3 DEF CallsNested
  <2> QED BY <2>1, <2>2, <2>3, <2>4 DEF CallsNested
<1>5. AheadUnvisited(st2, V)
      BY <1>1, <1>3 DEF AheadUnvisited
<1>6. BehindVisited(N, st2, V)
  <2> SUFFICES ASSUME NEW x \in V, NEW g \in N[x], g \notin V
               PROVE  \E j \in 1..Len(st2) : st2[j].hub = x /\ g \in Range(st2[j].iter)
      BY DEF BehindVisited
  <2>1. PICK i \in 1..Len(st) : st[i].hub = x /\ g \in Range(st[i].iter)
        BY <1>3 DEF BehindVisited
  <2>2. i # 1
        BY <2>1, ListEmpty
  <2>3. i - 1 \in 1..Len(st2) /\ (i - 1) + 1 = i
        BY <1>1, <2>2
  <2> QED BY <1>1, <2>1, <2>3
<1> QED BY <1>3, <1>4, <1>5, <1>6 DEF Walk, st2

(* With the last call returned the frame has been at the hubs that are     *)
(* joined to the first one, and at no other.                               *)
LEMMA WalkEnd ==
  ASSUME NEW N \in Networks, NEW V \in SUBSET Hubs, NEW o \in Hubs, Walk(N, <<>>, V, o), NEW h \in Hubs
  PROVE  h \in V <=> \A S \in SUBSET Hubs : o \in S /\ (\A x \in S : N[x] \subseteq S) => h \in S
<1>1. o \in V /\ WithinNetwork(N, V, o) /\ BehindVisited(N, <<>>, V)
      BY DEF Walk
<1>2. \A x \in V : N[x] \subseteq V
      BY <1>1 DEF BehindVisited
<1> QED BY <1>1, <1>2 DEF WithinNetwork

-----------------------------------------------------------------------------
(* Links, and Joined in terms of it. *)
LEMMA LinksIsNetwork ==
  ASSUME hub_ports \in [Hubs -> Seq(Hubs)]
  PROVE  /\ Links \in Networks
         /\ \A h \in Hubs : Links[h] = Range(hub_ports[h])
         /\ \A S \in SUBSET Hubs : Closed(S) <=> \A x \in S : Links[x] \subseteq S
<1>1. \A h \in Hubs : Range(hub_ports[h]) \in SUBSET Hubs
      BY DEF Range
<1>2. Links \in Networks /\ \A h \in Hubs : Links[h] = Range(hub_ports[h])
      BY <1>1 DEF Links, Networks
<1> QED BY <1>2 DEF Closed

LEMMA InitNet == NetInit => NetInv
<1> SUFFICES ASSUME NetInit PROVE NetInv
    OBVIOUS
<1>1. NetTypeOK
  <2>1. <<>> \in Seq(Hubs) /\ <<>> \in Seq(Calls)
        OBVIOUS
  <2>2. hub_ports \in [Hubs -> Seq(Hubs)] /\ stack \in Seq(Calls)
        BY <2>1 DEF NetInit
  <2>3. seen \in [Hubs -> 0..SEEN]
        BY DEF NetInit, SEEN
  <2> QED BY <2>2, <2>3 DEF NetInit, NetTypeOK
<1>2. \A h \in Hubs : hub_ports[h] = <<>> /\ Range(hub_ports[h]) = {} /\ IsInjective(hub_ports[h])
      BY ListEmpty DEF NetInit
<1>3. PortsMirrored
      BY <1>2 DEF PortsMirrored
<1>4. \A h \in Hubs : Links[h] = {}
      BY <1>2 DEF Links
<1>5. Mirrored(Links) /\ Forest(Links)
      BY <1>4 DEF Mirrored, Forest
<1>6. stack = <<>>
      BY DEF NetInit
<1> QED BY <1>1, <1>2, <1>3, <1>5, <1>6 DEF NetInv

(* Two hubs are joined. *)
LEMMA ConnectNet ==
  ASSUME NetInv, NEW h \in Hubs, NEW g \in Hubs, vde_connect_engines_unqueued(h, g)
  PROVE  NetInv'
<1>1. /\ NetTypeOK /\ PortsMirrored /\ closing = NoHub /\ stack = <<>>
      /\ Mirrored(Links) /\ Forest(Links)
      /\ \A x \in Hubs : IsInjective(hub_ports[x])
      BY DEF NetInv, vde_connect_engines_unqueued, Idle
<1>2. /\ peer' = [peer EXCEPT ![<<h, g>>] = "set", ![<<g, h>>] = "set"]
      /\ hub_ports' = [hub_ports EXCEPT ![h] = vde_list_prepend(@, g), ![g] = vde_list_prepend(@, h)]
      /\ UNCHANGED <<hubs_up, stack, closing, crashed, origin, seen>>
      /\ {h, g} \subseteq hubs_up
      BY DEF vde_connect_engines_unqueued
<1>3. /\ Links \in Networks /\ \A x \in Hubs : Links[x] = Range(hub_ports[x])
      /\ \A S \in SUBSET Hubs : Closed(S) <=> \A x \in S : Links[x] \subseteq S
      BY <1>1, LinksIsNetwork DEF NetTypeOK
<1>4. PICK S \in SUBSET Hubs : h \in S /\ g \notin S /\ \A x \in S : Links[x] \subseteq S
      BY <1>3 DEF vde_connect_engines_unqueued, Joined
<1>5. h # g /\ g \notin Range(hub_ports[h]) /\ h \notin Range(hub_ports[g])
      BY <1>1, <1>3, <1>4 DEF Mirrored
<1>6. /\ hub_ports \in [Hubs -> Seq(Hubs)]
      /\ hub_ports'[h] = vde_list_prepend(hub_ports[h], g)
      /\ hub_ports'[g] = vde_list_prepend(hub_ports[g], h)
      /\ \A x \in Hubs \ {h, g} : hub_ports'[x] = hub_ports[x]
      BY <1>1, <1>2, <1>5 DEF NetTypeOK
<1>7. /\ hub_ports'[h] \in Seq(Hubs) /\ IsInjective(hub_ports'[h])
      /\ Range(hub_ports'[h]) = Range(hub_ports[h]) \cup {g}
  <2>1. hub_ports[h] \in Seq(Hubs) /\ IsInjective(hub_ports[h])
        BY <1>1, <1>6
  <2> QED BY <1>5, <1>6, <2>1, ListPrepend
<1>8. /\ hub_ports'[g] \in Seq(Hubs) /\ IsInjective(hub_ports'[g])
      /\ Range(hub_ports'[g]) = Range(hub_ports[g]) \cup {h}
  <2>1. hub_ports[g] \in Seq(Hubs) /\ IsInjective(hub_ports[g])
        BY <1>1, <1>6
  <2> QED BY <1>5, <1>6, <2>1, ListPrepend
<1>9. hub_ports' \in [Hubs -> Seq(Hubs)] /\ \A x \in Hubs : IsInjective(hub_ports'[x])
  <2>1. \A x \in Hubs : hub_ports'[x] \in Seq(Hubs) /\ IsInjective(hub_ports'[x])
        BY <1>1, <1>6, <1>7, <1>8
  <2>2. hub_ports' = [x \in Hubs |-> hub_ports'[x]]
        BY <1>2, <1>6
  <2> QED BY <2>1, <2>2
<1>10. /\ Links' \in Networks /\ \A x \in Hubs : Links'[x] = Range(hub_ports'[x])
  <2>1. \A x \in Hubs : Range(hub_ports'[x]) \in SUBSET Hubs
        BY <1>9 DEF Range
  <2> QED BY <2>1 DEF Links, Networks
<1>11. \A x, y \in Hubs :
         y \in Links'[x] <=> (y \in Links[x] \/ (x = h /\ y = g) \/ (x = g /\ y = h))
  <2> SUFFICES ASSUME NEW x \in Hubs
               PROVE  Links'[x] = Links[x] \cup {y \in Hubs : (x = h /\ y = g) \/ (x = g /\ y = h)}
      BY <1>3
  <2>1. Links'[x] = Range(hub_ports'[x]) /\ Links[x] = Range(hub_ports[x])
        BY <1>3, <1>10
  <2>2. CASE x = h
        BY <1>5, <1>7, <2>1, <2>2
  <2>3. CASE x = g
        BY <1>5, <1>8, <2>1, <2>3
  <2>4. CASE x \notin {h, g}
        BY <1>6, <2>1, <2>4
  <2> QED BY <2>2, <2>3, <2>4
<1>12. Mirrored(Links') /\ Forest(Links')
       BY <1>1, <1>3, <1>4, <1>10, <1>11, JoinForest
<1>13. peer' \in [Ends -> {"none", "set", "NULL"}]
       BY <1>1, <1>2 DEF NetTypeOK
<1>14. NetTypeOK'
       BY <1>1, <1>2, <1>9, <1>13 DEF NetTypeOK
<1>15. PortsMirrored'
  <2> SUFFICES ASSUME NEW x \in Hubs, NEW y \in Hubs, y \in Range(hub_ports'[x])
               PROVE  x \in Range(hub_ports'[y]) /\ y \in hubs_up' /\ peer'[<<x, y>>] = "set"
      BY DEF PortsMirrored
  <2>1. x \in Range(hub_ports'[y])
        BY <1>10, <1>12 DEF Mirrored
  <2>2. y \in Links[x] \/ (x = h /\ y = g) \/ (x = g /\ y = h)
        BY <1>10, <1>11
  <2>3. y \in Links[x] => y \in hubs_up /\ peer[<<x, y>>] = "set"
        BY <1>1, <1>3 DEF PortsMirrored
  <2>4. y \in hubs_up'
        BY <1>2, <2>2, <2>3
  <2>5. peer'[<<x, y>>] = "set"
    <3>1. <<x, y>> \in Ends /\ peer \in [Ends -> {"none", "set", "NULL"}]
          BY <1>1 DEF NetTypeOK, Ends
    <3> QED BY <1>2, <2>2, <2>3, <3>1
  <2> QED BY <2>1, <2>4, <2>5
<1> QED BY <1>1, <1>2, <1>9, <1>12, <1>14, <1>15 DEF NetInv

(* What a step of the recursion, which leaves the network alone, keeps. *)
LEMMA SameNetwork ==
  ASSUME NetInv, UNCHANGED <<hub_ports, peer, hubs_up, closing, crashed>>, closing = NoHub,
         stack' \in Seq(Calls), origin' \in Hubs, seen' \in [Hubs -> 0..1],
         stack' # <<>> => Walk(Links, stack', Visited', origin')
  PROVE  NetInv'
<1>1. Links' = Links
      BY DEF Links
<1>2. seen' \in [Hubs -> 0..SEEN]
      BY DEF SEEN
<1>3. NetTypeOK'
      BY <1>2 DEF NetInv, NetTypeOK
<1>4. PortsMirrored'
      BY DEF NetInv, PortsMirrored
<1>5. \A h \in Hubs : seen'[h] <= 1
      OBVIOUS
<1> QED BY <1>1, <1>3, <1>4, <1>5 DEF NetInv

(* A hub reads a frame from another process. *)
LEMMA ReadNet ==
  ASSUME NetInv, NEW h \in Hubs, ReadFrame(h)
  PROVE  NetInv'
<1> DEFINE call == [hub |-> h, conn |-> NoHub, iter |-> hub_ports[h]]
<1>1. NetTypeOK /\ closing = NoHub /\ Forest(Links) /\ IsInjective(hub_ports[h])
      BY DEF NetInv, ReadFrame, Idle
<1>2. Links \in Networks /\ Range(hub_ports[h]) = Links[h] /\ hub_ports[h] \in Seq(Hubs)
      BY <1>1, LinksIsNetwork DEF NetTypeOK
<1>3. call \in Calls /\ stack' = <<call>>
      BY <1>2 DEF ReadFrame, Calls
<1>4. /\ stack' \in Seq(Calls) /\ Len(stack') = 1 /\ stack' # <<>>
      /\ stack'[1].hub = h /\ stack'[1].conn = NoHub /\ stack'[1].iter = hub_ports[h]
      BY <1>3
<1>5. /\ origin' = h /\ seen' = [g \in Hubs |-> IF g = h THEN 1 ELSE 0]
      /\ UNCHANGED <<hub_ports, peer, hubs_up, closing, crashed>>
      BY DEF ReadFrame
<1>6. Visited' = {h} /\ seen' \in [Hubs -> 0..1]
      BY <1>5 DEF Visited
<1>7. Walk(Links, stack', Visited', origin')
      BY <1>1, <1>2, <1>4, <1>5, <1>6, WalkStart
<1> QED BY <1>1, <1>4, <1>5, <1>6, <1>7, SameNetwork

(* The stack after its innermost loop has gone on. *)
LEMMA AdvancedStack ==
  ASSUME NetInv, stack # <<>>, stack[1].iter # <<>>
  PROVE  /\ Advanced \in Seq(Calls)
         /\ Advance(stack, Advanced, Head(stack[1].iter), 0)
         /\ Head(stack[1].iter) \in Range(stack[1].iter)
         /\ Len(stack) \in Nat /\ 1 \in 1..Len(stack)
<1> DEFINE c == stack[1]
           d == [c EXCEPT !.iter = Tail(@)]
<1>1. stack \in Seq(Calls) /\ CallsNested(Links, stack, Visited)
      BY DEF NetInv, NetTypeOK, Walk
<1>2. Len(stack) \in Nat /\ 1 \in 1..Len(stack) /\ c \in Calls
      BY <1>1
<1>3. c.iter \in Seq(Hubs) /\ IsInjective(c.iter)
      BY <1>1, <1>2 DEF Calls, CallsNested
<1>4. /\ Head(c.iter) \in Range(c.iter) /\ Tail(c.iter) \in Seq(Hubs)
      /\ Range(Tail(c.iter)) = Range(c.iter) \ {Head(c.iter)}
      /\ IsInjective(Tail(c.iter))
      BY <1>3, ListTail
<1>5. /\ d \in Calls /\ d.hub = c.hub /\ d.conn = c.conn /\ d.iter = Tail(c.iter)
      BY <1>2, <1>4 DEF Calls
<1>6. Advanced = [stack EXCEPT ![1] = d]
      BY DEF Advanced
<1> HIDE DEF d
<1>7. /\ Advanced \in Seq(Calls) /\ Len(Advanced) = Len(stack) /\ Advanced[1] = d
      /\ \A i \in 1..Len(stack) : i # 1 => Advanced[i] = stack[i]
      BY <1>1, <1>2, <1>5, <1>6
<1>8. ASSUME NEW i \in 1..Len(stack)
      PROVE  /\ Advanced[i + 0].hub = stack[i].hub
             /\ Advanced[i + 0].conn = stack[i].conn
             /\ IsInjective(Advanced[i + 0].iter)
             /\ Range(Advanced[i + 0].iter)
                  = IF i = 1 THEN Range(stack[i].iter) \ {Head(stack[1].iter)}
                             ELSE Range(stack[i].iter)
  <2>1. i + 0 = i
        OBVIOUS
  <2>2. CASE i = 1
        BY <1>4, <1>5, <1>7, <2>1, <2>2
  <2>3. CASE i # 1
        BY <1>1, <1>7, <2>1, <2>3 DEF CallsNested
  <2> QED BY <2>2, <2>3
<1>9. Len(Advanced) = Len(stack) + 0
      BY <1>2, <1>7
<1>10. Advance(stack, Advanced, Head(stack[1].iter), 0)
       BY <1>8, <1>9 DEF Advance
<1> QED BY <1>2, <1>4, <1>7, <1>10

(* What holds while a frame is handled. *)
LEMMA Underway ==
  ASSUME NetInv, stack # <<>>
  PROVE  /\ stack \in Seq(Calls) /\ closing = NoHub /\ Links \in Networks
         /\ Mirrored(Links) /\ Forest(Links)
         /\ Visited \in SUBSET Hubs /\ origin \in Hubs /\ Walk(Links, stack, Visited, origin)
         /\ seen \in [Hubs -> 0..1] /\ Head(stack) = stack[1]
<1>1. NetTypeOK /\ closing = NoHub /\ Walk(Links, stack, Visited, origin)
      BY DEF NetInv
<1>2. Links \in Networks
      BY <1>1, LinksIsNetwork DEF NetTypeOK
<1>3. Visited \in SUBSET Hubs /\ origin \in Visited
      BY <1>1 DEF Visited, Walk
<1>4. seen \in [Hubs -> 0..1]
  <2>1. \A h \in Hubs : seen[h] \in 0..1
        BY <1>1 DEF NetInv, NetTypeOK, SEEN
  <2> QED BY <1>1, <2>1 DEF NetTypeOK
<1>5. stack \in Seq(Calls) /\ Head(stack) = stack[1]
      BY <1>1 DEF NetTypeOK
<1> QED BY <1>1, <1>2, <1>3, <1>4, <1>5 DEF NetInv

(* A port is written to. *)
LEMMA WriteNet ==
  ASSUME NetInv, vde_lc_write
  PROVE  NetInv'
<1> DEFINE to == Head(stack[1].iter)
           call == [hub |-> to, conn |-> stack[1].hub, iter |-> hub_ports[to]]
<1>1. stack # <<>> /\ UNCHANGED <<hub_ports, peer, hubs_up, closing, crashed, origin>>
      BY DEF vde_lc_write
<1>2. /\ stack \in Seq(Calls) /\ closing = NoHub /\ Links \in Networks
      /\ Mirrored(Links) /\ Forest(Links)
      /\ Visited \in SUBSET Hubs /\ origin \in Hubs /\ Walk(Links, stack, Visited, origin)
      /\ seen \in [Hubs -> 0..1] /\ Head(stack) = stack[1]
      BY <1>1, Underway
<1>3. /\ stack[1].iter # <<>> /\ to # stack[1].conn
      /\ stack' = vde_list_prepend(Advanced, call)
      /\ seen' = [seen EXCEPT ![to] = IF @ = SEEN THEN @ ELSE @ + 1]
      BY <1>2 DEF vde_lc_write, Writes
<1>4. /\ Advanced \in Seq(Calls) /\ Advance(stack, Advanced, to, 0)
      /\ to \in Range(stack[1].iter) /\ Len(stack) \in Nat /\ 1 \in 1..Len(stack)
      BY <1>1, <1>3, AdvancedStack
<1> HIDE DEF to
<1>5. to \in Hubs /\ stack[1].hub \in Visited
      BY <1>1, <1>2, <1>4, ComesTo
<1>6. /\ hub_ports[to] \in Seq(Hubs) /\ IsInjective(hub_ports[to])
      /\ Range(hub_ports[to]) = Links[to]
      BY <1>5, LinksIsNetwork DEF NetInv, NetTypeOK
<1>7. call \in Calls
      BY <1>2, <1>5, <1>6 DEF Calls
<1>8. /\ stack' \in Seq(Calls) /\ Len(stack') = Len(Advanced) + 1 /\ stack'[1] = call
      /\ \A i \in 1..Len(Advanced) : stack'[i + 1] = Advanced[i]
      BY <1>3, <1>4, <1>7 DEF vde_list_prepend
<1>9. /\ stack'[1].hub = to /\ stack'[1].conn = stack[1].hub
      /\ IsInjective(stack'[1].iter) /\ Range(stack'[1].iter) = Links[to]
      BY <1>6, <1>8
<1> HIDE DEF call
<1>10. Advance(stack, stack', to, 1)
  <2>1. Len(Advanced) = Len(stack)
        BY <1>4 DEF Advance
  <2>2. \A i \in 1..Len(stack) : i + 0 = i /\ stack'[i + 1] = Advanced[i]
        BY <1>8, <2>1
  <2>3. ASSUME NEW i \in 1..Len(stack)
        PROVE  /\ stack'[i + 1].hub = stack[i].hub
               /\ stack'[i + 1].conn = stack[i].conn
               /\ IsInjective(stack'[i + 1].iter)
               /\ Range(stack'[i + 1].iter)
                    = IF i = 1 THEN Range(stack[i].iter) \ {to} ELSE Range(stack[i].iter)
    <3>1. i + 0 = i /\ stack'[i + 1] = Advanced[i]
          BY <2>2
    <3>2. /\ Advanced[i + 0].hub = stack[i].hub
          /\ Advanced[i + 0].conn = stack[i].conn
          /\ IsInjective(Advanced[i + 0].iter)
          /\ Range(Advanced[i + 0].iter)
               = IF i = 1 THEN Range(stack[i].iter) \ {to} ELSE Range(stack[i].iter)
          BY <1>4 DEF Advance
    <3> QED BY <3>1, <3>2
  <2>4. Len(stack') = Len(stack) + 1
        BY <1>8, <2>1
  <2> QED BY <2>3, <2>4 DEF Advance
<1>11. to \notin Visited /\ Walk(Links, stack', Visited \cup {to}, origin)
  <2>1. Pushed(Links, stack, stack', to)
        BY <1>9, <1>10 DEF Pushed
  <2> QED BY <1>1, <1>2, <1>3, <1>4, <1>8, <2>1, WalkWrite
<1>12. seen[to] = 0
       BY <1>5, <1>11 DEF Visited
<1>13. seen' \in [Hubs -> 0..1] /\ seen'[to] = 1 /\ \A x \in Hubs \ {to} : seen'[x] = seen[x]
       BY <1>2, <1>3, <1>5, <1>12 DEF SEEN
<1>14. Visited' = Visited \cup {to}
       BY <1>5, <1>13 DEF Visited
<1> QED BY <1>1, <1>2, <1>8, <1>11, <1>13, <1>14, SameNetwork

(* The port a frame came from is skipped. *)
LEMMA SkipNet ==
  ASSUME NetInv, SkipPort
  PROVE  NetInv'
<1> DEFINE to == Head(stack[1].iter)
<1>1. stack # <<>> /\ UNCHANGED <<hub_ports, peer, hubs_up, closing, crashed, origin, seen>>
      BY DEF SkipPort
<1>2. /\ stack \in Seq(Calls) /\ closing = NoHub /\ Links \in Networks
      /\ Visited \in SUBSET Hubs /\ origin \in Hubs /\ Walk(Links, stack, Visited, origin)
      /\ seen \in [Hubs -> 0..1] /\ Head(stack) = stack[1]
      BY <1>1, Underway
<1>3. stack[1].iter # <<>> /\ to = stack[1].conn /\ stack' = Advanced
      BY <1>2 DEF SkipPort, Writes
<1>4. /\ Advanced \in Seq(Calls) /\ Advance(stack, Advanced, to, 0) /\ to \in Range(stack[1].iter)
      BY <1>1, <1>3, AdvancedStack
<1> HIDE DEF to
<1>5. to \in Visited
  <2>1. to = stack[1].conn => to \in Visited
        BY <1>1, <1>2, <1>4, ComesTo
  <2> QED BY <1>3, <2>1
<1>6. Walk(Links, stack', Visited, origin)
      BY <1>1, <1>2, <1>3, <1>4, <1>5, WalkSkip
<1>7. Visited' = Visited
      BY <1>1 DEF Visited
<1> QED BY <1>1, <1>2, <1>3, <1>4, <1>6, <1>7, SameNetwork

(* A call returns. *)
LEMMA ReturnWalk ==
  ASSUME NetInv, Return
  PROVE  /\ Walk(Links, stack', Visited, origin) /\ stack' \in Seq(Calls)
         /\ Links \in Networks /\ Visited \in SUBSET Hubs /\ origin \in Hubs
         /\ seen \in [Hubs -> 0..1] /\ closing = NoHub
<1>1. stack # <<>>
      BY DEF Return
<1>2. /\ stack \in Seq(Calls) /\ closing = NoHub /\ Links \in Networks
      /\ Visited \in SUBSET Hubs /\ origin \in Hubs /\ Walk(Links, stack, Visited, origin)
      /\ seen \in [Hubs -> 0..1] /\ Head(stack) = stack[1]
      BY <1>1, Underway
<1>3. stack[1].iter = <<>> /\ stack' = Tail(stack)
      BY <1>2 DEF Return
<1>4. Walk(Links, stack', Visited, origin)
      BY <1>1, <1>2, <1>3, WalkReturn
<1>5. stack' \in Seq(Calls)
      BY <1>1, <1>2, <1>3
<1> QED BY <1>2, <1>4, <1>5

LEMMA ReturnNet ==
  ASSUME NetInv, Return
  PROVE  NetInv'
<1>1. UNCHANGED <<hub_ports, peer, hubs_up, closing, crashed, origin, seen>>
      BY DEF Return
<1>2. Visited' = Visited
      BY <1>1 DEF Visited
<1> QED BY <1>1, <1>2, ReturnWalk, SameNetwork

(* A hub is finalised: one without ports is nobody's port. *)
LEMMA FiniNet ==
  ASSUME NetInv, NEW h \in Hubs, engine_hub_fini_of(h)
  PROVE  NetInv'
<1>1. /\ NetTypeOK /\ PortsMirrored /\ closing = NoHub /\ stack = <<>>
      /\ Mirrored(Links) /\ Forest(Links) /\ \A x \in Hubs : IsInjective(hub_ports[x])
      BY DEF NetInv, engine_hub_fini_of, Idle
<1>2. /\ hubs_up' = hubs_up \ {h}
      /\ closing' = IF hub_ports[h] = <<>> THEN NoHub ELSE <<h, Head(hub_ports[h])>>
      /\ UNCHANGED <<hub_ports, peer, stack, crashed, origin, seen>>
      BY DEF engine_hub_fini_of
<1>3. hub_ports[h] \in Seq(Hubs)
      BY <1>1 DEF NetTypeOK
<1>4. closing' \in Ends \cup {NoHub} /\ (hub_ports[h] # <<>> => closing' # NoHub)
      BY <1>2, <1>3, NetAssumption DEF Ends
<1>5. NetTypeOK'
      BY <1>1, <1>2, <1>4 DEF NetTypeOK
<1>6. PortsMirrored'
  <2> SUFFICES ASSUME closing' = NoHub, NEW x \in Hubs, NEW y \in Hubs, y \in Range(hub_ports[x])
               PROVE  x \in Range(hub_ports[y]) /\ y \in hubs_up' /\ peer[<<x, y>>] = "set"
      BY <1>2 DEF PortsMirrored
  <2>1. Range(hub_ports[h]) = {}
        BY <1>4, ListEmpty
  <2>2. x \in Range(hub_ports[y]) /\ y \in hubs_up /\ peer[<<x, y>>] = "set"
        BY <1>1 DEF PortsMirrored
  <2> QED BY <1>2, <2>1, <2>2
<1>7. Links' = Links
      BY <1>2 DEF Links
<1> QED BY <1>1, <1>2, <1>5, <1>6, <1>7 DEF NetInv

(* An end is closed. *)
LEMMA CloseNet ==
  ASSUME NetInv, vde_lc_close
  PROVE  NetInv'
<1>1. /\ NetTypeOK /\ closing \in Ends /\ stack = <<>> /\ closing # NoHub
      /\ \A x \in Hubs : IsInjective(hub_ports[x])
      BY DEF NetInv, NetTypeOK, vde_lc_close
<1> DEFINE h == closing[1]
           g == closing[2]
<1>2. h \in Hubs /\ g \in Hubs /\ <<h, g>> \in Ends /\ <<g, h>> \in Ends
      BY <1>1 DEF Ends
<1>3. UNCHANGED <<hubs_up, stack, origin, seen>>
      BY DEF vde_lc_close
<1>4. CASE crashed' = TRUE /\ UNCHANGED <<hub_ports, peer, closing>>
      BY <1>1, <1>3, <1>4 DEF NetInv, NetTypeOK, PortsMirrored
<1>5. CASE /\ peer' = [peer EXCEPT ![<<g, h>>] = "NULL"]
           /\ hub_ports' = [hub_ports EXCEPT ![g] = vde_list_remove(@, h)]
           /\ closing' = <<g, h>>
           /\ UNCHANGED crashed
  <2> HIDE DEF h, g
  <2>1. hub_ports \in [Hubs -> Seq(Hubs)] /\ hub_ports[g] \in Seq(Hubs) /\ IsInjective(hub_ports[g])
        BY <1>1, <1>2 DEF NetTypeOK
  <2>2. /\ vde_list_remove(hub_ports[g], h) \in Seq(Hubs)
        /\ IsInjective(vde_list_remove(hub_ports[g], h))
    <3>1. CASE h \in Range(hub_ports[g])
          BY <2>1, <3>1, ListRemove
    <3>2. CASE h \notin Range(hub_ports[g])
      <4>1. {i \in DOMAIN hub_ports[g] : hub_ports[g][i] = h} = {}
            BY <3>2 DEF Range
      <4>2. vde_list_remove(hub_ports[g], h) = hub_ports[g]
            BY <4>1 DEF vde_list_remove
      <4> QED BY <2>1, <4>2
    <3> QED BY <3>1, <3>2
  <2>3. /\ hub_ports' \in [Hubs -> Seq(Hubs)]
        /\ \A x \in Hubs : IsInjective(hub_ports'[x])
        BY <1>1, <1>2, <1>5, <2>1, <2>2
  <2>4. closing' \in Ends /\ closing' # NoHub
        BY <1>2, <1>5, NetAssumption
  <2>5. peer' \in [Ends -> {"none", "set", "NULL"}]
        BY <1>1, <1>2, <1>5 DEF NetTypeOK
  <2>6. NetTypeOK'
        BY <1>1, <1>3, <1>5, <2>3, <2>4, <2>5 DEF NetTypeOK
  <2>7. PortsMirrored'
        BY <2>4 DEF PortsMirrored
  <2> QED BY <1>1, <1>3, <2>3, <2>4, <2>6, <2>7 DEF NetInv
<1> QED BY <1>4, <1>5 DEF vde_lc_close

LEMMA StepNet == NetInv /\ [NetNext]_netvars => NetInv'
<1> SUFFICES ASSUME NetInv, [NetNext]_netvars PROVE NetInv'
    OBVIOUS
<1>1. CASE \E h, g \in Hubs : vde_connect_engines_unqueued(h, g)
      BY <1>1, ConnectNet
<1>2. CASE \E h \in Hubs : ReadFrame(h)
      BY <1>2, ReadNet
<1>3. CASE vde_lc_write
      BY <1>3, WriteNet
<1>4. CASE SkipPort
      BY <1>4, SkipNet
<1>5. CASE Return
      BY <1>5, ReturnNet
<1>6. CASE \E h \in Hubs : engine_hub_fini_of(h)
      BY <1>6, FiniNet
<1>7. CASE vde_lc_close
      BY <1>7, CloseNet
<1>8. CASE UNCHANGED netvars
  <2>1. UNCHANGED <<hub_ports, peer, hubs_up, stack, closing, crashed, origin, seen>>
        BY <1>8 DEF netvars
  <2>2. Links' = Links /\ Visited' = Visited
        BY <2>1 DEF Links, Visited
  <2> QED BY <2>1, <2>2 DEF NetInv, NetTypeOK, PortsMirrored
<1> QED BY <1>1, <1>2, <1>3, <1>4, <1>5, <1>6, <1>7, <1>8 DEF NetNext

LEMMA NetInvariance == NetSpec => []NetInv
<1>1. NetInit => NetInv
      BY InitNet
<1>2. NetInv /\ [NetNext]_netvars => NetInv'
      BY StepNet
<1> QED BY <1>1, <1>2, PTL DEF NetSpec

(* In a network of any hubs an end is a port of its hub only with its peer *)
(* a port of the other, which is not finalised (hub_engine_newconn,        *)
(* engine_hub_fini).                                                       *)
THEOREM PortsAlwaysMirrored == NetSpec => []PortsMirrored
<1>1. NetInv => PortsMirrored
      BY DEF NetInv
<1> QED BY <1>1, NetInvariance, PTL

(* The variables of the network of hubs keep their types. *)
THEOREM NetTypeCorrect == NetSpec => []NetTypeOK
<1>1. NetInv => NetTypeOK
      BY DEF NetInv
<1> QED BY <1>1, NetInvariance, PTL

(* When the outermost hub_engine_readcb returns, each hub joined to its    *)
(* own has handled the frame once, and no other hub has.                   *)
THEOREM FrameReachesNetwork == NetSpec => ReachesTheNetwork
<1> DEFINE Reached == \A h \in Hubs : seen[h] = (IF Joined(origin, h) THEN 1 ELSE 0)
<1>1. ASSUME NetInv, [NetNext]_netvars, stack # <<>>, stack' = <<>>
      PROVE  Reached
  <2>1. Return
    <3>1. CASE vde_lc_write
      <4>1. stack[1].iter # <<>> /\ \E c : stack' = vde_list_prepend(Advanced, c)
            BY <1>1, <3>1, Underway DEF vde_lc_write
      <4>2. Advanced \in Seq(Calls)
            BY <1>1, <4>1, AdvancedStack
      <4>3. PICK c : stack' = <<c>> \o Advanced
            BY <4>1 DEF vde_list_prepend
      <4>4. Len(stack') = 1 + Len(Advanced) /\ Len(Advanced) \in Nat
            BY <4>2, <4>3
      <4> QED BY <1>1, <4>4
    <3>2. CASE SkipPort
      <4>1. stack[1].iter # <<>> /\ stack' = Advanced
            BY <1>1, <3>2, Underway DEF SkipPort
      <4>2. Len(stack) \in Nat /\ 1 \in 1..Len(stack) /\ Len(Advanced) = Len(stack) + 0
            BY <1>1, <4>1, AdvancedStack DEF Advance
      <4> QED BY <1>1, <4>1, <4>2
    <3>3. CASE UNCHANGED netvars
          BY <1>1, <3>3 DEF netvars
    <3>4. stack # <<>> => closing = NoHub
          BY <1>1 DEF NetInv
    <3> QED BY <1>1, <3>1, <3>2, <3>3, <3>4
            DEF NetNext, vde_connect_engines_unqueued, ReadFrame, engine_hub_fini_of, vde_lc_close, Idle
  <2>2. /\ Walk(Links, <<>>, Visited, origin)
        /\ Links \in Networks /\ Visited \in SUBSET Hubs /\ origin \in Hubs
        /\ seen \in [Hubs -> 0..1]
        BY <1>1, <2>1, ReturnWalk
  <2>3. \A S \in SUBSET Hubs : Closed(S) <=> \A x \in S : Links[x] \subseteq S
        BY <1>1, LinksIsNetwork DEF NetInv, NetTypeOK
  <2>4. ASSUME NEW h \in Hubs PROVE h \in Visited <=> Joined(origin, h)
        BY <2>2, <2>3, WalkEnd DEF Joined
  <2> QED BY <2>2, <2>4 DEF Visited
<1>2. NetInv /\ [NetNext]_netvars => [stack # <<>> /\ stack' = <<>> => Reached]_netvars
      BY <1>1
<1> QED BY <1>2, NetInvariance, PTL DEF NetSpec, ReachesTheNetwork

-----------------------------------------------------------------------------
(* Only a timeout that was added has fired or recurs. *)
AddedFirst ==
  \A t \in Timeouts : memory[t] = "new" => t \notin fired /\ t \notin persist

(* The timeout whose callback runs. *)
RunningFired ==
  running # None =>
    running \in fired /\ running \notin scheduled /\ memory[running] = "alloc"

TimeoutInv == TypeOK /\ ScheduledExactly /\ AddedFirst /\ RunningFired

(* Initially no timeout exists. *)
LEMMA TimeoutInit == Init => TimeoutInv
  BY DEF Init, TimeoutInv, TypeOK, ScheduledExactly, AddedFirst, RunningFired

(* Every operation of the handler and every firing keeps the invariant. *)
LEMMA TimeoutStep == TimeoutInv /\ [Next]_vars => TimeoutInv'
<1> SUFFICES ASSUME TimeoutInv, [Next]_vars PROVE TimeoutInv'
    OBVIOUS
<1> USE TimeoutAssumption DEF TimeoutInv, TypeOK, ScheduledExactly, AddedFirst, RunningFired
<1>1. ASSUME NEW t \in Timeouts, NEW recurs \in BOOLEAN, libevent_timeout_add(t, recurs)
      PROVE  TimeoutInv'
  <2>1. CASE recurs
        BY <1>1, <2>1 DEF libevent_timeout_add
  <2>2. CASE ~recurs
        BY <1>1, <2>2 DEF libevent_timeout_add
  <2> QED BY <2>1, <2>2
<1>2. ASSUME NEW t \in Timeouts, libevent_timeout_del(t) PROVE TimeoutInv'
      BY <1>2 DEF libevent_timeout_del
<1>3. ASSUME NEW t \in Timeouts, Fire(t) PROVE TimeoutInv'
      BY <1>3 DEF Fire
<1>4. CASE rtimeout_cb
  <2>1. CASE running \in persist
        BY <1>4, <2>1 DEF rtimeout_cb
  <2>2. CASE running \notin persist
        BY <1>4, <2>2 DEF rtimeout_cb
  <2> QED BY <2>1, <2>2
<1>5. CASE UNCHANGED vars
      BY <1>5 DEF vars
<1> QED BY <1>1, <1>2, <1>3, <1>4, <1>5 DEF Next

(* Whatever the callbacks of other timeouts add and delete, a timeout that *)
(* is not running is on libevent's list exactly if it was not deleted and  *)
(* recurs or has not fired: rtimeout_cb loses none and repeats none, and   *)
(* libevent_timeout_del leaves no event in freed memory.                   *)
THEOREM AlwaysScheduledExactly == Spec => []ScheduledExactly
<1>1. Init /\ [][Next]_vars => []TimeoutInv
      BY TimeoutInit, TimeoutStep, PTL
<1>2. TimeoutInv => ScheduledExactly
      BY DEF TimeoutInv
<1> QED BY <1>1, <1>2, PTL DEF Spec
=============================================================================
