------------------------------- MODULE PubSub -------------------------------
(***************************************************************************)
(* What the notifications of the control engine promise to its clients:    *)
(* a client is subscribed to a topic from when it asked for it until it    *)
(* asks to end it, leaves, or the topic goes away, and a publication       *)
(* reaches exactly the clients that are subscribed.                        *)
(***************************************************************************)
CONSTANTS Clients, Topics

VARIABLES
  subs,     \* the subscriptions, pairs of a client and a topic
  last      \* the clients the step published to, as such pairs

pubsub == <<subs, last>>

PubSubInit == subs = {} /\ last = {}

Subscribe(c, t) ==
  /\ last' = {}
  /\ subs' = subs \cup {<<c, t>>}

Unsubscribe(c, t) ==
  /\ last' = {}
  /\ subs' = subs \ {<<c, t>>}

Leave(c) ==
  /\ last' = {}
  /\ subs' = {s \in subs : s[1] # c}

TopicEnds(t) ==
  /\ last' = {}
  /\ subs' = {s \in subs : s[2] # t}

Publish(t) ==
  /\ last' = {s \in subs : s[2] = t}
  /\ UNCHANGED subs

Quiet ==
  /\ last' = {}
  /\ UNCHANGED subs

PubSubNext ==
  \/ Quiet
  \/ \E t \in Topics : Publish(t) \/ TopicEnds(t)
  \/ \E c \in Clients, t \in Topics : Subscribe(c, t) \/ Unsubscribe(c, t)
  \/ \E c \in Clients : Leave(c)

PubSubSpec == PubSubInit /\ [][PubSubNext]_pubsub
=============================================================================
