----------------------------- MODULE Vde2Queue -----------------------------
(***************************************************************************)
(* The send queue a vde2 connection keeps in front of its datagram socket  *)
(* (struct vde2_pkt and vde2_conn.pkt_queue of transport_vde2.c), as       *)
(* operators on a sequence.  The code pushes new packets at the head of a  *)
(* GQueue and pops from its tail, so position 1 of the sequence is the     *)
(* GQueue's tail: the packet that is sent next.                            *)
(*                                                                         *)
(* A packet is its identity, an element of Pkt: contents do not influence  *)
(* what the queue does with it.                                            *)
(***************************************************************************)
EXTENDS Naturals, Sequences

CONSTANT
  MAXQLEN   \* capacity of pkt_queue (4192 in the code)

ASSUME MAXQLENAssumption == MAXQLEN \in Nat \ {0}

(* struct vde2_pkt: a queued packet and the failed attempts to send it. *)
vde2_pkt(Pkt) == [numtries : Nat, pkt : Pkt]

(* vde2_conn_write refuses the packet with EAGAIN on a full queue. *)
QueueFull(q) == Len(q) >= MAXQLEN

(* The packet is copied into a fresh vde2_pkt and pushed at the head. *)
QueuePush(q, p) == Append(q, [numtries |-> 0, pkt |-> p])

(* Mutant: the counter is tested before it is incremented. *)
GivesUpLate(q, send_maxtries) == Head(q).numtries > send_maxtries

(* numtries++, and the test that decides between push_tail and a drop. *)
GivesUp(q, send_maxtries) == Head(q).numtries + 1 > send_maxtries

(* Mutant: the packet goes back to the head, behind the others. *)
QueueRetryLast(q) == Append(Tail(q), [q[1] EXCEPT !.numtries = @ + 1])

(* The packet goes back to the tail, one attempt older. *)
QueueRetry(q) == [q EXCEPT ![1].numtries = @ + 1]
=============================================================================
