----------------------------- MODULE LossyFifo -----------------------------
(***************************************************************************)
(* What a connection promises to the engine that writes packets to it: an  *)
(* at-most-once, in-order channel of bounded capacity.  Packets are        *)
(* numbered as they are accepted; the oldest one in the channel is either  *)
(* delivered or lost, never overtaken, and closing the channel loses all   *)
(* the packets that are still in it.                                       *)
(***************************************************************************)
EXTENDS Integers, Sequences

CONSTANT Capacity

VARIABLES
  accepted,    \* packets 1..accepted have entered the channel
  resolved,    \* packets 1..resolved have left it
  delivered,   \* the packets delivered, in order
  isopen

fifo == <<accepted, resolved, delivered, isopen>>

FifoInit ==
  /\ accepted = 0
  /\ resolved = 0
  /\ delivered = <<>>
  /\ isopen = TRUE

Accept ==
  /\ isopen
  /\ accepted - resolved < Capacity
  /\ accepted' = accepted + 1
  /\ UNCHANGED <<resolved, delivered, isopen>>

Deliver ==
  /\ isopen
  /\ resolved < accepted
  /\ resolved' = resolved + 1
  /\ delivered' = Append(delivered, resolved + 1)
  /\ UNCHANGED <<accepted, isopen>>

Lose ==
  /\ isopen
  /\ resolved < accepted
  /\ resolved' = resolved + 1
  /\ UNCHANGED <<accepted, delivered, isopen>>

Close ==
  /\ isopen
  /\ isopen' = FALSE
  /\ resolved' = accepted
  /\ UNCHANGED <<accepted, delivered>>

FifoNext == Accept \/ Deliver \/ Lose \/ Close

FifoSpec == FifoInit /\ [][FifoNext]_fifo
=============================================================================
