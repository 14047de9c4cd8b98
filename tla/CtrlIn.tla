------------------------------- MODULE CtrlIn -------------------------------
(***************************************************************************)
(* The receiving half of a control connection (engine_ctrl.c): the peer's  *)
(* byte stream, cut into packets at arbitrary places, is split at its \0   *)
(* bytes into the strings that ctrl_engine_deserialize_string is called    *)
(* with, and the incomplete last string is kept in inbuf.                  *)
(*                                                                         *)
(* A byte is NUL or one of Bytes.  The string that is put together from    *)
(* inbuf and a packet is copied without its \0, so what the callee finds   *)
(* after it is whatever the memory holds up to the next \0: one of Tails.  *)
(*                                                                         *)
(* A step is one round of the loop of ctrl_split_payload, as the callee    *)
(* runs in each of them.                                                   *)
(***************************************************************************)
EXTENDS Integers, Sequences, FiniteSetsExt, Functions

CONSTANTS
  NUL,             \* the separator
  Bytes,           \* the other bytes
  MAX_INBUF_SZ,    \* size of ctrl_conn.inbuf
  MaxPkt,          \* bound on the length of a packet, for model checking
  MaxStream,       \* bound on the bytes received, for model checking
  Tails            \* what may follow a string put together in inbuf_tmp

ASSUME InAssumption ==
  /\ NUL \notin Bytes
  /\ MAX_INBUF_SZ \in Nat
  /\ MaxPkt \in Nat
  /\ MaxStream \in Nat
  /\ Tails \subseteq Seq(Bytes)

VARIABLES
  inbuf,      \* the first inbuf_len bytes of ctrl_conn.inbuf
  buf,        \* the remaining bytes of the packet, while it is split
  splitting,  \* ctrl_split_payload runs
  in_open,    \* the connection is open
  received,   \* the bytes received: history
  strings,    \* the strings handed to ctrl_engine_deserialize_string: history
  ends        \* the places in received of the separators they ended at: history

invars == <<inbuf, buf, splitting, in_open, received, strings, ends>>

InTypeOK ==
  /\ inbuf \in Seq(Bytes)
  /\ Len(inbuf) <= MAX_INBUF_SZ
  /\ buf \in Seq(Bytes \cup {NUL})
  /\ splitting \in BOOLEAN
  /\ in_open \in BOOLEAN
  /\ received \in Seq(Bytes \cup {NUL})
  /\ strings \in Seq(Seq(Bytes))
  /\ ends \in Seq(Nat)

(* ctrl_engine_newconn *)
InInit ==
  /\ inbuf = <<>>
  /\ buf = <<>>
  /\ splitting = FALSE
  /\ in_open = TRUE
  /\ received = <<>>
  /\ strings = <<>>
  /\ ends = <<>>

-----------------------------------------------------------------------------
(* ctrl_engine_readcb hands a packet to ctrl_split_payload. *)
ctrl_engine_readcb(payload) ==
  /\ in_open
  /\ ~splitting
  /\ Len(received) + Len(payload) <= MaxStream
  /\ received' = received \o payload
  /\ buf' = payload
  /\ splitting' = TRUE
  /\ UNCHANGED <<inbuf, in_open, strings, ends>>

(* Mutant: inbuf is not emptied when its string is complete. *)
InbufAfterStale(in) == in

(* inbuf once its string was completed. *)
InbufAfter(in) == <<>>

(* The places of the separators in b: memchr finds the first. *)
Separators(b) == {i \in DOMAIN b : b[i] = NUL}

(* buf is moved past the string and its separator. *)
Rest(next) == SubSeq(buf, next + 1, Len(buf))

(* There is a separator: the string before it is complete. *)
CompleteString(tail) ==
  /\ splitting
  /\ Separators(buf) # {}
  /\ LET next == Min(Separators(buf))
         to_serial == inbuf \o SubSeq(buf, 1, next - 1)
     IN  /\ strings' = Append(strings, IF inbuf = <<>> THEN to_serial ELSE to_serial \o tail)
         /\ ends' = Append(ends, Len(received) - Len(buf) + next)
         /\ buf' = Rest(next)
  /\ inbuf' = InbufAfter(inbuf)
  /\ UNCHANGED <<splitting, in_open, received>>

(* Mutant: one byte more is let into inbuf. *)
FitsOffByOne == Len(buf) + Len(inbuf) <= MAX_INBUF_SZ + 1

(* Mutant: the bytes that are already in inbuf are not counted. *)
FitsAlone == Len(buf) <= MAX_INBUF_SZ

(* What is left of the packet can be kept in inbuf. *)
Fits == Len(buf) + Len(inbuf) <= MAX_INBUF_SZ

(* No separator is left: what remains is the beginning of a string. *)
KeepRest ==
  /\ splitting
  /\ Separators(buf) = {}
  /\ buf = <<>> \/ Fits
  /\ inbuf' = inbuf \o buf
  /\ buf' = <<>>
  /\ splitting' = FALSE
  /\ UNCHANGED <<in_open, received, strings, ends>>

(* It does not fit: ctrl_conn_fini and EPIPE close the connection. *)
DropRest ==
  /\ splitting
  /\ Separators(buf) = {}
  /\ ~(buf = <<>> \/ Fits)
  /\ inbuf' = <<>>
  /\ buf' = <<>>
  /\ splitting' = FALSE
  /\ in_open' = FALSE
  /\ UNCHANGED <<received, strings, ends>>

(* The payloads of up to MaxPkt bytes. *)
InPayloads == UNION {[1..n -> Bytes \cup {NUL}] : n \in 0..MaxPkt}

InNext ==
  \/ \E payload \in InPayloads : ctrl_engine_readcb(payload)
  \/ \E tail \in Tails : CompleteString(tail)
  \/ KeepRest
  \/ DropRest

InSpec == InInit /\ [][InNext]_invars

-----------------------------------------------------------------------------
(* The i-th string of the stream begins after the separator before it. *)
Start(i) == IF i = 1 THEN 1 ELSE ends[i - 1] + 1

(* The i-th string of the stream. *)
StringAt(i) == SubSeq(received, Start(i), ends[i] - 1)

(* There is a string for each separator of the packets and no other, in    *)
(* order, and inbuf holds the bytes after the last one: wherever the       *)
(* packets were cut.  A connection that is closed has still handed over    *)
(* every complete string.                                                  *)
SeparatedInOrder ==
  /\ Len(strings) = Len(ends)
  /\ \A i \in 1..(Len(ends) - 1) : ends[i] < ends[i + 1]
  /\ Range(ends) = {p \in 1..(Len(received) - Len(buf)) : received[p] = NUL}
  /\ in_open => inbuf \o buf = SubSeq(received, Start(Len(ends) + 1), Len(received))

(* The callback is called for "each complete string found", exactly once,  *)
(* in order, with exactly its bytes.                                       *)
SplitsTheStream ==
  /\ SeparatedInOrder
  /\ \A i \in 1..Len(ends) : strings[i] = StringAt(i)

(* The same, but for what may follow a string in memory. *)
SplitsUpToTails ==
  /\ SeparatedInOrder
  /\ \A i \in 1..Len(ends) :
       \E tail \in Tails \cup {<<>>} : strings[i] = StringAt(i) \o tail

(* The connection is closed only for a string longer than inbuf that has   *)
(* not ended yet, and never for a long one that has.                       *)
ClosedForLongString ==
  ~splitting => (in_open <=> Len(received) - Start(Len(ends) + 1) + 1 <= MAX_INBUF_SZ)
=============================================================================
