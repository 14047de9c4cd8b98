------------------------------ MODULE MCCtrlIn ------------------------------
(* CtrlIn for TLC: the memory after inbuf_tmp begins with a \0, or not. *)
EXTENDS CtrlIn

NoTail == {<<>>}
AnyTail == {<<>>} \cup {<<b>> : b \in Bytes}
=============================================================================
