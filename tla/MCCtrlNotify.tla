---------------------------- MODULE MCCtrlNotify ----------------------------
(* CtrlNotify for TLC: components and connections are interchangeable. *)
EXTENDS CtrlNotify, TLC

Symmetry == Permutations(Comps) \cup Permutations(Clients)
=============================================================================
