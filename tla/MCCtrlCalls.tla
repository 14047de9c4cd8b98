---------------------------- MODULE MCCtrlCalls ----------------------------
(* CtrlCalls for TLC: hubs and connections are interchangeable. *)
EXTENDS CtrlCalls, TLC

Symmetry == Permutations(Comps) \cup Permutations(Clients)
=============================================================================
