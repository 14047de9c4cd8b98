------------------------------- MODULE MCHub -------------------------------
(* Hub with interchangeable connections. *)
EXTENDS Hub, TLC

Symmetry == Permutations(Conns)
=============================================================================
