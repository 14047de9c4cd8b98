----------------------------- MODULE MCVde2Fds -----------------------------
(* Vde2Fds for TLC: connections are interchangeable. *)
EXTENDS Vde2Fds, TLC

Symmetry == Permutations(Conns)
=============================================================================
