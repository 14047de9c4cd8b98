----------------------------- MODULE MCContext -----------------------------
(* Context for TLC: a module of each kind, a second hub, a broken one. *)
EXTENDS Context, TLC

File(id, kind, family, valid) ==
  [id |-> id, kind |-> kind, family |-> family, valid |-> valid]

ModuleFiles ==
  {File(1, "engine", "hub", TRUE),
   File(2, "transport", "vde2", TRUE),
   File(3, "conn_manager", "default", TRUE),
   File(4, "engine", "hub", TRUE),
   File(5, "transport", "udp", FALSE)}

Symmetry == Permutations(Objs) \cup Permutations(Names)
=============================================================================
