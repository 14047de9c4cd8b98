------------------------------ MODULE VdeList ------------------------------
(***************************************************************************)
(* The list operations of common.h that change a list (GLib's).  A list is *)
(* a sequence of the data of its elements, the first element first.        *)
(***************************************************************************)
EXTENDS Integers, Sequences, FiniteSetsExt

vde_list_prepend(list, data) == <<data>> \o list

(* The first element with these data is taken out, if there is one. *)
vde_list_remove(list, data) ==
  LET found == {i \in DOMAIN list : list[i] = data}
      k == Min(found)
  IN  IF found = {} THEN list
                    ELSE [i \in 1..(Len(list) - 1) |-> IF i < k THEN list[i] ELSE list[i + 1]]
=============================================================================
