----------------------------- MODULE MCSidebarNav -----------------------------
(* SidebarNav with one hosted app that renders pages, and another that is  *)
(* only listed.                                                            *)
EXTENDS SidebarNav, TLC

CONSTANTS calendar, notes, t1, t2, s1, s2

OneListed == 0 :> {calendar, notes}

MCEarlier == {Unset, [g \in Groups |-> "shut"]}

(* Tabs and slots are interchangeable. *)
Interchangeable == Permutations(Tabs) \cup Permutations(Slots)
=============================================================================
