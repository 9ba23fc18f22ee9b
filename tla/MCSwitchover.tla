---------------------------- MODULE MCSwitchover ----------------------------
(* Machines and switches are alike. *)
EXTENDS Switchover, TLC
CONSTANTS s1, s2, b, c
Alike == Permutations(Switch) \cup Permutations(Machine)
=============================================================================
