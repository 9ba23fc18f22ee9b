---------------------------- MODULE MCPlacement -----------------------------
(* A small cluster for TLC: the home and one node. *)
EXTENDS Placement, TLC

CONSTANTS home, node, c1, c2

Either == Permutations({c1, c2})
MCCapacity == [h \in Hosts |-> 1]
=============================================================================
