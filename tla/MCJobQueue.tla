----------------------------- MODULE MCJobQueue -----------------------------
(* Small instances of JobQueue for TLC: two chained keys (the output of the *)
(* first triggers the second), two workers, the first with two slots.       *)
EXTENDS JobQueue, TLC

CONSTANTS k1, k2, w1, w2, t1, t2, t3

MCHost == [t \in Tasks |-> IF t = t3 THEN w2 ELSE w1]
MCChain == [k \in Keys |-> IF k = k1 THEN {k2} \cap Keys ELSE {}]
Slots == Permutations({t1, t2})
MCBack == [k \in Keys |-> IF k = k2 THEN {k1} ELSE {}]
MCNoEdges == [k \in Keys |-> {}]
=============================================================================
