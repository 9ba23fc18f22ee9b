------------------------------ MODULE SlotPool ------------------------------
(***************************************************************************)
(* What the job queue promises of a pool, whichever processes claim, die,  *)
(* are reaped, drained or paused: the pool lends at most Size slots, each  *)
(* to one worker for one job.  A job's slot is lent only while a slot is   *)
(* free and the job has none, and it is back in the pool before anybody    *)
(* else gets it: a claim is never taken from one worker by another         *)
(* (plan-06-11 section 13, claim_for_pool, claim_owner.py).                *)
(***************************************************************************)
EXTENDS Naturals, FiniteSets

CONSTANTS Jobs, Workers, None, Size

VARIABLE owner    \* [Jobs -> Workers \cup {None}]: who runs a job, if anybody

Lent == {j \in Jobs : owner[j] # None}

Init == owner = [j \in Jobs |-> None]

\* A worker takes a slot for a job that has none.
Take(w, j) ==
    /\ owner[j] = None
    /\ Cardinality(Lent) < Size
    /\ owner' = [owner EXCEPT ![j] = w]

\* Slots come back, several at once when a drain or a home that answers again ends
\* what a worker held.
Return(S) ==
    /\ S \subseteq Lent
    /\ owner' = [j \in Jobs |-> IF j \in S THEN None ELSE owner[j]]

Next ==
    \/ \E w \in Workers, j \in Jobs : Take(w, j)
    \/ \E S \in SUBSET Jobs : Return(S)

Spec == Init /\ [][Next]_owner

\* No more slots are lent than the pool has.
Bounded == Cardinality(Lent) <= Size

=============================================================================
