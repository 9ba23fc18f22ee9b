------------------------ MODULE JobQueuePool_proofs ------------------------
(***************************************************************************)
(* The pool's slots, for every set of keys, workers and slots and every    *)
(* value of the bounds: the claims implement SlotPool, and no pool runs    *)
(* more jobs than its size.                                                *)
(***************************************************************************)
EXTENDS JobQueue_proofs, FiniteSetTheorems

-----------------------------------------------------------------------------
(* What a step may do to the rows in flight.                               *)

\* No row comes in flight, and one that stays in flight stays the same worker's.
Frees ==
    \A k \in Keys :
        rows'[k].state \in InFlight =>
            rows[k].state \in InFlight /\ rows'[k].owner = rows[k].owner /\ rows'[k].id = rows[k].id

\* Every row in flight stays in flight.
Stays == \A k \in Keys : rows[k].state \in InFlight => rows'[k].state \in InFlight

\* What a trigger makes of a row: in flight only if it was, and then as it was.
LEMMA EnqueuedStays ==
    ASSUME NEW k \in Keys, NEW r \in Row, NEW forced \in BOOLEAN, NEW level \in ForceLevel
    PROVE  /\ Enqueued(k, r, forced, level).state \in InFlight <=> r.state \in InFlight
           /\ Enqueued(k, r, forced, level).state \in InFlight =>
                /\ Enqueued(k, r, forced, level).owner = r.owner
                /\ Enqueued(k, r, forced, level).id = r.id
<1>1. CASE r.state \in Live
  BY <1>1, EnqueuedType DEF Joined
<1>2. CASE r.state \notin Live
  <2>1. Enqueued(k, r, forced, level) = NewRow(k, r, level)
    BY <1>2, EnqueuedType
  <2>2. NewRow(k, r, level).state = "pending"
    BY NewRowType
  <2> QED
    BY <1>2, <2>1, <2>2 DEF Live, InFlight
<1> QED
  BY <1>1, <1>2

\* A quiet step brings no row in flight.
LEMMA QuietFrees == ASSUME TypeOK, Quiet PROVE Frees
BY DEF Quiet, KeepsRows, KeepsRow, Frees

\* A trigger takes no row in flight or out of it.
LEMMA TriggerStays ==
    ASSUME TypeOK, NEW k \in Keys, NEW changed, NEW level \in Levels, Trigger(k, changed, level)
    PROVE  Frees /\ Stays
<1>0. rows \in [Keys -> Row] /\ rows[k] \in Row /\ level \in ForceLevel
  BY LevelsType DEF TypeOK
<1>1. CASE Fed(k)
  <2>1. PICK b \in BOOLEAN : b = (level # Plain)
    OBVIOUS
  <2>2. PICK q : q = Enqueued(k, rows[k], b, level)
    OBVIOUS
  <2>3. rows' = [rows EXCEPT ![k] = q]
    BY <1>1, <2>1, <2>2 DEF Trigger
  <2>4. /\ q.state \in InFlight <=> rows[k].state \in InFlight
        /\ q.state \in InFlight => q.owner = rows[k].owner /\ q.id = rows[k].id
    BY <1>0, <2>2, EnqueuedStays
  <2> QED
    BY <1>0, <2>3, <2>4 DEF Frees, Stays
<1>2. CASE ~Fed(k)
  BY <1>2 DEF Trigger, Frees, Stays
<1> QED
  BY <1>1, <1>2

\* The run of t ends: its row is out of flight, and the rows of other keys stay as
\* they are for whoever runs them.
Leaves(t) ==
    /\ rows'[task[t].key].state \notin InFlight
    /\ \A x \in Keys \ {task[t].key} :
         /\ rows'[x].state \in InFlight <=> rows[x].state \in InFlight
         /\ rows'[x].state \in InFlight => rows'[x].owner = rows[x].owner /\ rows'[x].id = rows[x].id

EndStep(t) ==
    \/ \E changed, waiting \in BOOLEAN, requests \in SUBSET Keys :
         Finish(t, changed, waiting, requests)
    \/ Cancelled(t) \/ Defer(t) \/ FailWrite(t)

LEMMA AfterEndLeaves ==
    ASSUME NEW k \in Keys, NEW r \in Row, NEW state \in Ended
    PROVE  AfterEnd(k, r, state).state \notin InFlight
<1>1. PICK q : q = AfterEnd(k, r, state)
  OBVIOUS
<1>2. q.state = "pending" \/ q.state = state
  BY <1>1, AfterEndType
<1> QED
  BY <1>1, <1>2 DEF Ended, InFlight

\* One row leaves the flight, and no other changes.
LEMMA OneLeaves ==
    ASSUME TypeOK, NEW t \in Tasks, task[t].key \in Keys, NEW q, q.state \notin InFlight,
           rows' = [rows EXCEPT ![task[t].key] = q]
    PROVE  Leaves(t)
BY DEF TypeOK, Leaves

\* A success sets its own row to done and feeds the rows of others.
LEMMA FinishLeaves ==
    ASSUME TypeOK, NEW t \in Tasks, NEW changed \in BOOLEAN, NEW waiting \in BOOLEAN,
           NEW requests \in SUBSET Keys, Finish(t, changed, waiting, requests), rows' # rows
    PROVE  Leaves(t)
<1>0. PICK k \in Keys : k = task[t].key
  BY DEF TypeOK, Finish, Busy
<1>1. CASE ~Holds(t, k)
  BY <1>0, <1>1 DEF Finish
<1>2. CASE Holds(t, k)
  <2> DEFINE edges == IF waiting THEN {} ELSE IF changed THEN Dependents[k] ELSE Always[k]
             level == IF task[t].force = Cascade THEN Cascade ELSE Plain
             fired == {x \in edges \cup requests : Fed(x)}
             forced == IF level = Cascade THEN edges \cap fired ELSE {}
             how(x) == IF x \in forced THEN level ELSE Plain
  <2>1. rows' = [x \in Keys |->
              IF x = k THEN AfterEnd(k, rows[k], "done")
              ELSE IF x \in fired THEN Enqueued(x, rows[x], FALSE, how(x))
              ELSE rows[x]]
    BY <1>0, <1>2, ZenonT(60) DEF Finish
  <2>2. \A x : how(x) \in ForceLevel
    BY DEF ForceLevel, Plain, Cascade
  <2> HIDE DEF how, fired
  <2>3. rows'[k].state \notin InFlight
    BY <2>1, AfterEndLeaves DEF TypeOK, Ended
  <2>4. ASSUME NEW x \in Keys, x # k
        PROVE  /\ rows'[x].state \in InFlight <=> rows[x].state \in InFlight
               /\ rows'[x].state \in InFlight => rows'[x].owner = rows[x].owner /\ rows'[x].id = rows[x].id
    <3>1. CASE x \in fired
      <4>1. PICK l \in ForceLevel : l = how(x)
        BY <2>2
      <4>2. rows'[x] = Enqueued(x, rows[x], FALSE, l) /\ rows[x] \in Row
        BY <2>1, <2>4, <3>1, <4>1 DEF TypeOK
      <4>3. PICK b \in BOOLEAN : b = FALSE
        OBVIOUS
      <4>4. PICK e : e = Enqueued(x, rows[x], b, l)
        OBVIOUS
      <4>5. /\ e.state \in InFlight <=> rows[x].state \in InFlight
            /\ e.state \in InFlight => e.owner = rows[x].owner /\ e.id = rows[x].id
        BY <2>4, <4>2, <4>4, EnqueuedStays
      <4>6. rows'[x] = e
        BY <4>2, <4>3, <4>4
      <4> QED
        BY <4>5, <4>6
    <3>2. CASE x \notin fired
      BY <2>1, <2>4, <3>2
    <3> QED
      BY <3>1, <3>2
  <2> QED
    BY <1>0, <2>3, <2>4 DEF Leaves
<1> QED
  BY <1>1, <1>2

\* Whatever ends a run, the task is gone; its row leaves the flight, or was lost before.
LEMMA EndLeaves ==
    ASSUME TypeOK, NEW t \in Tasks, EndStep(t)
    PROVE  /\ Busy(t) /\ task[t].key \in Keys /\ SetTask(t, Idle)
           /\ rows' = rows \/ Leaves(t)
           /\ UNCHANGED <<up, away, drain>>
<1> DEFINE k == task[t].key
<1>1. /\ Busy(t) /\ SetTask(t, Idle)
      /\ UNCHANGED <<up, away, drain>>
  <2>1. ASSUME NEW changed, NEW waiting, NEW requests, Finish(t, changed, waiting, requests)
        PROVE  Busy(t) /\ SetTask(t, Idle) /\ UNCHANGED <<up, away, drain>>
    BY <2>1 DEF Finish, Busy
  <2>2. CASE Cancelled(t)
    BY <2>2 DEF Cancelled, Busy
  <2>3. CASE Defer(t)
    BY <2>3 DEF Defer, Busy
  <2>4. CASE FailWrite(t)
    BY <2>4 DEF FailWrite, Busy
  <2> QED
    BY <2>1, <2>2, <2>3, <2>4 DEF EndStep
<1>2. k \in Keys /\ rows \in [Keys -> Row] /\ rows[k] \in Row /\ task[t] \in Task
  BY <1>1 DEF TypeOK
<1>3. CASE Cancelled(t)
  <2>1. PICK q : q = AfterEnd(k, rows[k], "cancelled")
    OBVIOUS
  <2>2. rows' = rows \/ rows' = [rows EXCEPT ![k] = q]
    BY <1>3, <2>1 DEF Cancelled
  <2>3. q.state \notin InFlight
    BY <1>2, <2>1, AfterEndLeaves DEF Ended
  <2> QED
    BY <1>1, <1>2, <2>2, <2>3, OneLeaves
<1>4. CASE Defer(t)
  <2>1. PICK q : q = [rows[k] EXCEPT !.state = "paused", !.owner = None, !.later = TRUE]
    OBVIOUS
  <2>2. rows' = rows \/ rows' = [rows EXCEPT ![k] = q]
    BY <1>4, <2>1 DEF Defer
  <2>3. q.state = "paused"
    BY <1>2, <2>1 DEF Row
  <2>4. q.state \notin InFlight
    BY <2>3 DEF InFlight
  <2> QED
    BY <1>1, <1>2, <2>2, <2>4, OneLeaves
<1>5. CASE FailWrite(t)
  <2>1. PICK q : q = [Again(rows[k]) EXCEPT !.parked = TRUE, !.attempts = Refunded(rows[k])]
    OBVIOUS
  <2>2. PICK p : p = [Again(rows[k]) EXCEPT !.max = task[t].tries]
    OBVIOUS
  <2>3. task[t].tries \in Nat
    BY <1>2 DEF Task
  <2>4. q.state = "pending" /\ p.state = "pending"
    BY <1>2, <2>1, <2>2, <2>3, RunsAgainType DEF RunsAgain
  <2>5. PICK e : e = AfterEnd(k, rows[k], "failed")
    OBVIOUS
  <2>6. \/ rows' = rows
        \/ rows' = [rows EXCEPT ![k] = q]
        \/ rows' = [rows EXCEPT ![k] = p]
        \/ rows' = [rows EXCEPT ![k] = e]
    BY <1>5, <2>1, <2>2, <2>5 DEF FailWrite
  <2>7. q.state \notin InFlight /\ p.state \notin InFlight /\ e.state \notin InFlight
    BY <1>2, <2>4, <2>5, AfterEndLeaves DEF InFlight, Ended
  <2> QED
    BY <1>1, <1>2, <2>6, <2>7, OneLeaves
<1> QED
  BY <1>1, <1>2, <1>3, <1>4, <1>5, FinishLeaves DEF EndStep

\* Any end of a run brings no row in flight.
LEMMA LeavesFree == ASSUME NEW t \in Tasks, Leaves(t), task[t].key \in Keys PROVE Frees
BY DEF Leaves, Frees

-----------------------------------------------------------------------------
(* The claims are loans of the pool's slots.                               *)

Owners == [k \in Keys |-> rows[k].owner]

Loans == INSTANCE SlotPool_proofs WITH Jobs <- Keys, Size <- PoolSize, owner <- Owners

\* SlotPool counts as the queue does, and lends what the rows say.
LEMMA PoolCounts ==
    /\ \A S : Pool!Cardinality(S) = Cardinality(S)
    /\ Pool!Lent = {k \in Keys : rows[k].owner # None}
<1>1. \A S : Pool!Cardinality(S) = Cardinality(S)
  BY DEF Pool!Cardinality, Cardinality
<1>2. Pool!Lent = {k \in Keys : rows[k].owner # None}
  BY DEF Pool!Lent
<1> QED
  BY <1>1, <1>2

\* A claim takes a slot that is free, for a row nobody has.
LEMMA ClaimLends ==
    ASSUME TypeOK, Parts, NEW w \in Workers, NEW k \in Keys, ClaimRow(w, k)
    PROVE  Pool!Take(w, k)
<1>1. /\ rows[k].state \in {"pending", "paused"} /\ rows'[k].owner = w
      /\ \A x \in Keys \ {k} : rows'[x] = rows[x]
  BY ClaimTakes DEF Taken, Claimed
<1>2. \A x \in Keys : (rows[x].state \in InFlight) <=> (rows[x].owner # None)
  BY SameRows DEF Owned
<1>3. Pool!Lent = {x \in Keys : rows[x].state \in InFlight}
  BY <1>2, PoolCounts
<1>4. Pool!Cardinality(Pool!Lent) < PoolSize
  BY <1>3, PoolCounts DEF ClaimRow, Occupied
<1>5. [x \in Keys |-> rows[x].owner][k] = None
  BY <1>1, <1>2 DEF InFlight
<1>6. [x \in Keys |-> rows'[x].owner] = [[x \in Keys |-> rows[x].owner] EXCEPT ![k] = w]
  BY <1>1
<1> QED
  BY <1>4, <1>5, <1>6 DEF Pool!Take

\* Any other step gives slots back, or none.
LEMMA FreesReturn ==
    ASSUME TypeOK, Parts, Parts', Frees
    PROVE  \E S \in SUBSET Keys : Pool!Return(S)
<1> DEFINE S == {k \in Keys : rows[k].owner # None /\ rows'[k].owner = None}
<1>1. \A x \in Keys : (rows[x].state \in InFlight) <=> (rows[x].owner # None)
  BY DEF Parts, KeyInv, Owned
<1>2. \A x \in Keys : (rows'[x].state \in InFlight) <=> (rows'[x].owner # None)
  BY DEF Parts, KeyInv, Owned
<1>3. \A x \in Keys : rows'[x].owner = IF x \in S THEN None ELSE rows[x].owner
  BY <1>1, <1>2 DEF Frees
<1>4. S \in SUBSET Keys /\ \A x \in S : rows[x].owner # None
  OBVIOUS
<1> HIDE DEF S
<1>5. [x \in Keys |-> rows'[x].owner]
        = [j \in Keys |-> IF j \in S THEN None ELSE [x \in Keys |-> rows[x].owner][j]]
  BY <1>3
<1>6. S \subseteq Pool!Lent
  BY <1>4, PoolCounts
<1>7. PICK T \in SUBSET Keys : T = S
  BY <1>4
<1>8. WITNESS T \in SUBSET Keys
<1> QED
  BY <1>5, <1>6, <1>7 DEF Pool!Return

\* What every step but a claim does to the rows.
LEMMA OthersFree ==
    ASSUME TypeOK, Parts, [Next]_vars,
           ~\E w \in Workers, k \in Keys : ClaimRow(w, k)
    PROVE  Frees
<1>0. rows \in [Keys -> Row]
  BY DEF TypeOK
<1>1. CASE rows' = rows
  BY <1>1 DEF Frees
<1>2. CASE QuietAction
  BY <1>2, QuietActions, QuietFrees
<1>3. ASSUME NEW k \in Keys, NEW changed \in BOOLEAN, NEW level \in Levels, Trigger(k, changed, level)
      PROVE  Frees
  BY <1>3, TriggerStays
<1>4. ASSUME NEW t \in Tasks, EndStep(t) PROVE Frees
  BY <1>1, <1>4, EndLeaves, LeavesFree
<1>7. ASSUME NEW t \in Tasks, Begin(t) \/ \E class \in {"parking", "transient", "unknown", "permanent"} : FailDecide(t, class)
      PROVE  rows' = rows
  BY <1>7 DEF Begin, FailDecide, db
<1>8. CASE UNCHANGED vars
  BY <1>1, <1>8 DEF vars, db
<1>9. \A t \in Tasks, k \in Keys : ~Claim(t, k)
  BY QueueAssumption DEF QueueAssumption, Claim
<1>10. \A w \in Workers, k \in Keys : ~ClaimLost(w, k)
  BY DEF ClaimLost
<1> QED
  BY <1>1, <1>2, <1>3, <1>4, <1>7, <1>8, <1>9, <1>10
     DEF Next, TaskStep, EndRun, EndStep, QuietAction

\* Every step lends a slot or gives some back.
LEMMA StepsLend ==
    ASSUME TypeOK, Parts, TypeOK', Parts', [Next]_vars
    PROVE  Pool!Next
<1>1. CASE \E w \in Workers, k \in Keys : ClaimRow(w, k)
  BY <1>1, ClaimLends DEF Pool!Next
<1>2. CASE ~\E w \in Workers, k \in Keys : ClaimRow(w, k)
  BY <1>2, OthersFree, FreesReturn DEF Pool!Next
<1> QED
  BY <1>1, <1>2

\* The claims of every run of the queue are loans of the pool's slots.
THEOREM ClaimsAreLoans == Spec => SlotsLent
<1>1. Init => Pool!Init
  BY DEF Init, Pool!Init, NoRow
<1>2. ASSUME TypeOK, Parts, TypeOK', Parts', [Next]_vars
      PROVE  Pool!Next
  BY <1>2, StepsLend
<1>3. IInv' => TypeOK' /\ Parts'
  BY IInvParts, PTL
<1>4. IInv /\ IInv' /\ [Next]_vars => Pool!Next
  BY <1>2, <1>3, IInvParts
<1> QED
  BY <1>1, <1>4, Inductive, PTL DEF Spec, SlotsLent, Pool!Spec

\* No more rows of a pool are in flight than its size: what SlotPool keeps, the
\* claims keep.
LEMMA LoansBounded ==
    ASSUME TypeOK, Parts, Pool!Bounded, [Pool!Next]_Owners
    PROVE  Pool!Bounded'
<1>1. /\ \A S : Loans!IsFiniteSet(S) <=> IsFiniteSet(S)
      /\ \A S : Loans!Cardinality(S) = Cardinality(S)
  BY DEF Loans!IsFiniteSet, IsFiniteSet, Loans!Cardinality, Cardinality
<1>2. Loans!IsFiniteSet(Keys) /\ PoolSize \in Nat
  BY <1>1, QueueAssumption DEF QueueAssumption
<1>3. Owners \in [Keys -> Workers \cup {None}]
  BY DEF TypeOK, Row, Owners
<1>4. (Loans!Bounded <=> Pool!Bounded) /\ (Loans!Bounded <=> Pool!Bounded)'
  BY DEF Loans!Bounded, Pool!Bounded, Loans!Lent, Pool!Lent, Owners, Loans!Cardinality, Pool!Cardinality
<1>5. CASE UNCHANGED Owners
  BY <1>5 DEF Pool!Bounded, Pool!Lent, Owners
<1>6. ASSUME NEW w \in Workers, NEW k \in Keys, Pool!Take(w, k)
      PROVE  Pool!Bounded'
  <2>1. Loans!Take(w, k)
    BY <1>6 DEF Pool!Take, Loans!Take, Pool!Lent, Loans!Lent, Owners, Pool!Cardinality, Loans!Cardinality
  <2> QED
    BY <1>2, <1>3, <1>4, <2>1, Loans!TakeBounded
<1>7. ASSUME NEW S \in SUBSET Keys, Pool!Return(S)
      PROVE  Pool!Bounded'
  <2>1. Loans!Return(S)
    BY <1>7 DEF Pool!Return, Loans!Return, Pool!Lent, Loans!Lent, Owners
  <2> QED
    BY <1>2, <1>3, <1>4, <2>1, Loans!ReturnBounded
<1> QED
  BY <1>5, <1>6, <1>7 DEF Pool!Next

-----------------------------------------------------------------------------
(* The pool's handlers.                                                    *)

Clean == used.faults = 0 /\ used.commands = 0

\* Every handler still holds the row it was started for, and no two share one.
AllHeld ==
    /\ away = {}
    /\ \A t \in Tasks : Busy(t) => Holds(t, task[t].key)
    /\ \A s, t \in Tasks : Busy(s) /\ Busy(t) /\ task[s].key = task[t].key => s = t

\* No task comes to life, and one that lives on runs what it ran.
RunsOn ==
    \A t \in Tasks :
        Busy(t)' => Busy(t) /\ task'[t].key = task[t].key /\ task'[t].id = task[t].id

\* The row of every task that lives on stays in flight for it.
RunsHeld ==
    \A t \in Tasks, k \in Keys :
        Busy(t)' /\ task[t].key = k /\ rows[k].state \in InFlight =>
            /\ rows'[k].state \in InFlight
            /\ rows'[k].owner = rows[k].owner /\ rows'[k].id = rows[k].id

LEMMA RunsOnHeld ==
    ASSUME TypeOK, AllHeld, RunsOn, RunsHeld, away' = {}
    PROVE  AllHeld'
<1>1. ASSUME NEW t \in Tasks, Busy(t)' PROVE Holds(t, task[t].key)'
  <2>1. /\ Busy(t) /\ Holds(t, task[t].key) /\ task[t].key \in Keys
        /\ task'[t].key = task[t].key /\ task'[t].id = task[t].id
    BY <1>1 DEF TypeOK, AllHeld, RunsOn
  <2> QED
    BY <1>1, <2>1 DEF RunsHeld, Holds, RunsRow
<1>2. ASSUME NEW s \in Tasks, NEW t \in Tasks, Busy(s)', Busy(t)', task'[s].key = task'[t].key
      PROVE  s = t
  BY <1>2 DEF AllHeld, RunsOn
<1> QED
  BY <1>1, <1>2 DEF AllHeld

LEMMA StaysHeld == ASSUME TypeOK, Frees, Stays PROVE RunsHeld
BY DEF Frees, Stays, RunsHeld

LEMMA QuietRunsOn == ASSUME TypeOK, Quiet PROVE RunsOn
<1>1. ASSUME NEW t \in Tasks, Busy(t)'
      PROVE  Busy(t) /\ task'[t].key = task[t].key /\ task'[t].id = task[t].id
  BY <1>1, TaskKept DEF TypeOK, Quiet, KeepsTasks, Busy
<1> QED
  BY <1>1 DEF RunsOn

\* A claim starts one handler, on a row none of the others runs.
LEMMA ClaimHeld ==
    ASSUME TypeOK, AllHeld, NEW t \in Tasks, NEW k \in Keys, Claim(t, k)
    PROVE  AllHeld'
<1>1. Host[t] \in Workers
  BY QueueAssumption DEF QueueAssumption
<1>2. Taken(Host[t], k) /\ Fresh(Host[t], k) /\ away' = away
  BY <1>1, ClaimTakes, ClaimMakesTask DEF Claim
<1>3. ASSUME NEW s \in Tasks, Busy(s) PROVE task[s].key \in Keys \ {k}
  <2>1. Holds(s, task[s].key) /\ task[s].key \in Keys
    BY <1>3 DEF AllHeld, TypeOK
  <2>2. rows[k].state \notin InFlight
    BY <1>2 DEF Taken, InFlight
  <2> QED
    BY <2>1, <2>2 DEF Holds
<1>4. ASSUME NEW s \in Tasks, Busy(s)' PROVE Holds(s, task[s].key)'
  <2>1. CASE task'[s] = task[s]
    <3>1. Busy(s) /\ Holds(s, task[s].key)
      BY <1>4, <2>1 DEF AllHeld, Busy
    <3>2. rows'[task[s].key] = rows[task[s].key]
      BY <1>2, <1>3, <3>1 DEF Taken
    <3> QED
      BY <2>1, <3>1, <3>2 DEF Holds, RunsRow, Busy
  <2>2. CASE task'[s] # task[s]
    <3>1. Host[s] = Host[t] /\ task'[s].key = k /\ task'[s].id = rows[k].id
      BY <1>2, <2>2 DEF Fresh
    <3>2. rows'[k].state \in InFlight /\ rows'[k].owner = Host[t] /\ rows'[k].id = rows[k].id
      BY <1>2 DEF Taken, Claimed, InFlight
    <3> QED
      BY <1>4, <3>1, <3>2 DEF Holds, RunsRow
  <2> QED
    BY <2>1, <2>2
<1>5. ASSUME NEW r \in Tasks, NEW s \in Tasks, Busy(r)', Busy(s)', task'[r].key = task'[s].key
      PROVE  r = s
  <2>1. ASSUME NEW x \in Tasks, Busy(x)'
        PROVE  \/ Busy(x) /\ task'[x].key = task[x].key /\ task'[x].key # k
               \/ ~Busy(x) /\ task'[x].key = k
    BY <1>2, <1>3, <2>1 DEF Fresh, Busy
  <2>2. CASE Busy(r) /\ Busy(s)
    BY <1>5, <2>1, <2>2 DEF AllHeld
  <2>3. CASE ~Busy(r) /\ ~Busy(s)
    BY <1>2, <1>5, <2>3 DEF Fresh
  <2> QED
    BY <1>5, <2>1, <2>2, <2>3
<1> QED
  BY <1>2, <1>4, <1>5 DEF AllHeld

\* The end of a run ends its handler with it.
LEMMA EndHeld ==
    ASSUME TypeOK, AllHeld, NEW t \in Tasks, EndStep(t)
    PROVE  AllHeld'
<1>1. /\ Busy(t) /\ task[t].key \in Keys /\ SetTask(t, Idle)
      /\ rows' = rows \/ Leaves(t)
      /\ away' = {}
  BY EndLeaves DEF AllHeld
<1>2. \A s \in Tasks : Busy(s)' => s # t /\ task'[s] = task[s]
  BY <1>1, IdleType DEF SetTask, TypeOK, Busy
<1>3. RunsOn
  BY <1>2 DEF RunsOn, Busy
<1>4. ASSUME NEW s \in Tasks, NEW k \in Keys, Busy(s)', task[s].key = k, rows[k].state \in InFlight
      PROVE  /\ rows'[k].state \in InFlight
             /\ rows'[k].owner = rows[k].owner /\ rows'[k].id = rows[k].id
  <2>1. s # t /\ Busy(s)
    BY <1>2, <1>4 DEF Busy
  <2>2. k # task[t].key
    BY <1>1, <1>4, <2>1 DEF AllHeld
  <2> QED
    BY <1>1, <1>4, <2>2 DEF Leaves
<1> QED
  BY <1>1, <1>3, <1>4, RunsOnHeld DEF RunsHeld

\* A drain whose grace is over takes rows and handlers away together.
LEMMA DrainForceHeld ==
    ASSUME TypeOK, AllHeld, NEW w \in Workers, DrainForce(w), RunsOn
    PROVE  AllHeld'
<1>1. ASSUME NEW t \in Tasks, NEW k \in Keys, Busy(t)', task[t].key = k, rows[k].state \in InFlight
      PROVE  rows'[k] = rows[k]
  <2>1. Busy(t) /\ ~(Host[t] = w /\ k \in drain[w])
    BY <1>1, IdleType DEF RunsOn, DrainForce, Busy
  <2>2. rows[k].owner = Host[t]
    BY <1>1, <2>1 DEF AllHeld, Holds
  <2>3. k \notin HeldBy(w) \cap drain[w]
    BY <2>1, <2>2 DEF HeldBy
  <2> QED
    BY <2>3 DEF DrainForce, PauseAll
<1>2. RunsHeld
  BY <1>1 DEF RunsHeld
<1> QED
  BY <1>2, RunsOnHeld DEF DrainForce, AllHeld

\* A reap that is no fault finds a row no handler beats for.
LEMMA ReapHeld ==
    ASSUME TypeOK, AllHeld, NEW k \in Keys, Reap(k), ~Beating(k), RunsOn
    PROVE  AllHeld'
<1>1. ASSUME NEW t \in Tasks, Busy(t)' PROVE task[t].key # k
  BY <1>1 DEF RunsOn, AllHeld, Beating
<1>2. RunsHeld
  BY <1>1 DEF RunsHeld, Reap, PauseAll
<1> QED
  BY <1>2, RunsOnHeld DEF Reap, procs, AllHeld

\* The other quiet steps without a fault or a command leave the flight as it is.
LEMMA CalmStays ==
    ASSUME TypeOK, AllHeld, QuietAction, Clean',
           ~\E k \in Keys : Reap(k), ~\E w \in Workers : DrainForce(w), ~\E t \in Tasks : Defer(t)
    PROVE  away' = {} /\ Stays
<1> USE DEF db, procs, hist
<1>0. /\ rows \in [Keys -> Row] /\ task \in [Tasks -> Task] /\ away = {}
      /\ used \in [{"triggers", "faults", "failures", "commands", "switches"} -> Nat]
  BY DEF TypeOK, AllHeld
<1>1. ~Spend("faults") /\ ~Spend("commands")
  BY <1>0 DEF Clean, Spend
<1>2. CASE rows' = rows /\ away' = away
  BY <1>0, <1>2 DEF Stays
<1>3. ASSUME NEW k \in Keys, Due(k) \/ Release(k) PROVE away' = {} /\ Stays
  <2>1. rows[k].state \notin InFlight /\ away' = away
    BY <1>3 DEF Due, Release, InFlight
  <2>2. ASSUME NEW x \in Keys, x # k PROVE rows'[x] = rows[x]
    BY <1>0, <1>3, <2>2 DEF Due, Release
  <2> QED
    BY <1>0, <2>1, <2>2 DEF Stays
<1>4. ASSUME NEW k \in Keys, Operate(k) PROVE away' = {} /\ Stays
  <2>1. ~(Pause(k) \/ ForcePause(k) \/ Resume(k) \/ Cancel(k))
    BY <1>1 DEF Pause, ForcePause, Resume, Cancel, Command
  <2>2. \/ rows' = rows
        \/ \E b \in BOOLEAN : rows' = [rows EXCEPT ![k] = [rows[k] EXCEPT !.pauseReq = b]]
    BY <1>0, <1>4, <2>1 DEF Operate, PauseStage, ResumeStage
  <2>3. \A b \in BOOLEAN : [rows[k] EXCEPT !.pauseReq = b].state = rows[k].state
    BY <1>0 DEF Row
  <2>4. away' = away
    BY <1>4, <2>1 DEF Operate, PauseStage, ResumeStage
  <2> QED
    BY <1>0, <2>2, <2>3, <2>4 DEF Stays
<1>5. ASSUME NEW k \in Keys, NEW state, SwitchStage(k, state) PROVE away' = {} /\ Stays
  BY <1>2, <1>5 DEF SwitchStage
<1>6. ASSUME NEW t \in Tasks, MarkRunning(t) PROVE away' = {} /\ Stays
  <2>1. PICK k \in Keys : k = task[t].key
    BY <1>6 DEF MarkRunning, TypeOK, Busy
  <2>2. PICK q : q = [rows[k] EXCEPT !.state = "running"]
    OBVIOUS
  <2>3. q.state \in InFlight
    BY <1>0, <2>2 DEF Row, InFlight
  <2>4. rows' = rows \/ rows' = [rows EXCEPT ![k] = q]
    BY <1>0, <1>6, <2>1, <2>2 DEF MarkRunning
  <2> QED
    BY <1>0, <1>6, <2>3, <2>4 DEF MarkRunning, Stays
<1>7. \A w \in Workers : ~WorkerFails(w)
  BY <1>0, <1>1 DEF WorkerFails, Crash, LoseHome, StopInFlight, HomeBack
<1>8. ASSUME NEW w \in Workers, Drain(w) PROVE away' = {} /\ Stays
  <2>0. ASSUME NEW S, NEW b \in BOOLEAN,
               rows' = [k \in Keys |-> IF k \in S THEN [rows[k] EXCEPT !.pauseReq = b] ELSE rows[k]]
        PROVE  Stays
    <3>1. \A k \in Keys : [rows[k] EXCEPT !.pauseReq = b].state = rows[k].state
      BY <1>0 DEF Row
    <3> QED
      BY <2>0, <3>1 DEF Stays
  <2>1. ASSUME NEW S \in SUBSET Keys, DrainAsk(w, S) PROVE away' = {} /\ Stays
    BY <1>0, <2>0, <2>1 DEF DrainAsk
  <2>2. CASE DrainClean(w)
    BY <1>2, <2>2 DEF DrainClean
  <2>3. CASE DrainUnask(w)
    BY <1>0, <2>0, <2>3 DEF DrainUnask
  <2> QED
    BY <1>8, <2>1, <2>2, <2>3 DEF Drain
<1> QED
  BY <1>3, <1>4, <1>5, <1>6, <1>7, <1>8 DEF QuietAction

\* What is spent is never taken back.
LEMMA CleanBefore ==
    ASSUME TypeOK, [Next]_vars, Clean'
    PROVE  Clean
<1> USE DEF db, procs, hist
<1>1. CASE used' = used
  BY <1>1 DEF Clean
<1>2. ASSUME NEW what \in {"triggers", "faults", "failures", "commands", "switches"}, Spend(what)
      PROVE  Clean
  <2>1. used \in [{"triggers", "faults", "failures", "commands", "switches"} -> Nat]
    BY DEF TypeOK
  <2> QED
    BY <1>2, <2>1 DEF Clean, Spend
<1>3. ASSUME NEW k \in Keys, Due(k) \/ Release(k) \/ Reap(k) \/ Operate(k) PROVE Clean
  BY <1>1, <1>2, <1>3
     DEF Due, Release, Reap, Operate, Pause, ForcePause, Resume, Cancel, Command, PauseStage,
         ResumeStage
<1>4. ASSUME NEW t \in Tasks, TaskStep(t) PROVE Clean
  <2>1. CASE \E changed, waiting \in BOOLEAN, requests \in SUBSET Keys :
                Finish(t, changed, waiting, requests)
    BY <1>1, <1>2, <2>1 DEF Finish
  <2>2. CASE \E class \in {"parking", "transient", "unknown", "permanent"} : FailDecide(t, class)
    BY <1>2, <2>2 DEF FailDecide
  <2>3. CASE MarkRunning(t) \/ Begin(t) \/ Cancelled(t) \/ Defer(t) \/ FailWrite(t)
    BY <1>1, <1>2, <2>3 DEF MarkRunning, Begin, Cancelled, Defer, FailWrite
  <2> QED
    BY <1>4, <2>1, <2>2, <2>3 DEF TaskStep, EndRun
<1>5. ASSUME NEW w \in Workers, WorkerFails(w) \/ Drain(w) PROVE Clean
  BY <1>1, <1>2, <1>5
     DEF WorkerFails, Crash, LoseHome, StopInFlight, HomeBack,
         Drain, DrainAsk, DrainClean, DrainUnask, DrainForce
<1>6. ASSUME \/ \E k \in Keys, changed \in BOOLEAN, level \in Levels : Trigger(k, changed, level)
             \/ \E k \in Keys, state \in {"on", "off", "held"} : SwitchStage(k, state)
             \/ \E t \in Tasks, k \in Keys : Claim(t, k)
             \/ \E w \in Workers, k \in Keys : ClaimLost(w, k)
      PROVE  Clean
  BY <1>1, <1>2, <1>6 DEF Trigger, SwitchStage, Claim, ClaimLost
<1>7. CASE UNCHANGED vars
  BY <1>1, <1>7 DEF vars
<1> QED
  BY <1>3, <1>4, <1>5, <1>6, <1>7 DEF Next

\* The steps of a handler that leave its row alone.
LEMMA OwnWork ==
    ASSUME TypeOK, NEW t \in Tasks,
           \/ Begin(t)
           \/ \E class \in {"parking", "transient", "unknown", "permanent"} : FailDecide(t, class)
    PROVE  RunsOn
<1> DEFINE k == task[t].key
           SameWork(b) == b = Idle \/ (b.key = k /\ b.id = task[t].id)
<1>1. task \in [Tasks -> Task] /\ task[t] \in Task /\ Busy(t)
  BY DEF TypeOK, Begin, FailDecide, Busy
<1>2. ASSUME NEW b, SetTask(t, b), SameWork(b) PROVE RunsOn
  <2>1. \A s \in Tasks : task'[s] = IF s = t THEN b ELSE task[s]
    BY <1>1, <1>2 DEF SetTask
  <2> QED
    BY <1>1, <1>2, <2>1, IdleType DEF RunsOn, Busy
<1>3. ASSUME NEW b, b = [[task[t] EXCEPT !.seen = input[k]]
                            EXCEPT !.phase = "working", !.seenForce = asked[k]]
      PROVE  SameWork(b)
  BY <1>1, <1>3 DEF Task
<1>4. ASSUME NEW b, b = [[task[t] EXCEPT !.seen = input[k]] EXCEPT !.phase = "skipping"]
      PROVE  SameWork(b)
  BY <1>1, <1>4 DEF Task
<1>5. ASSUME NEW b, NEW verdict, NEW tries,
             b = [task[t] EXCEPT !.phase = "failing", !.verdict = verdict, !.tries = tries]
      PROVE  SameWork(b)
  BY <1>1, <1>5 DEF Task
<1> HIDE DEF SameWork
<1>6. CASE Begin(t)
  <2>1. \E b : SetTask(t, b) /\ SameWork(b)
    BY <1>3, <1>4, <1>6 DEF Begin
  <2> QED
    BY <1>2, <2>1
<1>7. ASSUME NEW class \in {"parking", "transient", "unknown", "permanent"}, FailDecide(t, class)
      PROVE  RunsOn
  <2>1. SameWork(Idle)
    BY DEF SameWork
  <2>2. \E b : SetTask(t, b) /\ SameWork(b)
    BY <1>5, <1>7, <2>1 DEF FailDecide
  <2> QED
    BY <1>2, <2>2
<1> QED
  BY <1>6, <1>7

\* As long as nothing failed, every handler keeps the row it runs.
LEMMA HeldKept ==
    ASSUME TypeOK, Parts, [Next]_vars, Clean => AllHeld, Clean'
    PROVE  AllHeld'
<1>1. /\ used \in [{"triggers", "faults", "failures", "commands", "switches"} -> Nat]
      /\ ControlType
  BY TypeParts DEF TypeOK, ControlType
<1>2. Clean
  BY CleanBefore
<1>3. AllHeld
  BY <1>2
<1>4. CASE QuietAction
  <2>1. Quiet /\ Frees /\ RunsOn
    BY <1>4, QuietActions, QuietFrees, QuietRunsOn
  <2>2. ASSUME NEW k \in Keys, Reap(k) PROVE AllHeld'
    <3>1. ~Beating(k)
      BY <1>1, <2>2 DEF Reap, Spend, Clean
    <3> QED
      BY <1>3, <2>1, <2>2, <3>1, ReapHeld
  <2>3. ASSUME NEW w \in Workers, DrainForce(w) PROVE AllHeld'
    BY <1>3, <2>1, <2>3, DrainForceHeld
  <2>4. ASSUME NEW t \in Tasks, Defer(t) PROVE AllHeld'
    BY <1>3, <2>4, EndHeld DEF EndStep
  <2>5. CASE /\ ~\E k \in Keys : Reap(k)
             /\ ~\E w \in Workers : DrainForce(w)
             /\ ~\E t \in Tasks : Defer(t)
    BY <1>3, <1>4, <2>1, <2>5, CalmStays, StaysHeld, RunsOnHeld
  <2> QED
    BY <2>2, <2>3, <2>4, <2>5
<1>5. ASSUME NEW k \in Keys, NEW changed \in BOOLEAN, NEW level \in Levels, Trigger(k, changed, level)
      PROVE  AllHeld'
  <2>1. UNCHANGED <<task, away>>
    BY <1>5 DEF Trigger, procs
  <2>2. Frees /\ Stays
    BY <1>5, TriggerStays
  <2>3. RunsOn
    BY <2>1 DEF RunsOn, Busy
  <2> QED
    BY <1>3, <2>1, <2>2, <2>3, StaysHeld, RunsOnHeld DEF AllHeld
<1>6. ASSUME NEW t \in Tasks, NEW k \in Keys, Claim(t, k) PROVE AllHeld'
  BY <1>3, <1>6, ClaimHeld
<1>7. \A w \in Workers, k \in Keys : ~ClaimLost(w, k)
  BY <1>1 DEF ClaimLost, Spend, Clean
<1>8. ASSUME NEW t \in Tasks, EndStep(t) PROVE AllHeld'
  BY <1>3, <1>8, EndHeld
<1>9. ASSUME NEW t \in Tasks, Begin(t) \/ \E class \in {"parking", "transient", "unknown", "permanent"} : FailDecide(t, class)
      PROVE  AllHeld'
  <2>1. rows' = rows /\ away' = away
    BY <1>9 DEF Begin, FailDecide, db
  <2>2. RunsOn
    BY <1>9, OwnWork
  <2>3. Frees /\ Stays
    BY <2>1 DEF Frees, Stays
  <2> QED
    BY <1>3, <2>1, <2>2, <2>3, StaysHeld, RunsOnHeld DEF AllHeld
<1>10. CASE UNCHANGED vars
  BY <1>3, <1>10 DEF vars, db, procs, AllHeld, Busy, Holds, RunsRow
<1> QED
  BY <1>4, <1>5, <1>6, <1>7, <1>8, <1>9, <1>10 DEF Next, TaskStep, EndRun, EndStep, QuietAction

\* While every handler holds a row of its own, there are as many rows in flight.
LEMMA HandlersCounted ==
    ASSUME TypeOK, AllHeld
    PROVE  Cardinality({t \in Tasks : Busy(t)}) <= Occupied
<1> DEFINE B == {t \in Tasks : Busy(t)}
           F == {k \in Keys : rows[k].state \in InFlight}
           f == [t \in B |-> task[t].key]
<1>1. IsFiniteSet(F)
  BY QueueAssumption, FS_Subset DEF QueueAssumption
<1>2. f \in Injection(B, F)
  <2>1. \A t \in B : task[t].key \in F
    BY DEF TypeOK, AllHeld, Holds
  <2>2. \A s, t \in B : f[s] = f[t] => s = t
    BY DEF AllHeld
  <2> QED
    BY <2>1, <2>2 DEF Injection, IsInjective
<1>3. Cardinality(B) <= Cardinality(F)
  BY <1>1, <1>2, FS_Injection
<1> QED
  BY <1>3 DEF Occupied

\* No pool ever runs more jobs than its size: in rows whatever fails, in handlers as
\* long as no fault or command parts a handler from its row.
THEOREM PoolBounded == Spec => []PoolRuns
<1> DEFINE PInv == IInv /\ Pool!Bounded /\ (Clean => AllHeld)
<1>1. Init => Pool!Bounded /\ AllHeld
  <2>1. ASSUME Init PROVE Pool!Bounded
    <3>1. {k \in Keys : rows[k].owner # None} = {}
      BY <2>1 DEF Init, NoRow
    <3>2. Cardinality({}) = 0 /\ PoolSize >= 0
      BY FS_EmptySet, QueueAssumption DEF QueueAssumption
    <3> QED
      BY <3>1, <3>2, PoolCounts DEF Pool!Bounded
  <2>2. ASSUME Init PROVE AllHeld
    BY <2>2, IdleType DEF Init, AllHeld, Busy
  <2> QED
    BY <2>1, <2>2
<1>2. ASSUME TypeOK, Parts, TypeOK', Parts', [Next]_vars, Pool!Bounded
      PROVE  Pool!Bounded'
  BY <1>2, StepsLend, LoansBounded
<1>3. ASSUME TypeOK, Parts, [Next]_vars, Clean => AllHeld
      PROVE  (Clean => AllHeld)'
  BY <1>3, HeldKept
<1>4. ASSUME TypeOK, Parts, Pool!Bounded, Clean => AllHeld
      PROVE  PoolRuns
  <2>1. {k \in Keys : rows[k].owner # None} = {k \in Keys : rows[k].state \in InFlight}
    BY <1>4, SameRows DEF Owned
  <2>2. Occupied <= PoolSize
    BY <1>4, <2>1, PoolCounts DEF Pool!Bounded, Occupied
  <2>3. Occupied \in Nat
    BY QueueAssumption, FS_Subset, FS_CardinalityType DEF QueueAssumption, Occupied
  <2>4. ASSUME AllHeld PROVE Cardinality({t \in Tasks : Busy(t)}) <= PoolSize
    <3>1. Cardinality({t \in Tasks : Busy(t)}) \in Nat
      BY QueueAssumption, FS_Subset, FS_CardinalityType DEF QueueAssumption
    <3> QED
      BY <1>4, <2>2, <2>3, <2>4, <3>1, HandlersCounted, QueueAssumption DEF QueueAssumption
  <2> QED
    BY <1>4, <2>2, <2>4 DEF PoolRuns, Occupied, Clean
<1>5. IInv' => TypeOK' /\ Parts'
  BY IInvParts, PTL
<1>6. PInv /\ IInv' /\ [Next]_vars => PInv'
  BY <1>2, <1>3, <1>5, IInvParts
<1>7. PInv => PoolRuns
  BY <1>4, IInvParts
<1> QED
  BY <1>1, <1>6, <1>7, Inductive, PTL DEF Spec

=============================================================================
