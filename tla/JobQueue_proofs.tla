-------------------------- MODULE JobQueue_proofs --------------------------
(***************************************************************************)
(* Proofs about JobQueue, for every set of keys, workers and slots and     *)
(* every value of the bounds: its types, its inductive invariant IInv and  *)
(* the safety properties that follow from it.                              *)
(***************************************************************************)
EXTENDS JobQueue, TLAPS

-----------------------------------------------------------------------------
(* What the operators on rows return.                                      *)

\* Of two levels of force the higher one is a level, and is Plain only if both are.
LEMMA HigherForce ==
    ASSUME NEW m \in ForceLevel, NEW n \in ForceLevel
    PROVE  /\ Higher(m, n) \in ForceLevel
           /\ Higher(m, n) = Plain <=> m = Plain /\ n = Plain
BY DEF Higher, ForceLevel, Plain, Cascade

LEMMA NoRowType == NoRow \in Row
BY QueueAssumption
   DEF QueueAssumption, NoRow, Row, Ended, Live, InFlight, ForceLevel, Plain, Cascade

\* A new row is a pending row of the table that nobody has tried yet.
LEMMA NewRowType ==
    ASSUME NEW k \in Keys, NEW r \in Row, NEW force \in ForceLevel
    PROVE  /\ NewRow(k, r, force) \in Row
           /\ NewRow(k, r, force).state = "pending"
           /\ NewRow(k, r, force).owner = None
           /\ NewRow(k, r, force).id = r.id + 1
           /\ NewRow(k, r, force).doubled = r.doubled
           /\ NewRow(k, r, force).force = force
           /\ NewRow(k, r, force).rerun = FALSE
           /\ NewRow(k, r, force).attempts = 0
           /\ NewRow(k, r, force).max = MaxAttempts
           /\ NewRow(k, r, force).resumes = 0
<1> DEFINE later == k \in Debounced
           new == [id |-> r.id + 1, state |-> "pending", owner |-> None, attempts |-> 0,
                   max |-> MaxAttempts, pauseReq |-> FALSE, cancelReq |-> FALSE,
                   later |-> later, parked |-> FALSE, force |-> force, rerun |-> FALSE,
                   rerunForce |-> Plain, resumes |-> 0, doubled |-> r.doubled]
<1>1. later \in BOOLEAN
  OBVIOUS
<1>2. NewRow(k, r, force) = new
  <2> SUFFICES ASSUME NEW row,
                      row = [NoRow EXCEPT !.id = r.id + 1, !.state = "pending",
                               !.doubled = r.doubled, !.later = later, !.force = force]
               PROVE  row = new
    BY Zenon DEF NewRow
  <2> QED
    BY <1>1 DEF NoRow
<1> HIDE DEF later
<1>3. /\ r.id + 1 \in Nat /\ MaxAttempts \in Nat /\ r.doubled \in BOOLEAN
      /\ "pending" \in Live \cup Ended /\ Plain \in ForceLevel
  BY QueueAssumption DEF QueueAssumption, Row, Live, ForceLevel, Plain, Cascade
<1>4. new \in Row
  BY <1>1, <1>3 DEF Row
<1> QED
  BY <1>2, <1>4

\* A row that ended keeps its id and its history.
LEMMA EndedRowType ==
    ASSUME NEW r \in Row, NEW state \in Ended
    PROVE  /\ EndedRow(r, state) \in Row
           /\ EndedRow(r, state).state = state
           /\ EndedRow(r, state).owner = None
           /\ EndedRow(r, state).id = r.id
           /\ EndedRow(r, state).doubled = r.doubled
           /\ EndedRow(r, state).attempts = 0
           /\ EndedRow(r, state).max = MaxAttempts
           /\ EndedRow(r, state).resumes = 0
<1> DEFINE new == [id |-> r.id, state |-> state, owner |-> None, attempts |-> 0,
                   max |-> MaxAttempts, pauseReq |-> FALSE, cancelReq |-> FALSE,
                   later |-> FALSE, parked |-> FALSE, force |-> Plain, rerun |-> FALSE,
                   rerunForce |-> Plain, resumes |-> 0, doubled |-> r.doubled]
<1>1. EndedRow(r, state) = new
  <2> SUFFICES ASSUME NEW row,
                      row = [NoRow EXCEPT !.id = r.id, !.state = state, !.doubled = r.doubled]
               PROVE  row = new
    BY Zenon DEF EndedRow
  <2> QED
    BY DEF NoRow
<1>2. /\ r.id \in Nat /\ MaxAttempts \in Nat /\ r.doubled \in BOOLEAN
      /\ state \in Live \cup Ended /\ Plain \in ForceLevel
  BY QueueAssumption DEF QueueAssumption, Row, ForceLevel, Plain, Cascade
<1>3. new \in Row
  BY <1>2 DEF Row
<1> QED
  BY <1>1, <1>3

\* A row that runs again is pending, released, and takes over the force of its rerun.
LEMMA AgainType ==
    ASSUME NEW r \in Row
    PROVE  /\ Again(r) \in Row
           /\ Again(r).state = "pending" /\ Again(r).owner = None
           /\ Again(r).id = r.id /\ Again(r).doubled = r.doubled
           /\ Again(r).force = Plain <=> r.force = Plain /\ r.rerunForce = Plain
           /\ Again(r).attempts = r.attempts /\ Again(r).max = r.max
           /\ Again(r).resumes = r.resumes
<1>1. r.force \in ForceLevel /\ r.rerunForce \in ForceLevel
  BY DEF Row
<1>2. PICK force \in ForceLevel :
        /\ force = Higher(r.force, r.rerunForce)
        /\ force = Plain <=> r.force = Plain /\ r.rerunForce = Plain
  BY <1>1, HigherForce
<1> SUFFICES ASSUME NEW new,
                    new = [r EXCEPT !.state = "pending", !.owner = None, !.later = TRUE,
                             !.rerun = FALSE, !.force = force, !.rerunForce = Plain]
             PROVE  /\ new \in Row /\ new.state = "pending" /\ new.owner = None
                    /\ new.id = r.id /\ new.doubled = r.doubled /\ new.force = force
                    /\ new.attempts = r.attempts /\ new.max = r.max
                    /\ new.resumes = r.resumes
  BY <1>2, Zenon DEF Again
<1>3. new =
        [id |-> r.id, state |-> "pending", owner |-> None, attempts |-> r.attempts,
         max |-> r.max, pauseReq |-> r.pauseReq, cancelReq |-> r.cancelReq,
         later |-> TRUE, parked |-> r.parked, force |-> force, rerun |-> FALSE,
         rerunForce |-> Plain, resumes |-> r.resumes, doubled |-> r.doubled]
  BY DEF Row
<1>4. "pending" \in Live \cup Ended /\ Plain \in ForceLevel
  BY DEF Live, ForceLevel, Plain, Cascade
<1> QED
  BY <1>2, <1>3, <1>4 DEF Row

\* A paused row is released and keeps all else.
LEMMA PausedType ==
    ASSUME NEW r \in Row
    PROVE  /\ Paused(r) \in Row
           /\ Paused(r).state = "paused" /\ Paused(r).owner = None
           /\ Paused(r).id = r.id /\ Paused(r).doubled = r.doubled
           /\ Paused(r).force = r.force /\ Paused(r).rerun = r.rerun
           /\ Paused(r).rerunForce = r.rerunForce
           /\ Paused(r).attempts = r.attempts /\ Paused(r).max = r.max
           /\ Paused(r).resumes = r.resumes
BY DEF Row, Paused, Live, Ended, InFlight

\* Each of the ways a live row takes a trigger keeps, or adds to, the force asked of it.
Owed(r) == r.rerun /\ r.rerunForce # Plain

Joined(e, r, level) ==
    /\ e \in Row
    /\ e.state = r.state /\ e.owner = r.owner /\ e.id = r.id /\ e.doubled = r.doubled
    /\ e.attempts = r.attempts /\ e.max = r.max /\ e.resumes = r.resumes
    /\ level # Plain \/ r.force # Plain \/ Owed(r) => e.force # Plain \/ Owed(e)

LEMMA TakenOverType ==
    ASSUME NEW r \in Row, NEW level \in ForceLevel
    PROVE  Joined(TakenOver(r, level), r, level)
<1>1. PICK force \in ForceLevel :
        /\ force = Higher(r.force, level)
        /\ force = Plain <=> r.force = Plain /\ level = Plain
  BY HigherForce DEF Row
<1>2. TakenOver(r, level) = [r EXCEPT !.force = force, !.later = FALSE]
  BY <1>1, Zenon DEF TakenOver
<1> QED
  BY <1>1, <1>2 DEF Joined, Row, Owed

LEMMA CoalescedType ==
    ASSUME NEW k \in Keys, NEW r \in Row, NEW level \in ForceLevel
    PROVE  Joined(Coalesced(k, r, level), r, level)
<1> DEFINE later == IF k \in Debounced THEN TRUE ELSE r.later
<1>1. PICK force \in ForceLevel :
        /\ force = Higher(r.force, level)
        /\ force = Plain <=> r.force = Plain /\ level = Plain
  BY HigherForce DEF Row
<1>2. Coalesced(k, r, level) = [r EXCEPT !.force = force, !.later = later]
  BY <1>1, Zenon DEF Coalesced
<1>3. later \in BOOLEAN
  BY DEF Row
<1> HIDE DEF later
<1> SUFFICES ASSUME NEW new, new = [r EXCEPT !.force = force, !.later = later]
             PROVE  Joined(new, r, level)
  BY <1>2
<1>4. new =
        [id |-> r.id, state |-> r.state, owner |-> r.owner, attempts |-> r.attempts,
         max |-> r.max, pauseReq |-> r.pauseReq, cancelReq |-> r.cancelReq,
         later |-> later, parked |-> r.parked, force |-> force, rerun |-> r.rerun,
         rerunForce |-> r.rerunForce, resumes |-> r.resumes, doubled |-> r.doubled]
  BY DEF Row
<1> QED
  BY <1>1, <1>3, <1>4 DEF Joined, Row, Owed

LEMMA RerunType ==
    ASSUME NEW r \in Row, NEW level \in ForceLevel
    PROVE  /\ Joined(Rerun(r, level), r, level)
           /\ Rerun(r, level).rerun /\ Rerun(r, level).force = r.force
           /\ level # Plain \/ Owed(r) => Owed(Rerun(r, level))
<1>1. PICK force \in ForceLevel :
        /\ force = Higher(r.rerunForce, level)
        /\ force = Plain <=> r.rerunForce = Plain /\ level = Plain
  BY HigherForce DEF Row
<1>2. Rerun(r, level) = [r EXCEPT !.rerun = TRUE, !.rerunForce = force]
  BY <1>1, Zenon DEF Rerun
<1> QED
  BY <1>1, <1>2 DEF Joined, Row, Owed

\* A trigger of a key without a live row makes one; otherwise it joins the live row,
\* and if that is in flight it is a rerun.
LEMMA EnqueuedType ==
    ASSUME NEW k \in Keys, NEW r \in Row, NEW forced \in BOOLEAN, NEW level \in ForceLevel
    PROVE  LET e == Enqueued(k, r, forced, level) IN
           /\ r.state \notin Live => e = NewRow(k, r, level)
           /\ r.state \in Live => Joined(e, r, level)
           /\ r.state \in InFlight =>
                /\ e.rerun /\ e.force = r.force
                /\ level # Plain \/ Owed(r) => Owed(e)
<1>1. CASE r.state \notin Live
  BY <1>1 DEF Enqueued, Live
<1>2. CASE r.state \in Live /\ forced /\ RunsNow(r)
  <2>1. Enqueued(k, r, forced, level) = TakenOver(r, level) /\ r.state \notin InFlight
    BY <1>2 DEF Enqueued, RunsNow, InFlight
  <2> QED
    BY <1>2, <2>1, TakenOverType
<1>3. CASE r.state = "pending" /\ ~(forced /\ RunsNow(r))
  <2>1. Enqueued(k, r, forced, level) = Coalesced(k, r, level) /\ r.state \notin InFlight
    BY <1>3 DEF Enqueued, Live, InFlight
  <2> QED
    BY <1>3, <2>1, CoalescedType DEF Live
<1>4. CASE r.state \in Live /\ r.state # "pending" /\ ~(forced /\ RunsNow(r))
  <2>1. Enqueued(k, r, forced, level) = Rerun(r, level)
    BY <1>4 DEF Enqueued
  <2> QED
    BY <1>4, <2>1, RerunType
<1> QED
  BY <1>1, <1>2, <1>3, <1>4 DEF Live

-----------------------------------------------------------------------------
(* The steps that keep what the invariant says of a row and of its tasks:   *)
(* what time, watchers, operators, components, drains, the reaper and       *)
(* failing workers do.                                                      *)

Owned(r) == (r.state \in InFlight) <=> (r.owner # None)

\* q is r, paused, resumed, released, started or flagged
KeepsRow(r, q) ==
    /\ q \in Row
    /\ Owned(q)
    /\ q.id = r.id /\ q.doubled = r.doubled
    /\ q.state \in Live <=> r.state \in Live
    /\ q.state \in InFlight => r.state \in InFlight /\ q.owner = r.owner
    /\ q.attempts = r.attempts /\ q.max = r.max
    /\ q.resumes >= r.resumes
    /\ q.state = "pending" => r.state = "pending" \/ q.resumes > r.resumes
    /\ q.force = r.force /\ q.rerun = r.rerun /\ q.rerunForce = r.rerunForce

LEMMA KeepsFlags ==
    ASSUME NEW r \in Row, Owned(r), NEW b \in BOOLEAN
    PROVE  /\ KeepsRow(r, r)
           /\ KeepsRow(r, [r EXCEPT !.pauseReq = b])
           /\ KeepsRow(r, [r EXCEPT !.cancelReq = b])
           /\ KeepsRow(r, [r EXCEPT !.later = b])
           /\ KeepsRow(r, [r EXCEPT !.parked = b, !.later = b])
<1> USE DEF KeepsRow, Row, Owned
<1>1. KeepsRow(r, r)
  OBVIOUS
<1>2. KeepsRow(r, [r EXCEPT !.pauseReq = b])
  OBVIOUS
<1>3. KeepsRow(r, [r EXCEPT !.cancelReq = b])
  OBVIOUS
<1>4. KeepsRow(r, [r EXCEPT !.later = b])
  OBVIOUS
<1>5. KeepsRow(r, [r EXCEPT !.parked = b, !.later = b])
  <2> SUFFICES ASSUME NEW q, q = [r EXCEPT !.parked = b, !.later = b] PROVE KeepsRow(r, q)
    OBVIOUS
  <2>1. q = [id |-> r.id, state |-> r.state, owner |-> r.owner,
             attempts |-> r.attempts, max |-> r.max, pauseReq |-> r.pauseReq,
             cancelReq |-> r.cancelReq, later |-> b, parked |-> b,
             force |-> r.force, rerun |-> r.rerun, rerunForce |-> r.rerunForce,
             resumes |-> r.resumes, doubled |-> r.doubled]
    OBVIOUS
  <2> QED
    BY <2>1
<1> QED
  BY <1>1, <1>2, <1>3, <1>4, <1>5

LEMMA KeepsStates ==
    ASSUME NEW r \in Row, Owned(r)
    PROVE  /\ r.state \in Live => KeepsRow(r, Paused(r))
           /\ r.state \in Live =>
                KeepsRow(r, [r EXCEPT !.state = "paused", !.owner = None, !.later = TRUE])
           /\ r.state = "claimed" => KeepsRow(r, [r EXCEPT !.state = "running"])
           /\ r.state = "paused" =>
                KeepsRow(r, [r EXCEPT !.state = "pending", !.pauseReq = FALSE,
                                      !.later = FALSE, !.resumes = @ + 1])
<1> USE DEF KeepsRow, Row, Owned, Live, InFlight, Ended
<1>1. r.state \in Live => KeepsRow(r, Paused(r))
  BY PausedType
<1>2. r.state \in Live =>
        KeepsRow(r, [r EXCEPT !.state = "paused", !.owner = None, !.later = TRUE])
  <2> SUFFICES ASSUME r.state \in Live, NEW q,
                      q = [r EXCEPT !.state = "paused", !.owner = None, !.later = TRUE]
               PROVE  KeepsRow(r, q)
    OBVIOUS
  <2>1. q = [id |-> r.id, state |-> "paused", owner |-> None,
             attempts |-> r.attempts, max |-> r.max, pauseReq |-> r.pauseReq,
             cancelReq |-> r.cancelReq, later |-> TRUE, parked |-> r.parked,
             force |-> r.force, rerun |-> r.rerun, rerunForce |-> r.rerunForce,
             resumes |-> r.resumes, doubled |-> r.doubled]
    OBVIOUS
  <2>2. q \in Row
    BY <2>1
  <2>3. q.state \in Live /\ q.state \notin InFlight /\ q.owner = None
    BY <2>1
  <2> QED
    BY <2>1, <2>2, <2>3
<1>3. r.state = "claimed" => KeepsRow(r, [r EXCEPT !.state = "running"])
  OBVIOUS
<1>4. r.state = "paused" =>
        KeepsRow(r, [r EXCEPT !.state = "pending", !.pauseReq = FALSE,
                              !.later = FALSE, !.resumes = @ + 1])
  <2> DEFINE new ==
        [id |-> r.id, state |-> "pending", owner |-> r.owner,
         attempts |-> r.attempts, max |-> r.max, pauseReq |-> FALSE,
         cancelReq |-> r.cancelReq, later |-> FALSE, parked |-> r.parked,
         force |-> r.force, rerun |-> r.rerun, rerunForce |-> r.rerunForce,
         resumes |-> r.resumes + 1, doubled |-> r.doubled]
  <2>1. new \in Row
    OBVIOUS
  <2>2. r.state = "paused" => KeepsRow(r, new)
    BY <2>1
  <2>3. ASSUME NEW q, q = [r EXCEPT !.state = "pending", !.pauseReq = FALSE,
                                    !.later = FALSE, !.resumes = @ + 1]
        PROVE  q = new
    BY <2>3
  <2> HIDE DEF new, KeepsRow, Row, Owned
  <2>4. [r EXCEPT !.state = "pending", !.pauseReq = FALSE,
                  !.later = FALSE, !.resumes = @ + 1] = new
    BY <2>3
  <2> QED
    BY <2>2, <2>4
<1> QED
  BY <1>1, <1>2, <1>3, <1>4

\* What the invariant says of one key, of one task, and of a task and a key.
KeyInv(k) ==
    /\ Owned(rows[k])
    /\ rows[k].state \in Ended =>
         answered[k] = input[k] \/ k \in missed \/ rows[k].doubled
    /\ rows[k].state \in Ended => honoured[k] = asked[k] \/ rows[k].doubled
    /\ rows[k].state \in Live =>
         honoured[k] = asked[k] \/ rows[k].force # Plain \/ Owed(rows[k]) \/ rows[k].doubled
    /\ rows[k].max > 0
    /\ rows[k].doubled \/ rows[k].attempts <= rows[k].max + rows[k].resumes
    /\ rows[k].state = "pending" =>
         rows[k].doubled \/ rows[k].attempts < rows[k].max + rows[k].resumes
    /\ result[k] <= input[k]

Stands(t, k) ==
    \/ rows[k].doubled
    \/ /\ rows[k].rerun \/ task[t].seen = input[k] \/ k \in missed
       /\ task[t].force = rows[k].force
       /\ Owed(rows[k]) \/ task[t].seenForce = asked[k]
       /\ task[t].phase = "failing" /\ task[t].verdict = "retry"
            => rows[k].attempts < task[t].tries

PairInv(t, k) ==
    /\ Holds(t, k) => Stands(t, k)
    /\ Busy(t) /\ task[t].key = k =>
         /\ task[t].id <= rows[k].id
         /\ task[t].seen <= input[k]
         /\ task[t].id = rows[k].id /\ rows[k].state \in Live => result[k] <= task[t].seen

Alone(k) == \A s, t \in Tasks : Holds(s, k) /\ Holds(t, k) => s = t \/ rows[k].doubled

TaskInv(t) ==
    /\ task[t].phase = "skipping" => task[t].force = Plain
    /\ task[t].phase = "failing" => task[t].tries > 0

Parts ==
    /\ \A k \in Keys : KeyInv(k)
    /\ \A t \in Tasks, k \in Keys : PairInv(t, k)
    /\ \A k \in Keys : Alone(k)
    /\ \A t \in Tasks : TaskInv(t)

\* The inductive invariant, taken apart and put together.
LEMMA IInvParts == IInv <=> TypeOK /\ Parts
<1> USE DEF Parts
<1>1. ASSUME IInv PROVE TypeOK /\ Parts
  <2>1. TypeOK
    BY <1>1 DEF IInv
  <2>2. ASSUME NEW k \in Keys PROVE KeyInv(k)
    BY <1>1 DEF IInv, KeyInv, Owned, Owed, OwnedInFlight, NoTriggerLost, NoForceLost,
                RowsKeepForce, RowsKeepAttempts, TasksForward, ForceOwed, Same
  <2>3. ASSUME NEW t \in Tasks, NEW k \in Keys PROVE PairInv(t, k)
    BY <1>1 DEF IInv, PairInv, Stands, Owed, HoldersSettle, TasksForward, ForceOwed, Same
  <2>4. ASSUME NEW k \in Keys PROVE Alone(k)
    BY <1>1 DEF IInv, SoleHolder, Alone, Same
  <2>5. ASSUME NEW t \in Tasks PROVE TaskInv(t)
    BY <1>1 DEF IInv, TasksKeep, TaskInv
  <2> QED
    BY <2>1, <2>2, <2>3, <2>4, <2>5
<1>2. ASSUME TypeOK, Parts PROVE IInv
  <2>1. OwnedInFlight /\ NoTriggerLost /\ NoForceLost /\ RowsKeepForce /\ RowsKeepAttempts
    BY <1>2 DEF KeyInv, Owned, Owed, OwnedInFlight, NoTriggerLost, NoForceLost,
                RowsKeepForce, RowsKeepAttempts, ForceOwed, Same
  <2>2. HoldersSettle
    BY <1>2 DEF PairInv, Stands, Owed, HoldersSettle, ForceOwed, Same
  <2>3. SoleHolder
    BY <1>2 DEF SoleHolder, Alone, Same
  <2>4. TasksKeep
    BY <1>2 DEF TasksKeep, TaskInv
  <2>5. TasksForward
    BY <1>2 DEF KeyInv, PairInv, TasksForward
  <2> QED
    BY <1>2, <2>1, <2>2, <2>3, <2>4, <2>5 DEF IInv
<1> QED
  BY <1>1, <1>2

-----------------------------------------------------------------------------
(* Types, in the parts that different steps disturb.                        *)

ControlType ==
    /\ gate \in [Keys -> {"on", "off", "held"}]
    /\ shut \subseteq Keys
    /\ up \subseteq Workers
    /\ away \subseteq up
    /\ drain \in [Workers -> SUBSET Keys]
    /\ used \in [{"triggers", "faults", "failures", "commands", "switches"} -> Nat]

TaskType == task \in [Tasks -> Task] /\ \A t \in Tasks : Busy(t) => task[t].key \in Keys

HistoryType ==
    /\ result \in [Keys -> Nat]
    /\ input \in [Keys -> Nat]
    /\ asked \in [Keys -> Nat]
    /\ answered \in [Keys -> Nat]
    /\ honoured \in [Keys -> Nat]
    /\ missed \subseteq Keys

LEMMA TypeParts ==
    TypeOK <=> rows \in [Keys -> Row] /\ ControlType /\ TaskType /\ HistoryType
BY DEF TypeOK, ControlType, TaskType, HistoryType

\* A worker's task that is kept, started, or dropped.
KeepsTask(a, b) ==
    \/ b = a
    \/ b = Idle
    \/ a.phase = "claimed" /\ b = [a EXCEPT !.phase = "started"]

KeepsRows == rows' \in [Keys -> Row] /\ \A k \in Keys : KeepsRow(rows[k], rows'[k])

KeepsTasks == task' \in [Tasks -> Task] /\ \A t \in Tasks : KeepsTask(task[t], task'[t])

Quiet == KeepsRows /\ KeepsTasks /\ UNCHANGED <<result, hist>>

LEMMA IdleType == Idle \in Task /\ Idle.phase = "idle"
BY DEF Idle, Task, Phases, ForceLevel, Plain, Cascade

\* What is left of a task after a quiet step, while it is busy.
LEMMA TaskKept ==
    ASSUME NEW a \in Task, NEW b \in Task, KeepsTask(a, b), b.phase # "idle"
    PROVE  /\ a.phase # "idle"
           /\ b.key = a.key /\ b.id = a.id /\ b.force = a.force /\ b.seen = a.seen
           /\ b.seenForce = a.seenForce /\ b.verdict = a.verdict /\ b.tries = a.tries
           /\ b.phase \in {"skipping", "failing"} => b.phase = a.phase
BY IdleType DEF KeepsTask, Task

\* A quiet step keeps the invariant.
LEMMA QuietKeeps ==
    ASSUME TypeOK, Parts, Quiet, ControlType'
    PROVE  TypeOK' /\ Parts'
<1>1. /\ rows \in [Keys -> Row] /\ rows' \in [Keys -> Row]
      /\ task \in [Tasks -> Task] /\ task' \in [Tasks -> Task]
      /\ UNCHANGED <<result, input, asked, answered, honoured, missed>>
      /\ HistoryType
  BY DEF TypeOK, Quiet, KeepsRows, KeepsTasks, hist, HistoryType
<1>2. ASSUME NEW k \in Keys PROVE KeepsRow(rows[k], rows'[k])
  BY DEF Quiet, KeepsRows
<1>3. ASSUME NEW t \in Tasks, Busy(t)'
      PROVE  /\ Busy(t)
             /\ task'[t].key = task[t].key /\ task'[t].id = task[t].id
             /\ task'[t].force = task[t].force /\ task'[t].seen = task[t].seen
             /\ task'[t].seenForce = task[t].seenForce
             /\ task'[t].verdict = task[t].verdict /\ task'[t].tries = task[t].tries
             /\ task'[t].phase \in {"skipping", "failing"} => task'[t].phase = task[t].phase
  BY <1>1, <1>3, TaskKept DEF Busy, Quiet, KeepsTasks
<1>4. TypeOK'
  <2>1. HistoryType'
    BY <1>1 DEF HistoryType
  <2>2. TaskType'
    BY <1>1, <1>3 DEF TaskType, TypeOK
  <2> QED
    BY <1>1, <2>1, <2>2 DEF TypeOK, ControlType, TaskType, HistoryType
<1>5. ASSUME NEW k \in Keys PROVE KeyInv(k)'
  <2>1. KeyInv(k)
    BY DEF Parts
  <2>2. rows[k].max \in Nat /\ rows[k].attempts \in Nat
        /\ rows[k].resumes \in Nat /\ rows'[k].resumes \in Nat
        /\ rows[k].state \in Live \cup Ended /\ rows'[k].state \in Live \cup Ended
    BY <1>1 DEF Row
  <2> QED
    BY <1>1, <1>2, <2>1, <2>2 DEF KeyInv, KeepsRow, Live, InFlight, Ended, Owed
<1>6. ASSUME NEW t \in Tasks, NEW k \in Keys, Holds(t, k)' PROVE Holds(t, k)
  BY <1>2, <1>3, <1>6 DEF Holds, RunsRow, KeepsRow
<1>7. ASSUME NEW t \in Tasks, NEW k \in Keys PROVE PairInv(t, k)'
  <2>1. PairInv(t, k)
    BY DEF Parts
  <2>2. ASSUME Holds(t, k)' PROVE Stands(t, k)'
    <3>1. Stands(t, k) /\ Busy(t)'
      BY <1>6, <2>1, <2>2 DEF PairInv, Holds, RunsRow
    <3> QED
      BY <1>1, <1>2, <1>3, <3>1 DEF Stands, KeepsRow, Owed
  <2>3. ASSUME Busy(t)', task'[t].key = k
        PROVE  /\ task'[t].id <= rows'[k].id
               /\ task'[t].seen <= input'[k]
               /\ task'[t].id = rows'[k].id /\ rows'[k].state \in Live
                    => result'[k] <= task'[t].seen
    BY <1>1, <1>2, <1>3, <2>1, <2>3 DEF PairInv, KeepsRow
  <2> QED
    BY <2>2, <2>3 DEF PairInv
<1>8. ASSUME NEW k \in Keys PROVE Alone(k)'
  BY <1>2, <1>6 DEF Parts, Alone, KeepsRow
<1>9. ASSUME NEW t \in Tasks PROVE TaskInv(t)'
  BY <1>3 DEF Parts, TaskInv, Busy
<1> QED
  BY <1>4, <1>5, <1>7, <1>8, <1>9 DEF Parts

-----------------------------------------------------------------------------
(* Every step keeps the types of what controls the queue.                   *)

LEMMA SpendType ==
    ASSUME ControlType, NEW what \in {"triggers", "faults", "failures", "commands", "switches"},
           Spend(what)
    PROVE  used' \in [{"triggers", "faults", "failures", "commands", "switches"} -> Nat]
BY DEF ControlType, Spend

LEMMA ControlKept ==
    ASSUME TypeOK, Next
    PROVE  ControlType'
<1> DEFINE Counters == [{"triggers", "faults", "failures", "commands", "switches"} -> Nat]
<1>1. ControlType
  BY TypeParts
<1> USE DEF db, procs, hist
<1>2. ASSUME UNCHANGED <<gate, shut, up, away, drain>>, used' \in Counters
      PROVE  ControlType'
  BY <1>1, <1>2 DEF ControlType
<1>3. used \in Counters
  BY <1>1 DEF ControlType
<1>4. CASE \E k \in Keys, changed \in BOOLEAN, level \in Levels : Trigger(k, changed, level)
  BY <1>1, <1>2, <1>4, SpendType DEF Trigger
<1>5. CASE \E k \in Keys : Due(k) \/ Release(k)
  BY <1>2, <1>3, <1>5 DEF Due, Release
<1>6. CASE \E k \in Keys : Reap(k)
  BY <1>1, <1>2, <1>3, <1>6, SpendType DEF Reap
<1>7. ASSUME NEW k \in Keys, Operate(k)
      PROVE  ControlType'
  <2>1. CASE Pause(k) \/ ForcePause(k) \/ Resume(k) \/ Cancel(k)
    BY <1>1, <1>2, <2>1, SpendType DEF Pause, ForcePause, Resume, Cancel, Command
  <2>2. CASE \E interrupt \in BOOLEAN : PauseStage(k, interrupt)
    BY <1>1, <2>2, SpendType DEF PauseStage, ControlType
  <2>3. CASE ResumeStage(k)
    BY <1>1, <2>3 DEF ResumeStage, ControlType
  <2> QED
    BY <1>7, <2>1, <2>2, <2>3 DEF Operate
<1>8. ASSUME NEW k \in Keys, NEW state \in {"on", "off", "held"}, SwitchStage(k, state)
      PROVE  ControlType'
  <2>1. used' \in Counters
    BY <1>1, <1>3, <1>8, SpendType DEF SwitchStage
  <2> QED
    BY <1>1, <1>8, <2>1 DEF SwitchStage, ControlType
<1>9. CASE \E t \in Tasks, k \in Keys : Claim(t, k)
  BY <1>2, <1>3, <1>9 DEF Claim
<1>10. CASE \E w \in Workers, k \in Keys : ClaimLost(w, k)
  BY <1>1, <1>2, <1>10, SpendType DEF ClaimLost
<1>11. ASSUME NEW t \in Tasks, TaskStep(t)
       PROVE  ControlType'
  <2>1. CASE MarkRunning(t) \/ Begin(t) \/ Cancelled(t) \/ FailWrite(t)
    BY <1>2, <1>3, <2>1 DEF MarkRunning, Begin, Cancelled, FailWrite
  <2>2. CASE Defer(t) \/ \E class \in {"parking", "transient", "unknown", "permanent"} :
                            FailDecide(t, class)
    BY <1>1, <1>2, <2>2, SpendType DEF Defer, FailDecide
  <2>3. CASE \E changed, waiting \in BOOLEAN, requests \in SUBSET Keys :
               Finish(t, changed, waiting, requests)
    BY <1>1, <1>2, <1>3, <2>3, SpendType DEF Finish
  <2> QED
    BY <1>11, <2>1, <2>2, <2>3 DEF TaskStep, EndRun
<1>12. ASSUME NEW w \in Workers, WorkerFails(w)
       PROVE  ControlType'
  <2>1. CASE Crash(w)
    BY <1>1, <2>1, SpendType DEF Crash, ControlType
  <2>2. CASE LoseHome(w)
    BY <1>1, <2>2, SpendType DEF LoseHome, ControlType
  <2>3. CASE StopInFlight(w) \/ HomeBack(w)
    BY <1>1, <2>3 DEF StopInFlight, HomeBack, ControlType
  <2> QED
    BY <1>12, <2>1, <2>2, <2>3 DEF WorkerFails
<1>13. ASSUME NEW w \in Workers, Drain(w)
       PROVE  ControlType'
  BY <1>1, <1>13 DEF Drain, DrainAsk, DrainClean, DrainUnask, DrainForce, ControlType
<1> QED
  BY <1>4, <1>5, <1>6, <1>7, <1>8, <1>9, <1>10, <1>11, <1>12, <1>13 DEF Next

-----------------------------------------------------------------------------
(* Which steps are quiet.                                                   *)

LEMMA SameRows ==
    ASSUME TypeOK, Parts
    PROVE  /\ \A k \in Keys : rows[k] \in Row /\ Owned(rows[k])
           /\ rows' = rows => KeepsRows
BY KeepsFlags DEF TypeOK, Parts, KeyInv, KeepsRows

LEMMA OneRow ==
    ASSUME TypeOK, Parts, NEW k \in Keys, NEW q, KeepsRow(rows[k], q),
           rows' = [rows EXCEPT ![k] = q]
    PROVE  KeepsRows
<1>1. q \in Row
  BY DEF KeepsRow
<1>2. rows' \in [Keys -> Row]
  BY <1>1 DEF TypeOK
<1>3. ASSUME NEW x \in Keys PROVE KeepsRow(rows[x], rows'[x])
  BY SameRows, KeepsFlags DEF TypeOK
<1> QED
  BY <1>2, <1>3 DEF KeepsRows

LEMMA PausedRows ==
    ASSUME TypeOK, Parts, NEW S, \A k \in S \cap Keys : rows[k].state \in Live, PauseAll(S)
    PROVE  KeepsRows
<1>1. ASSUME NEW x \in Keys PROVE KeepsRow(rows[x], rows'[x])
  BY SameRows, KeepsFlags, KeepsStates DEF PauseAll
<1>2. rows' \in [Keys -> Row]
  BY <1>1 DEF PauseAll, KeepsRow
<1> QED
  BY <1>1, <1>2 DEF KeepsRows

LEMMA FlaggedRows ==
    ASSUME TypeOK, Parts, NEW S, NEW b \in BOOLEAN,
           rows' = [k \in Keys |-> IF k \in S THEN [rows[k] EXCEPT !.pauseReq = b] ELSE rows[k]]
    PROVE  KeepsRows
<1>1. ASSUME NEW x \in Keys PROVE KeepsRow(rows[x], rows'[x])
  BY SameRows, KeepsFlags
<1>2. rows' \in [Keys -> Row]
  BY <1>1 DEF KeepsRow
<1> QED
  BY <1>1, <1>2 DEF KeepsRows

LEMMA SameTasks ==
    ASSUME TypeOK, task' = task
    PROVE  KeepsTasks
BY DEF TypeOK, KeepsTasks, KeepsTask

LEMMA DroppedTasks ==
    ASSUME TypeOK, NEW S, task' = [t \in Tasks |-> IF t \in S THEN Idle ELSE task[t]]
    PROVE  KeepsTasks
BY IdleType DEF TypeOK, KeepsTasks, KeepsTask

LEMMA OneTask ==
    ASSUME TypeOK, NEW t \in Tasks, NEW b \in Task, KeepsTask(task[t], b), SetTask(t, b)
    PROVE  KeepsTasks
BY DEF TypeOK, SetTask, KeepsTasks, KeepsTask

QuietAction ==
    \/ \E k \in Keys : Due(k) \/ Release(k) \/ Reap(k) \/ Operate(k)
    \/ \E k \in Keys, state \in {"on", "off", "held"} : SwitchStage(k, state)
    \/ \E t \in Tasks : MarkRunning(t) \/ Defer(t)
    \/ \E w \in Workers : WorkerFails(w) \/ Drain(w)

LEMMA HeldLive == \A w \in Workers : \A k \in HeldBy(w) : k \in Keys /\ rows[k].state \in Live
BY DEF HeldBy, Live

LEMMA QuietActions ==
    ASSUME TypeOK, Parts, QuietAction
    PROVE  Quiet
<1> USE DEF db, procs, hist
<1>1. rows \in [Keys -> Row] /\ task \in [Tasks -> Task]
  BY DEF TypeOK
<1>2. ASSUME NEW k \in Keys PROVE rows[k] \in Row /\ Owned(rows[k])
  BY SameRows
<1>3. ASSUME NEW k \in Keys, Due(k) PROVE Quiet
  <2>1. rows' = [rows EXCEPT ![k] = [rows[k] EXCEPT !.later = FALSE]]
    BY <1>1, <1>3 DEF Due
  <2>2. KeepsRows
    BY <1>2, <2>1, KeepsFlags, OneRow
  <2> QED
    BY <1>3, <2>2, SameTasks DEF Due, Quiet
<1>4. ASSUME NEW k \in Keys, Release(k) PROVE Quiet
  <2>1. rows' = [rows EXCEPT ![k] = [rows[k] EXCEPT !.parked = FALSE, !.later = FALSE]]
    BY <1>1, <1>4 DEF Release
  <2>2. KeepsRows
    BY <1>2, <2>1, KeepsFlags, OneRow
  <2> QED
    BY <1>4, <2>2, SameTasks DEF Release, Quiet
<1>5. ASSUME NEW k \in Keys, Reap(k) PROVE Quiet
  <2>1. KeepsRows
    BY <1>5, PausedRows DEF Reap, Live
  <2> QED
    BY <1>5, <2>1, SameTasks DEF Reap, Quiet
<1>6. ASSUME NEW k \in Keys, Operate(k) PROVE Quiet
  <2>1. CASE Pause(k)
    BY <1>2, <2>1, KeepsFlags, OneRow, SameTasks DEF Pause, Command, Quiet
  <2>2. CASE ForcePause(k)
    BY <1>2, <2>2, KeepsStates, OneRow, SameTasks DEF ForcePause, Command, Quiet, Live, InFlight
  <2>3. CASE Resume(k)
    BY <1>2, <2>3, KeepsStates, OneRow, SameTasks DEF Resume, Command, Quiet
  <2>4. CASE Cancel(k)
    BY <1>2, <2>4, KeepsFlags, OneRow, SameTasks DEF Cancel, Command, Quiet
  <2>5. ASSUME NEW interrupt \in BOOLEAN, PauseStage(k, interrupt) PROVE Quiet
    <3>1. \/ rows' = rows
          \/ rows' = [rows EXCEPT ![k] = [rows[k] EXCEPT !.pauseReq = TRUE]]
      BY <1>1, <2>5 DEF PauseStage
    <3>2. KeepsRows
      BY <1>2, <3>1, SameRows, KeepsFlags, OneRow
    <3> QED
      BY <2>5, <3>2, SameTasks DEF PauseStage, Quiet
  <2>6. CASE ResumeStage(k)
    <3>1. \/ rows' = rows
          \/ rows' = [rows EXCEPT ![k] = [rows[k] EXCEPT !.pauseReq = FALSE]]
      BY <1>1, <2>6 DEF ResumeStage
    <3>2. KeepsRows
      BY <1>2, <3>1, SameRows, KeepsFlags, OneRow
    <3> QED
      BY <2>6, <3>2, SameTasks DEF ResumeStage, Quiet
  <2> QED
    BY <1>6, <2>1, <2>2, <2>3, <2>4, <2>5, <2>6 DEF Operate
<1>7. ASSUME NEW k \in Keys, NEW state \in {"on", "off", "held"}, SwitchStage(k, state)
      PROVE  Quiet
  BY <1>7, SameRows, SameTasks DEF SwitchStage, Quiet
<1>8. ASSUME NEW t \in Tasks, MarkRunning(t) PROVE Quiet
  <2> DEFINE k == task[t].key
             started == [task[t] EXCEPT !.phase = "started"]
  <2>1. k \in Keys
    BY <1>8 DEF TypeOK, MarkRunning, Busy
  <2>2. CASE RunsRow(t, k) /\ rows[k].state = "claimed"
    <3>1. /\ rows' = [rows EXCEPT ![k] = [rows[k] EXCEPT !.state = "running"]]
          /\ SetTask(t, started)
      BY <1>1, <1>8, <2>1, <2>2 DEF MarkRunning
    <3>2. started \in Task /\ KeepsTask(task[t], started)
      BY <1>1, <1>8 DEF MarkRunning, KeepsTask, Task, Phases
    <3>3. KeepsRows
      BY <1>2, <2>1, <2>2, <3>1, KeepsStates, OneRow
    <3>4. KeepsTasks
      BY <3>1, <3>2, OneTask
    <3> QED
      BY <1>8, <3>3, <3>4 DEF MarkRunning, Quiet
  <2>3. CASE ~(RunsRow(t, k) /\ rows[k].state = "claimed")
    <3>1. rows' = rows /\ SetTask(t, Idle)
      BY <1>8, <2>3 DEF MarkRunning
    <3> QED
      BY <1>8, <3>1, SameRows, IdleType, OneTask DEF MarkRunning, Quiet, KeepsTask
  <2> QED
    BY <2>2, <2>3
<1>9. ASSUME NEW t \in Tasks, Defer(t) PROVE Quiet
  <2> DEFINE k == task[t].key
  <2>1. k \in Keys
    BY <1>9 DEF TypeOK, Defer, Busy
  <2>2. \/ rows' = rows
        \/ /\ rows[k].state \in Live
           /\ rows' = [rows EXCEPT ![k] = [rows[k] EXCEPT !.state = "paused", !.owner = None,
                                                          !.later = TRUE]]
    BY <1>1, <1>9, <2>1 DEF Defer, Holds, Live
  <2>3. KeepsRows
    BY <1>2, <2>1, <2>2, SameRows, KeepsStates, OneRow
  <2>4. KeepsTasks
    BY <1>9, IdleType, OneTask DEF Defer, KeepsTask
  <2> QED
    BY <1>9, <2>3, <2>4 DEF Defer, Quiet
<1>10. ASSUME NEW w \in Workers, WorkerFails(w) PROVE Quiet
  <2>1. ASSUME Interrupted(w) PROVE KeepsTasks
    <3>1. task' = [t \in Tasks |-> IF t \in {s \in Tasks : Host[s] = w} THEN Idle ELSE task[t]]
      BY <2>1 DEF Interrupted
    <3> QED
      BY <3>1, DroppedTasks
  <2>2. CASE Crash(w) \/ StopInFlight(w)
    BY <2>1, <2>2, SameRows DEF Crash, StopInFlight, Quiet
  <2>3. CASE LoseHome(w)
    BY <2>3, SameRows, SameTasks DEF LoseHome, Quiet
  <2>4. CASE HomeBack(w)
    <3>1. KeepsRows
      BY <2>4, SameRows, PausedRows, HeldLive DEF HomeBack
    <3> QED
      BY <2>4, <3>1, SameTasks DEF HomeBack, Quiet
  <2> QED
    BY <1>10, <2>2, <2>3, <2>4 DEF WorkerFails
<1>11. ASSUME NEW w \in Workers, Drain(w) PROVE Quiet
  <2>1. ASSUME NEW S \in SUBSET Keys, DrainAsk(w, S) PROVE Quiet
    BY <2>1, FlaggedRows, SameTasks DEF DrainAsk, Quiet
  <2>2. CASE DrainClean(w)
    BY <2>2, SameRows, SameTasks DEF DrainClean, Quiet
  <2>3. CASE DrainUnask(w)
    BY <2>3, FlaggedRows, SameTasks DEF DrainUnask, Quiet
  <2>4. CASE DrainForce(w)
    <3>1. KeepsRows
      BY <2>4, PausedRows, HeldLive DEF DrainForce
    <3>2. task' = [t \in Tasks |-> IF t \in {s \in Tasks : Host[s] = w /\ task[s].key \in drain[w]}
                                    THEN Idle ELSE task[t]]
      BY <2>4 DEF DrainForce
    <3> QED
      BY <2>4, <3>1, <3>2, DroppedTasks DEF DrainForce, Quiet
  <2> QED
    BY <1>11, <2>1, <2>2, <2>3, <2>4 DEF Drain
<1> QED
  BY <1>3, <1>4, <1>5, <1>6, <1>7, <1>8, <1>9, <1>10, <1>11 DEF QuietAction

-----------------------------------------------------------------------------
(* Claims.                                                                  *)

\* q is r claimed by w.
Claimed(r, q, w, doubled) ==
    /\ Owned(q)
    /\ q.state = "claimed" /\ q.owner = w /\ q.id = r.id
    /\ q.doubled <=> r.doubled \/ doubled
    /\ q.attempts = ClaimedAttempts(r)
    /\ q.max = r.max /\ q.resumes = r.resumes
    /\ q.force = r.force /\ q.rerun = r.rerun /\ q.rerunForce = r.rerunForce

LEMMA ClaimedRowType ==
    ASSUME NEW r \in Row, NEW w \in Workers, NEW d \in BOOLEAN
    PROVE  ClaimedRow(r, w, d) \in Row /\ Claimed(r, ClaimedRow(r, w, d), w, d)
<1> DEFINE e == r.doubled \/ d
           new == [id |-> r.id, state |-> "claimed", owner |-> w,
                   attempts |-> ClaimedAttempts(r), max |-> r.max, pauseReq |-> r.pauseReq,
                   cancelReq |-> r.cancelReq, later |-> r.later, parked |-> FALSE,
                   force |-> r.force, rerun |-> r.rerun, rerunForce |-> r.rerunForce,
                   resumes |-> r.resumes, doubled |-> e]
<1>1. e \in BOOLEAN
  OBVIOUS
<1>2. ClaimedRow(r, w, d) =
        [r EXCEPT !.state = "claimed", !.owner = w, !.parked = FALSE,
                  !.attempts = ClaimedAttempts(r), !.doubled = e]
  BY Zenon DEF ClaimedRow
<1> HIDE DEF e
<1>3. ClaimedAttempts(r) \in Nat /\ "claimed" \in Live /\ "claimed" \in InFlight /\ w # None
  BY QueueAssumption DEF QueueAssumption, ClaimedAttempts, Row, Live, InFlight
<1>4. new \in Row
  BY <1>1, <1>3 DEF Row
<1>5. ASSUME NEW q, q = [r EXCEPT !.state = "claimed", !.owner = w, !.parked = FALSE,
                              !.attempts = ClaimedAttempts(r), !.doubled = e]
      PROVE  q = new
  BY <1>5 DEF Row
<1>6. ClaimedRow(r, w, d) = new
  BY <1>2, <1>5
<1>7. Claimed(r, new, w, d)
  BY <1>3 DEF Claimed, Owned, e
<1> QED
  BY <1>4, <1>6, <1>7

\* What a claim of k by w does to the rows.
Taken(w, k) ==
    /\ rows[k].state \in {"pending", "paused"}
    /\ rows' \in [Keys -> Row]
    /\ \A x \in Keys \ {k} : rows'[x] = rows[x]
    /\ Claimed(rows[k], rows'[k], w, \E s \in Tasks : Host[s] = w /\ RunsRow(s, k))

LEMMA ClaimTakes ==
    ASSUME TypeOK, NEW w \in Workers, NEW k \in Keys, ClaimRow(w, k)
    PROVE  Taken(w, k)
<1> DEFINE d == \E s \in Tasks : Host[s] = w /\ RunsRow(s, k)
<1>1. rows \in [Keys -> Row] /\ rows[k].state \in {"pending", "paused"}
  BY DEF TypeOK, ClaimRow, Claimable
<1>2. d \in BOOLEAN
  OBVIOUS
<1>3. rows' = [rows EXCEPT ![k] = ClaimedRow(rows[k], w, d)]
  BY Zenon DEF ClaimRow
<1> HIDE DEF d
<1>4. PICK q \in Row : q = ClaimedRow(rows[k], w, d) /\ Claimed(rows[k], q, w, d)
  BY <1>1, <1>2, ClaimedRowType
<1>5. /\ rows' \in [Keys -> Row] /\ rows'[k] = q
      /\ \A x \in Keys \ {k} : rows'[x] = rows[x]
  BY <1>1, <1>3, <1>4
<1> QED
  BY <1>1, <1>4, <1>5 DEF Taken, d

\* The task of a claim: t, idle before, runs the row of k; or there is none.
Fresh(w, k) ==
    /\ task' \in [Tasks -> Task]
    /\ \A s \in Tasks :
         \/ task'[s] = task[s]
         \/ /\ ~Busy(s) /\ Host[s] = w
            /\ task'[s].phase = "claimed" /\ task'[s].key = k /\ task'[s].id = rows[k].id
            /\ task'[s].force = rows[k].force
            /\ task'[s].seen = input[k] /\ task'[s].seenForce = asked[k]
    /\ \A s, t \in Tasks : ~Busy(s) /\ ~Busy(t) /\ Busy(s)' /\ Busy(t)' => s = t

LEMMA ClaimMakesTask ==
    ASSUME TypeOK, NEW t \in Tasks, NEW k \in Keys, Claim(t, k)
    PROVE  Fresh(Host[t], k)
<1> DEFINE new == [phase |-> "claimed", key |-> k, id |-> rows[k].id,
                   force |-> rows[k].force, seen |-> input[k], seenForce |-> asked[k],
                   verdict |-> "none", tries |-> 0]
<1>1. /\ task \in [Tasks -> Task] /\ rows[k].id \in Nat /\ rows[k].force \in ForceLevel
      /\ input[k] \in Nat /\ asked[k] \in Nat
  BY DEF TypeOK, Row
<1>2. new \in Task
  BY <1>1 DEF Task, Phases
<1>3. ASSUME NEW b, b = [Idle EXCEPT !.phase = "claimed", !.key = k, !.id = rows[k].id,
                           !.force = rows[k].force, !.seen = input[k], !.seenForce = asked[k]]
      PROVE  b = new
  BY <1>3 DEF Idle
<1>4. task' = [task EXCEPT ![t] = new]
  BY <1>3 DEF Claim
<1>5. ~Busy(t)
  BY DEF Claim
<1> QED
  BY <1>1, <1>2, <1>4, <1>5 DEF Fresh, Busy

LEMMA TakenKeeps ==
    ASSUME TypeOK, Parts, NEW w \in Workers, NEW k \in Keys, Taken(w, k), Fresh(w, k),
           UNCHANGED <<result, hist>>, ControlType'
    PROVE  TypeOK' /\ Parts'
<1>1. /\ rows \in [Keys -> Row] /\ rows' \in [Keys -> Row]
      /\ task \in [Tasks -> Task] /\ task' \in [Tasks -> Task]
      /\ UNCHANGED <<result, input, asked, answered, honoured, missed>>
      /\ HistoryType
      /\ result[k] \in Nat /\ input[k] \in Nat
  BY DEF TypeOK, Taken, Fresh, hist, HistoryType
<1>2. /\ rows[k].state \in {"pending", "paused"}
      /\ rows'[k].state = "claimed" /\ rows'[k].owner = w /\ rows'[k].id = rows[k].id
      /\ rows'[k].attempts = ClaimedAttempts(rows[k])
      /\ rows'[k].max = rows[k].max /\ rows'[k].resumes = rows[k].resumes
      /\ rows'[k].force = rows[k].force /\ rows'[k].rerun = rows[k].rerun
      /\ rows'[k].rerunForce = rows[k].rerunForce
      /\ rows[k].doubled => rows'[k].doubled
      /\ Owned(rows'[k])
  BY DEF Taken, Claimed
<1>3. ASSUME NEW s \in Tasks, Host[s] = w, RunsRow(s, k) PROVE rows'[k].doubled
  BY <1>3 DEF Taken, Claimed
<1>4. ASSUME NEW x \in Keys, x # k PROVE rows'[x] = rows[x]
  BY <1>4 DEF Taken
<1>5. ASSUME NEW s \in Tasks
      PROVE  \/ task'[s] = task[s]
             \/ /\ ~Busy(s) /\ Host[s] = w /\ Busy(s)'
                /\ task'[s].phase = "claimed" /\ task'[s].key = k /\ task'[s].id = rows[k].id
                /\ task'[s].force = rows[k].force
                /\ task'[s].seen = input[k] /\ task'[s].seenForce = asked[k]
  BY DEF Fresh, Busy
<1>6. TypeOK'
  BY <1>1, <1>5 DEF TypeOK, ControlType, HistoryType, Busy
<1>7. ASSUME NEW x \in Keys PROVE KeyInv(x)'
  <2>1. KeyInv(x)
    BY DEF Parts
  <2>2. CASE x # k
    BY <1>1, <1>4, <2>1, <2>2 DEF KeyInv
  <2>3. CASE x = k
    <3>1. rows[k].attempts \in Nat /\ rows[k].max \in Nat /\ rows[k].resumes \in Nat
          /\ ClaimedAttempts(rows[k]) =
               IF rows[k].state = "paused" THEN rows[k].attempts ELSE rows[k].attempts + 1
      BY <1>1 DEF Row, ClaimedAttempts
    <3> QED
      BY <1>1, <1>2, <2>1, <2>3, <3>1 DEF KeyInv, Owed, Live, InFlight, Ended
  <2> QED
    BY <2>2, <2>3
\* a task that holds the row it is made for, or holds it already, or runs it for w
<1>8. ASSUME NEW s \in Tasks, NEW x \in Keys, Holds(s, x)'
      PROVE  \/ x # k /\ Holds(s, x) /\ task'[s] = task[s]
             \/ x = k /\ rows'[k].doubled
             \/ x = k /\ ~Busy(s) /\ Busy(s)'
  <2>1. CASE x # k
    BY <1>4, <1>5, <1>8, <2>1 DEF Holds, RunsRow, Busy
  <2>2. CASE x = k /\ task'[s] = task[s]
    BY <1>2, <1>3, <1>8, <2>2 DEF Holds, RunsRow, Busy
  <2> QED
    BY <1>5, <2>1, <2>2
<1>9. ASSUME NEW s \in Tasks, NEW x \in Keys PROVE PairInv(s, x)'
  <2>1. PairInv(s, x) /\ KeyInv(k)
    BY DEF Parts
  <2>2. ASSUME Holds(s, x)' PROVE Stands(s, x)'
    <3>1. CASE x # k /\ Holds(s, x) /\ task'[s] = task[s]
      BY <1>1, <1>4, <2>1, <3>1 DEF PairInv, Stands
    <3>2. CASE x = k /\ rows'[k].doubled
      BY <3>2 DEF Stands
    <3>3. CASE x = k /\ ~Busy(s) /\ Busy(s)'
      BY <1>1, <1>2, <1>5, <3>3 DEF Stands, Busy
    <3> QED
      BY <1>8, <2>2, <3>1, <3>2, <3>3
  <2>3. ASSUME Busy(s)', task'[s].key = x
        PROVE  /\ task'[s].id <= rows'[x].id
               /\ task'[s].seen <= input'[x]
               /\ task'[s].id = rows'[x].id /\ rows'[x].state \in Live
                    => result'[x] <= task'[s].seen
    <3>1. rows[x].id = rows'[x].id /\ (x # k => rows'[x] = rows[x]) /\ rows[k].state \in Live
      BY <1>2, <1>4 DEF Live
    <3>2. CASE task'[s] = task[s]
      BY <1>1, <2>1, <2>3, <3>1, <3>2 DEF PairInv, Busy
    <3>3. CASE task'[s] # task[s]
      BY <1>1, <1>5, <2>1, <2>3, <3>1, <3>3 DEF KeyInv, Row
    <3> QED
      BY <3>2, <3>3
  <2> QED
    BY <2>2, <2>3 DEF PairInv
<1>10. ASSUME NEW x \in Keys PROVE Alone(x)'
  <2> SUFFICES ASSUME NEW s \in Tasks, NEW t \in Tasks, Holds(s, x)', Holds(t, x)'
               PROVE  s = t \/ rows'[x].doubled
    BY DEF Alone
  <2>1. Alone(x)
    BY DEF Parts
  <2> QED
    BY <1>4, <1>8, <2>1 DEF Alone, Fresh
<1>11. ASSUME NEW s \in Tasks PROVE TaskInv(s)'
  <2>1. TaskInv(s)
    BY DEF Parts
  <2> QED
    BY <1>5, <2>1 DEF TaskInv
<1> QED
  BY <1>6, <1>7, <1>9, <1>10, <1>11 DEF Parts

-----------------------------------------------------------------------------
(* Steps of a task that leave the rows alone.                               *)

\* b is what task t becomes: dropped, or grown to stand for more of what was asked,
\* or decided to fail on the row as it is.
Moved(t, b) ==
    \/ b.phase = "idle"
    \/ /\ Busy(t)
       /\ b.key = task[t].key /\ b.id = task[t].id /\ b.force = task[t].force
       /\ b.seen = task[t].seen \/ b.seen = input[b.key]
       /\ b.seenForce = task[t].seenForce \/ b.seenForce = asked[b.key]
       /\ b.phase = "failing" => b.tries > 0
       /\ b.phase = "failing" /\ b.verdict = "retry" => rows[b.key].attempts < b.tries
       /\ b.phase = "skipping" => b.force = Plain

LEMMA MovedKeeps ==
    ASSUME TypeOK, Parts, NEW t \in Tasks, NEW b \in Task, Moved(t, b),
           task' = [task EXCEPT ![t] = b], UNCHANGED <<rows, result, hist>>, ControlType'
    PROVE  TypeOK' /\ Parts'
<1>1. /\ rows \in [Keys -> Row] /\ task \in [Tasks -> Task] /\ task' \in [Tasks -> Task]
      /\ UNCHANGED <<rows, result, input, asked, answered, honoured, missed>>
      /\ HistoryType
      /\ task'[t] = b /\ \A s \in Tasks \ {t} : task'[s] = task[s]
  BY DEF TypeOK, hist, HistoryType
<1>2. TypeOK'
  <2>1. TaskType'
    BY <1>1 DEF TypeOK, TaskType, Busy, Moved
  <2> QED
    BY <1>1, <2>1 DEF TypeOK, ControlType, HistoryType, TaskType
<1>3. ASSUME NEW x \in Keys PROVE KeyInv(x)'
  BY <1>1 DEF Parts, KeyInv
<1>4. ASSUME NEW s \in Tasks, NEW x \in Keys, Holds(s, x)' PROVE Holds(s, x)
  BY <1>1, <1>4 DEF Holds, RunsRow, Busy, Moved
<1>5. ASSUME NEW s \in Tasks, NEW x \in Keys PROVE PairInv(s, x)'
  <2>1. PairInv(s, x) /\ KeyInv(x)
    BY DEF Parts
  <2>2. CASE s # t
    BY <1>1, <2>1, <2>2 DEF PairInv, Holds, RunsRow, Busy, Stands
  <2>3. CASE s = t
    <3>1. ASSUME Holds(t, x)' PROVE Stands(t, x)'
      BY <1>1, <1>4, <2>1, <2>3, <3>1 DEF PairInv, Stands, Holds, RunsRow, Busy, Moved
    <3>2. ASSUME Busy(t)', b.key = x
          PROVE  /\ b.id <= rows[x].id
                 /\ b.seen <= input[x]
                 /\ b.id = rows[x].id /\ rows[x].state \in Live => result[x] <= b.seen
      <4>1. input[x] \in Nat /\ result[x] \in Nat
        BY <1>1 DEF HistoryType
      <4> QED
        BY <1>1, <2>1, <2>3, <3>2, <4>1 DEF PairInv, KeyInv, Busy, Moved
    <3> QED
      BY <1>1, <2>3, <3>1, <3>2 DEF PairInv
  <2> QED
    BY <2>2, <2>3
<1>6. ASSUME NEW x \in Keys PROVE Alone(x)'
  BY <1>1, <1>4 DEF Parts, Alone
<1>7. ASSUME NEW s \in Tasks PROVE TaskInv(s)'
  <2>1. TaskInv(s)
    BY DEF Parts
  <2> QED
    BY <1>1, <2>1 DEF TaskInv, Moved
<1> QED
  BY <1>2, <1>3, <1>5, <1>6, <1>7 DEF Parts

LEMMA BeginKeeps ==
    ASSUME TypeOK, Parts, NEW t \in Tasks, Begin(t), ControlType'
    PROVE  TypeOK' /\ Parts'
<1> USE DEF db
<1> DEFINE k == task[t].key
<1>1. /\ task[t] \in Task /\ task[t].phase = "started" /\ Busy(t) /\ k \in Keys
      /\ input[k] \in Nat /\ asked[k] \in Nat
  BY DEF TypeOK, Begin, Busy
<1>2. CASE SetTask(t, [[task[t] EXCEPT !.seen = input[k]]
                          EXCEPT !.phase = "working", !.seenForce = asked[k]])
  <2>1. PICK b \in Task :
          /\ SetTask(t, b) /\ b.phase = "working"
          /\ b.key = k /\ b.id = task[t].id /\ b.force = task[t].force
          /\ b.seen = input[k] /\ b.seenForce = asked[k]
    <3> DEFINE b == [phase |-> "working", key |-> k, id |-> task[t].id,
                     force |-> task[t].force, seen |-> input[k], seenForce |-> asked[k],
                     verdict |-> task[t].verdict, tries |-> task[t].tries]
    <3>1. b \in Task
      BY <1>1 DEF Task, Phases
    <3>2. ASSUME NEW c, c = [[task[t] EXCEPT !.seen = input[k]]
                                    EXCEPT !.phase = "working", !.seenForce = asked[k]]
          PROVE  c = b
      BY <1>1, <3>2 DEF Task
    <3> QED
      BY <1>2, <3>1, <3>2
  <2>2. Moved(t, b)
    BY <1>1, <2>1 DEF Moved
  <2> QED
    BY <1>1, <2>1, <2>2, MovedKeeps DEF Begin, SetTask
<1>3. CASE /\ task[t].force = Plain
           /\ SetTask(t, [[task[t] EXCEPT !.seen = input[k]] EXCEPT !.phase = "skipping"])
  <2>1. PICK b \in Task :
          /\ SetTask(t, b) /\ b.phase = "skipping"
          /\ b.key = k /\ b.id = task[t].id /\ b.force = Plain /\ task[t].force = Plain
          /\ b.seen = input[k] /\ b.seenForce = task[t].seenForce
    <3> DEFINE b == [phase |-> "skipping", key |-> k, id |-> task[t].id,
                     force |-> task[t].force, seen |-> input[k],
                     seenForce |-> task[t].seenForce,
                     verdict |-> task[t].verdict, tries |-> task[t].tries]
    <3>1. b \in Task
      BY <1>1 DEF Task, Phases
    <3>2. ASSUME NEW c, c = [[task[t] EXCEPT !.seen = input[k]] EXCEPT !.phase = "skipping"]
          PROVE  c = b
      BY <1>1, <3>2 DEF Task
    <3> QED
      BY <1>3, <3>1, <3>2
  <2>2. Moved(t, b)
    BY <1>1, <2>1 DEF Moved
  <2> QED
    BY <1>1, <2>1, <2>2, MovedKeeps DEF Begin, SetTask
<1> QED
  BY <1>2, <1>3 DEF Begin

\* A retry is decided only for a row that has tries left.
LEMMA VerdictTries ==
    ASSUME NEW r \in Row, r.max > 0,
           NEW class \in {"parking", "transient", "unknown", "permanent"}
    PROVE  /\ Budget(class, r) \in Nat /\ Budget(class, r) > 0
           /\ Verdict(class, r) \in {"park", "retry", "fail"}
           /\ Verdict(class, r) = "retry" => r.attempts < Budget(class, r)
BY QueueAssumption DEF QueueAssumption, Budget, Verdict, Higher, Row

LEMMA FailDecideKeeps ==
    ASSUME TypeOK, Parts, NEW t \in Tasks, ControlType',
           NEW class \in {"parking", "transient", "unknown", "permanent"},
           FailDecide(t, class)
    PROVE  TypeOK' /\ Parts'
<1> USE DEF db
<1> DEFINE k == task[t].key
           verdict == Verdict(class, rows[k])
           tries == Budget(class, rows[k])
<1>1. /\ task[t] \in Task /\ Busy(t) /\ k \in Keys /\ rows[k] \in Row
  BY DEF TypeOK, FailDecide, Busy
<1>2. KeyInv(k)
  BY <1>1 DEF Parts
<1>3. /\ tries \in Nat /\ tries > 0 /\ verdict \in {"park", "retry", "fail"}
      /\ verdict = "retry" => rows[k].attempts < tries
  BY <1>1, <1>2, VerdictTries DEF KeyInv
<1>4. CASE SetTask(t, [task[t] EXCEPT !.phase = "failing", !.verdict = verdict, !.tries = tries])
  <2> HIDE DEF verdict, tries
  <2>1. PICK b \in Task :
          /\ SetTask(t, b) /\ b.phase = "failing" /\ b.verdict = verdict /\ b.tries = tries
          /\ b.key = k /\ b.id = task[t].id /\ b.force = task[t].force
          /\ b.seen = task[t].seen /\ b.seenForce = task[t].seenForce
    <3> DEFINE b == [phase |-> "failing", key |-> k, id |-> task[t].id,
                     force |-> task[t].force, seen |-> task[t].seen,
                     seenForce |-> task[t].seenForce, verdict |-> verdict, tries |-> tries]
    <3>1. b \in Task
      BY <1>1, <1>3 DEF Task, Phases
    <3>2. ASSUME NEW c, c = [task[t] EXCEPT !.phase = "failing", !.verdict = verdict, !.tries = tries]
          PROVE  c = b
      BY <1>1, <3>2 DEF Task
    <3> QED
      BY <1>4, <3>1, <3>2
  <2>2. Moved(t, b)
    BY <1>1, <1>3, <2>1 DEF Moved
  <2> QED
    BY <1>1, <2>1, <2>2, MovedKeeps DEF FailDecide, SetTask
<1>5. CASE SetTask(t, Idle)
  BY <1>5, IdleType, MovedKeeps DEF FailDecide, SetTask, Moved
<1> QED
  BY <1>4, <1>5 DEF FailDecide

-----------------------------------------------------------------------------
(* Triggers.                                                                *)

\* What a trigger of x, or none, makes of it.
Told(x) ==
    /\ result'[x] = result[x] /\ answered'[x] = answered[x] /\ honoured'[x] = honoured[x]
    /\ input'[x] >= input[x]
    /\ \/ /\ rows'[x] = rows[x] /\ asked'[x] = asked[x]
          /\ input'[x] = input[x] /\ x \in missed => x \in missed'
          /\ input'[x] # input[x] => x \in missed'
       \/ \E level \in ForceLevel, forced \in BOOLEAN :
            /\ rows'[x] = Enqueued(x, rows[x], forced, level)
            /\ asked'[x] = asked[x] \/ level # Plain

\* A key that was told keeps its invariant, and a row in flight stays as it was for
\* the task that holds it.
LEMMA ToldKeeps ==
    ASSUME TypeOK, Parts, HistoryType', NEW x \in Keys, Told(x)
    PROVE  /\ rows'[x] \in Row /\ KeyInv(x)'
           /\ rows'[x].id >= rows[x].id /\ rows'[x].doubled = rows[x].doubled
           /\ rows'[x].id = rows[x].id =>
                /\ rows'[x].state = rows[x].state /\ rows'[x].owner = rows[x].owner
                /\ rows'[x].attempts = rows[x].attempts
           /\ rows[x].state \in InFlight =>
                /\ rows'[x].id = rows[x].id
                /\ rows'[x].force = rows[x].force
                /\ rows[x].rerun => rows'[x].rerun
                /\ Owed(rows[x]) => Owed(rows'[x])
                /\ \/ rows'[x].rerun
                   \/ input'[x] = input[x] /\ (x \in missed => x \in missed')
                   \/ x \in missed'
                /\ Owed(rows'[x]) \/ asked'[x] = asked[x]
           /\ rows'[x].id # rows[x].id => rows'[x].state = "pending"
<1>1. /\ rows[x] \in Row /\ KeyInv(x)
      /\ result[x] \in Nat /\ input[x] \in Nat /\ input'[x] \in Nat
      /\ rows[x].id \in Nat /\ rows[x].state \in Live \cup Ended
  BY DEF TypeOK, Parts, HistoryType, Row
<1>2. CASE rows'[x] = rows[x] /\ asked'[x] = asked[x]
           /\ (input'[x] = input[x] /\ x \in missed => x \in missed')
           /\ (input'[x] # input[x] => x \in missed')
  <2>1. KeyInv(x)'
    BY <1>1, <1>2 DEF Told, KeyInv
  <2> QED
    BY <1>1, <1>2, <2>1
<1>3. ASSUME NEW level \in ForceLevel, NEW forced \in BOOLEAN,
             rows'[x] = Enqueued(x, rows[x], forced, level),
             asked'[x] = asked[x] \/ level # Plain
      PROVE  /\ rows'[x] \in Row /\ KeyInv(x)'
             /\ rows'[x].id >= rows[x].id /\ rows'[x].doubled = rows[x].doubled
             /\ rows'[x].id = rows[x].id =>
                  /\ rows'[x].state = rows[x].state /\ rows'[x].owner = rows[x].owner
                  /\ rows'[x].attempts = rows[x].attempts
             /\ rows[x].state \in InFlight =>
                  /\ rows'[x].id = rows[x].id
                  /\ rows'[x].force = rows[x].force
                  /\ rows'[x].rerun
                  /\ Owed(rows[x]) => Owed(rows'[x])
                  /\ Owed(rows'[x]) \/ asked'[x] = asked[x]
             /\ rows'[x].id # rows[x].id => rows'[x].state = "pending"
  <2>1. CASE rows[x].state \notin Live
    <3>1. /\ rows'[x] \in Row
          /\ rows'[x].state = "pending" /\ rows'[x].owner = None
          /\ rows'[x].id = rows[x].id + 1 /\ rows'[x].doubled = rows[x].doubled
          /\ rows'[x].force = level
          /\ rows'[x].attempts = 0 /\ rows'[x].max = MaxAttempts /\ rows'[x].resumes = 0
          /\ MaxAttempts \in Nat /\ MaxAttempts > 0
      <4>1. rows'[x] = NewRow(x, rows[x], level)
        BY <1>1, <1>3, <2>1, EnqueuedType
      <4>2. MaxAttempts \in Nat /\ MaxAttempts > 0
        BY QueueAssumption DEF QueueAssumption
      <4>3. ASSUME NEW q, q = NewRow(x, rows[x], level)
            PROVE  /\ q \in Row /\ q.state = "pending" /\ q.owner = None
                   /\ q.id = rows[x].id + 1 /\ q.doubled = rows[x].doubled
                   /\ q.force = level
                   /\ q.attempts = 0 /\ q.max = MaxAttempts /\ q.resumes = 0
        BY <1>1, <4>3, NewRowType
      <4> QED
        BY <4>1, <4>2, <4>3
    <3>2. KeyInv(x)'
      BY <1>1, <1>3, <2>1, <3>1 DEF Told, KeyInv, Owned, Live, Ended, InFlight
    <3> QED
      BY <1>1, <2>1, <3>1, <3>2 DEF Live
  <2>2. CASE rows[x].state \in Live
    <3>1. Joined(rows'[x], rows[x], level)
      BY <1>1, <1>3, <2>2, EnqueuedType
    <3>2. KeyInv(x)'
      BY <1>1, <1>3, <2>2, <3>1 DEF Told, KeyInv, Owned, Owed, Joined, Live, Ended, InFlight
    <3>3. rows[x].state \in InFlight =>
                  /\ rows'[x].force = rows[x].force
                  /\ rows'[x].rerun
                  /\ level # Plain \/ Owed(rows[x]) => Owed(rows'[x])
      BY <1>1, <1>3, EnqueuedType
    <3> QED
      BY <1>1, <1>3, <3>1, <3>2, <3>3 DEF Joined
  <2> QED
    BY <2>1, <2>2
<1> QED
  BY <1>2, <1>3 DEF Told

\* ... and so do its tasks, kept or dropped.
LEMMA ToldTasks ==
    ASSUME TypeOK, Parts, HistoryType', NEW x \in Keys, Told(x),
           \A s \in Tasks : task'[s] = task[s] \/ task'[s] = Idle
    PROVE  /\ \A s \in Tasks : PairInv(s, x)'
           /\ Alone(x)'
<1>1. /\ rows[x] \in Row /\ rows'[x] \in Row /\ KeyInv(x)
      /\ rows[x].id \in Nat /\ rows'[x].id \in Nat
      /\ result[x] \in Nat /\ input[x] \in Nat /\ input'[x] \in Nat
      /\ result'[x] = result[x] /\ input'[x] >= input[x]
  BY ToldKeeps DEF TypeOK, Parts, HistoryType, Row, Told
<1>2. ASSUME NEW s \in Tasks, Busy(s)' PROVE Busy(s) /\ task'[s] = task[s]
  BY <1>2, IdleType DEF Busy
<1>3. ASSUME NEW s \in Tasks, Holds(s, x)'
      PROVE  Holds(s, x) /\ rows[x].state \in InFlight /\ rows'[x].id = rows[x].id
  <2>1. rows'[x].id = rows[x].id
    BY <1>3, ToldKeeps DEF Holds, RunsRow, InFlight
  <2> QED
    BY <1>2, <1>3, <2>1, ToldKeeps DEF Holds, RunsRow
<1>4. ASSUME NEW s \in Tasks PROVE PairInv(s, x)'
  <2>1. PairInv(s, x) /\ task[s] \in Task
    BY DEF Parts, TypeOK
  <2>2. ASSUME Holds(s, x)' PROVE Stands(s, x)'
    <3>1. Holds(s, x) /\ Stands(s, x) /\ task'[s] = task[s]
      BY <1>2, <1>3, <2>1, <2>2 DEF PairInv, Holds, RunsRow
    <3> QED
      BY <1>3, <2>2, <3>1, ToldKeeps DEF Stands
  <2>3. ASSUME Busy(s)', task'[s].key = x
        PROVE  /\ task'[s].id <= rows'[x].id
               /\ task'[s].seen <= input'[x]
               /\ task'[s].id = rows'[x].id /\ rows'[x].state \in Live
                    => result'[x] <= task'[s].seen
    <3>1. /\ task[s].id \in Nat /\ task[s].seen \in Nat /\ task'[s] = task[s]
          /\ task[s].id <= rows[x].id /\ task[s].seen <= input[x]
          /\ task[s].id = rows[x].id /\ rows[x].state \in Live => result[x] <= task[s].seen
      BY <1>2, <2>1, <2>3 DEF Task, PairInv
    <3>2. rows'[x].id >= rows[x].id
          /\ (rows'[x].id = rows[x].id => rows'[x].state = rows[x].state)
      BY ToldKeeps
    <3> QED
      BY <1>1, <3>1, <3>2
  <2> QED
    BY <2>2, <2>3 DEF PairInv
<1>5. Alone(x)'
  BY <1>3, ToldKeeps DEF Parts, Alone
<1> QED
  BY <1>4, <1>5

LEMMA EnqueuedRow ==
    ASSUME NEW k \in Keys, NEW r \in Row, NEW forced \in BOOLEAN, NEW level \in ForceLevel
    PROVE  Enqueued(k, r, forced, level) \in Row
<1>1. CASE r.state \in Live
  BY <1>1, EnqueuedType DEF Joined
<1>2. CASE r.state \notin Live
  <2>1. Enqueued(k, r, forced, level) = NewRow(k, r, level)
    BY <1>2, EnqueuedType
  <2>2. NewRow(k, r, level) \in Row
    BY NewRowType
  <2> QED
    BY <2>1, <2>2
<1> QED
  BY <1>1, <1>2

LEMMA LevelsType == \A level \in Levels : level \in ForceLevel
BY QueueAssumption DEF QueueAssumption, ForceLevel, Plain, Cascade

LEMMA TriggerKeeps ==
    ASSUME TypeOK, Parts, NEW k \in Keys, NEW changed \in BOOLEAN, NEW level \in Levels,
           Trigger(k, changed, level), ControlType'
    PROVE  TypeOK' /\ Parts'
<1> USE DEF procs
<1>1. /\ rows \in [Keys -> Row] /\ task \in [Tasks -> Task] /\ UNCHANGED task
      /\ result \in [Keys -> Nat] /\ input \in [Keys -> Nat] /\ asked \in [Keys -> Nat]
      /\ answered \in [Keys -> Nat] /\ honoured \in [Keys -> Nat] /\ missed \subseteq Keys
      /\ UNCHANGED <<result, answered, honoured>>
      /\ level \in ForceLevel
      /\ changed => level = Plain
  BY LevelsType DEF TypeOK, Trigger
<1>2. input' \in [Keys -> Nat] /\ \A x \in Keys : input'[x] >= input[x]
  BY <1>1 DEF Trigger
<1>3. /\ asked' \in [Keys -> Nat] /\ missed' \subseteq Keys /\ rows' \in [Keys -> Row]
  <2>1. Enqueued(k, rows[k], level # Plain, level) \in Row
    BY <1>1, EnqueuedRow
  <2> QED
    BY <1>1, <2>1 DEF Trigger
<1>4. HistoryType'
  BY <1>1, <1>2, <1>3 DEF HistoryType
<1>5. ASSUME NEW x \in Keys PROVE Told(x)
  <2>1. CASE x # k
    BY <1>1, <1>2, <2>1 DEF Told, Trigger
  <2>2. CASE x = k /\ ~Fed(k)
    BY <1>1, <1>2, <2>2 DEF Told, Trigger
  <2>3. CASE x = k /\ Fed(k)
    <3>1. rows'[k] = Enqueued(k, rows[k], level # Plain, level)
      BY <1>1, <2>3 DEF Trigger
    <3>2. asked'[k] = asked[k] \/ level # Plain
      BY <1>1, <2>3 DEF Trigger
    <3> QED
      BY <1>1, <1>2, <2>3, <3>1, <3>2 DEF Told
  <2> QED
    BY <2>1, <2>2, <2>3
<1>6. TypeOK'
  <2>1. TaskType'
    BY <1>1 DEF TypeOK, TaskType, Busy
  <2> QED
    BY <1>3, <1>4, <2>1 DEF TypeOK, ControlType, HistoryType, TaskType
<1>7. ASSUME NEW t \in Tasks PROVE TaskInv(t)'
  BY <1>1 DEF Parts, TaskInv
<1> QED
  BY <1>1, <1>4, <1>5, <1>6, <1>7, ToldKeeps, ToldTasks DEF Parts

-----------------------------------------------------------------------------
(* Endings.                                                                 *)

\* Task t is over, and with it the claim of its key k; the other keys were told.
Over(t, k) ==
    /\ task' = [task EXCEPT ![t] = Idle]
    /\ rows' \in [Keys -> Row]
    /\ \A x \in Keys \ {k} : Told(x)
    /\ rows'[k].state \notin InFlight
    /\ rows'[k].id >= rows[k].id
    /\ input'[k] >= input[k]
    /\ rows'[k].id = rows[k].id /\ rows'[k].state \in Live =>
         rows[k].state \in Live /\ result'[k] = result[k]

LEMMA OverKeeps ==
    ASSUME TypeOK, Parts, NEW t \in Tasks, NEW k \in Keys, Over(t, k), KeyInv(k)',
           HistoryType', ControlType'
    PROVE  TypeOK' /\ Parts'
<1>1. /\ task \in [Tasks -> Task] /\ task' \in [Tasks -> Task]
      /\ \A s \in Tasks : task'[s] = task[s] \/ task'[s] = Idle
  BY IdleType DEF TypeOK, Over
<1>2. ASSUME NEW s \in Tasks, Busy(s)' PROVE Busy(s) /\ task'[s] = task[s]
  BY <1>1, <1>2, IdleType DEF Busy
<1>3. TypeOK'
  <2>1. TaskType'
    BY <1>1, <1>2 DEF TypeOK, TaskType
  <2> QED
    BY <2>1 DEF TypeOK, ControlType, HistoryType, TaskType, Over
<1>4. ASSUME NEW x \in Keys PROVE KeyInv(x)'
  BY ToldKeeps DEF Over
<1>5. ASSUME NEW s \in Tasks PROVE ~Holds(s, k)'
  BY DEF Over, Holds
<1>6. ASSUME NEW s \in Tasks, NEW x \in Keys PROVE PairInv(s, x)'
  <2>1. CASE x # k
    BY <1>1, <2>1, ToldTasks DEF Over
  <2>2. ASSUME Busy(s)', task'[s].key = k
        PROVE  /\ task'[s].id <= rows'[k].id
               /\ task'[s].seen <= input'[k]
               /\ task'[s].id = rows'[k].id /\ rows'[k].state \in Live
                    => result'[k] <= task'[s].seen
    <3>1. PairInv(s, k)
      BY DEF Parts
    <3>2. /\ task[s].id \in Nat /\ task[s].seen \in Nat /\ task'[s] = task[s]
          /\ task[s].id <= rows[k].id /\ task[s].seen <= input[k]
          /\ task[s].id = rows[k].id /\ rows[k].state \in Live => result[k] <= task[s].seen
      BY <1>1, <1>2, <2>2, <3>1 DEF Task, PairInv
    <3>3. /\ rows[k].id \in Nat /\ rows'[k].id \in Nat
          /\ input[k] \in Nat /\ input'[k] \in Nat
      BY DEF TypeOK, HistoryType, Over, Row
    <3> QED
      BY <3>2, <3>3 DEF Over
  <2> QED
    BY <1>5, <2>1, <2>2 DEF PairInv
<1>7. ASSUME NEW x \in Keys PROVE Alone(x)'
  BY <1>1, <1>5, ToldTasks DEF Over, Alone
<1>8. ASSUME NEW s \in Tasks PROVE TaskInv(s)'
  <2>1. TaskInv(s)
    BY DEF Parts
  <2> QED
    BY <1>1, <2>1, IdleType DEF TaskInv
<1> QED
  BY <1>3, <1>4, <1>6, <1>7, <1>8 DEF Parts

LEMMA AfterEndType ==
    ASSUME NEW k \in Keys, NEW r \in Row, NEW state \in Ended, NEW q, q = AfterEnd(k, r, state)
    PROVE  /\ q \in Row
           /\ q.owner = None /\ q.doubled = r.doubled
           /\ q.attempts = 0 /\ q.max = MaxAttempts /\ q.resumes = 0
           /\ r.rerun /\ Fed(k) =>
                q.state = "pending" /\ q.id = r.id + 1 /\ q.force = r.rerunForce
           /\ ~(r.rerun /\ Fed(k)) => q.state = state /\ q.id = r.id
<1>1. CASE r.rerun /\ Fed(k)
  <2>1. PICK force \in ForceLevel : force = r.rerunForce
    BY DEF Row
  <2>2. q = NewRow(k, r, force)
    BY <1>1, <2>1 DEF AfterEnd
  <2>3. ASSUME NEW new, new = NewRow(k, r, force)
        PROVE  /\ new \in Row /\ new.state = "pending" /\ new.owner = None
               /\ new.id = r.id + 1 /\ new.doubled = r.doubled /\ new.force = force
               /\ new.attempts = 0 /\ new.max = MaxAttempts /\ new.resumes = 0
    BY <2>3, NewRowType
  <2> QED
    BY <1>1, <2>1, <2>2, <2>3
<1>2. CASE ~(r.rerun /\ Fed(k))
  <2>1. q = EndedRow(r, state)
    BY <1>2 DEF AfterEnd
  <2> QED
    BY <1>2, <2>1, EndedRowType
<1> QED
  BY <1>1, <1>2

\* The job of k ends as state, having settled all its row stood for but a rerun.
Settled(k, state) ==
    /\ rows'[k] = AfterEnd(k, rows[k], state)
    /\ input'[k] = input[k] /\ asked'[k] = asked[k] /\ result'[k] <= input[k]
    /\ rows[k].doubled \/ rows[k].rerun \/ answered'[k] = input[k] \/ k \in missed
    /\ rows[k].doubled \/ Owed(rows[k]) \/ honoured'[k] = asked[k]
    /\ k \in missed => k \in missed'
    /\ DropsRerun(k) => k \in missed' /\ honoured'[k] = asked[k]

LEMMA SettledKey ==
    ASSUME TypeOK, Parts, HistoryType', NEW k \in Keys, NEW state \in Ended, Settled(k, state)
    PROVE  /\ KeyInv(k)'
           /\ rows'[k] \in Row
           /\ rows'[k].state \notin InFlight
           /\ rows'[k].id >= rows[k].id
           /\ rows'[k].id = rows[k].id => rows'[k].state \notin Live
<1>1. /\ rows[k] \in Row /\ rows[k].id \in Nat
      /\ MaxAttempts \in Nat /\ MaxAttempts > 0
      /\ "pending" \notin InFlight /\ "pending" \in Live /\ "pending" \notin Ended
      /\ state \notin Live /\ state \notin InFlight /\ state # "pending"
  BY QueueAssumption DEF TypeOK, Row, QueueAssumption, Live, InFlight, Ended
<1>2. /\ rows'[k] \in Row
      /\ rows'[k].owner = None /\ rows'[k].doubled = rows[k].doubled
      /\ rows'[k].attempts = 0 /\ rows'[k].max = MaxAttempts /\ rows'[k].resumes = 0
      /\ rows[k].rerun /\ Fed(k) =>
           /\ rows'[k].state = "pending" /\ rows'[k].id = rows[k].id + 1
           /\ rows'[k].force = rows[k].rerunForce
      /\ ~(rows[k].rerun /\ Fed(k)) => rows'[k].state = state /\ rows'[k].id = rows[k].id
  BY <1>1, AfterEndType DEF Settled
<1>3. KeyInv(k)'
  BY <1>1, <1>2 DEF Settled, KeyInv, Owned, Owed, DropsRerun
<1> QED
  BY <1>1, <1>2, <1>3

\* A job nobody else is told of: what its end leaves behind.
LEMMA WrittenOffType ==
    ASSUME TypeOK, NEW k \in Keys, NEW seen \in Nat, NEW forced \in Nat,
           WrittenOff(k, seen, forced), UNCHANGED result
    PROVE  /\ HistoryType'
           /\ input' = input /\ asked' = asked
           /\ answered'[k] = seen
           /\ honoured'[k] = IF DropsRerun(k) THEN asked[k] ELSE forced
           /\ k \in missed => k \in missed'
           /\ DropsRerun(k) => k \in missed'
           /\ \A x \in Keys \ {k} : /\ answered'[x] = answered[x] /\ honoured'[x] = honoured[x]
                                    /\ x \in missed => x \in missed'
<1>1. HistoryType
  BY TypeParts
<1> QED
  BY <1>1 DEF WrittenOff, HistoryType

LEMMA CancelledKeeps ==
    ASSUME TypeOK, Parts, NEW t \in Tasks, Cancelled(t), ControlType'
    PROVE  TypeOK' /\ Parts'
<1>0. PICK k \in Keys : k = task[t].key
  BY DEF TypeOK, Cancelled, Busy
<1>1. /\ rows \in [Keys -> Row] /\ HistoryType
      /\ input[k] \in Nat /\ asked[k] \in Nat
  BY DEF TypeOK, HistoryType
<1>2. CASE rows[k].owner \in {None, Host[t]}
  <2>1. rows' = [rows EXCEPT ![k] = AfterEnd(k, rows[k], "cancelled")]
        /\ WrittenOff(k, input[k], asked[k])
    BY <1>0, <1>2 DEF Cancelled
  <2>2. "cancelled" \in Ended /\ KeyInv(k)
    BY <1>1 DEF Ended, Parts
  <2>3. HistoryType' /\ Settled(k, "cancelled")
    <3>1. /\ HistoryType'
          /\ input' = input /\ asked' = asked /\ result' = result
          /\ answered'[k] = input[k] /\ honoured'[k] = asked[k]
          /\ k \in missed => k \in missed'
          /\ DropsRerun(k) => k \in missed'
      BY <1>1, <2>1, WrittenOffType DEF Cancelled
    <3>2. rows'[k] = AfterEnd(k, rows[k], "cancelled") /\ result[k] <= input[k]
      BY <1>1, <2>1, <2>2 DEF KeyInv
    <3> QED
      BY <3>1, <3>2 DEF Settled
  <2>4. /\ KeyInv(k)' /\ rows'[k] \in Row /\ rows'[k].state \notin InFlight
        /\ rows'[k].id >= rows[k].id
        /\ rows'[k].id = rows[k].id => rows'[k].state \notin Live
    BY <1>1, <2>2, <2>3, SettledKey
  <2>5. rows' \in [Keys -> Row] /\ \A x \in Keys \ {k} : rows'[x] = rows[x]
    BY <1>1, <2>1, <2>4
  <2>6. ASSUME NEW x \in Keys, x # k PROVE Told(x)
    <3>1. /\ input' = input /\ asked' = asked /\ result' = result
          /\ answered'[x] = answered[x] /\ honoured'[x] = honoured[x]
          /\ x \in missed => x \in missed'
      BY <1>1, <2>1, <2>6, WrittenOffType DEF Cancelled
    <3>2. input[x] \in Nat /\ rows'[x] = rows[x]
      BY <1>1, <2>5, <2>6 DEF HistoryType
    <3> QED
      BY <3>1, <3>2 DEF Told
  <2>7. Over(t, k)
    BY <1>1, <2>3, <2>4, <2>5, <2>6 DEF Over, Settled, Cancelled, SetTask, HistoryType
  <2> QED
    BY <1>1, <2>3, <2>4, <2>7, OverKeeps
<1>3. CASE rows[k].owner \notin {None, Host[t]}
  BY <1>0, <1>3, IdleType, MovedKeeps DEF Cancelled, SetTask, Moved
<1> QED
  BY <1>2, <1>3

\* q is r, run again, with the attempts and the maximum given.
RunsAgain(r, q, attempts, max) ==
    /\ q \in Row
    /\ q.state = "pending" /\ q.owner = None
    /\ q.id = r.id /\ q.doubled = r.doubled /\ q.resumes = r.resumes
    /\ q.force = Plain <=> r.force = Plain /\ r.rerunForce = Plain
    /\ q.attempts = attempts /\ q.max = max

LEMMA RunsAgainType ==
    ASSUME NEW r \in Row, NEW tries \in Nat
    PROVE  /\ Refunded(r) \in Nat /\ Refunded(r) <= r.attempts
           /\ r.attempts > 0 => Refunded(r) < r.attempts
           /\ RunsAgain(r, [Again(r) EXCEPT !.parked = TRUE, !.attempts = Refunded(r)],
                        Refunded(r), r.max)
           /\ RunsAgain(r, [Again(r) EXCEPT !.max = tries], r.attempts, tries)
<1>1. /\ Refunded(r) \in Nat /\ Refunded(r) <= r.attempts
      /\ r.attempts > 0 => Refunded(r) < r.attempts
  BY DEF Row, Refunded
<1>2. PICK a \in Row :
        /\ a = Again(r)
        /\ a.state = "pending" /\ a.owner = None
        /\ a.id = r.id /\ a.doubled = r.doubled
        /\ a.force = Plain <=> r.force = Plain /\ r.rerunForce = Plain
        /\ a.attempts = r.attempts /\ a.max = r.max
        /\ a.resumes = r.resumes
  BY AgainType
<1>3. PICK attempts \in Nat : attempts = Refunded(r)
  BY <1>1
<1>4. RunsAgain(r, [a EXCEPT !.parked = TRUE, !.attempts = attempts], attempts, r.max)
  <2> DEFINE new == [id |-> a.id, state |-> a.state, owner |-> a.owner,
                     attempts |-> attempts, max |-> a.max, pauseReq |-> a.pauseReq,
                     cancelReq |-> a.cancelReq, later |-> a.later, parked |-> TRUE,
                     force |-> a.force, rerun |-> a.rerun, rerunForce |-> a.rerunForce,
                     resumes |-> a.resumes, doubled |-> a.doubled]
  <2>1. new \in Row
    BY DEF Row
  <2>2. RunsAgain(r, new, attempts, r.max)
    BY <1>2, <2>1 DEF RunsAgain
  <2>3. ASSUME NEW q, q = [a EXCEPT !.parked = TRUE, !.attempts = attempts]
        PROVE  q = new
    BY <2>3 DEF Row
  <2> QED
    BY <2>2, <2>3
<1>5. RunsAgain(r, [a EXCEPT !.max = tries], r.attempts, tries)
  BY <1>2 DEF RunsAgain, Row
<1> QED
  BY <1>1, <1>2, <1>3, <1>4, <1>5

LEMMA FailWriteKeeps ==
    ASSUME TypeOK, Parts, NEW t \in Tasks, FailWrite(t), ControlType'
    PROVE  TypeOK' /\ Parts'
<1>0. PICK k \in Keys : k = task[t].key
  BY DEF TypeOK, FailWrite, Busy
<1>1. /\ rows \in [Keys -> Row] /\ rows[k] \in Row /\ HistoryType
      /\ input[k] \in Nat /\ asked[k] \in Nat
      /\ task[t] \in Task /\ task[t].tries \in Nat
      /\ task[t].seen \in Nat /\ task[t].seenForce \in Nat
      /\ task[t].phase = "failing"
      /\ task' = [task EXCEPT ![t] = Idle]
      /\ result' = result
      /\ KeyInv(k) /\ PairInv(t, k) /\ TaskInv(t)
  BY DEF TypeOK, HistoryType, Task, FailWrite, SetTask, Parts
<1>2. CASE ~Holds(t, k)
  BY <1>0, <1>2, IdleType, MovedKeeps DEF FailWrite, SetTask, Moved
\* the row runs again: the attempts it has left are those of its verdict
<1>3. ASSUME Holds(t, k), UNCHANGED hist, NEW q, NEW attempts, NEW max,
             rows' = [rows EXCEPT ![k] = q], RunsAgain(rows[k], q, attempts, max),
             max > 0, rows[k].doubled \/ attempts < max + rows[k].resumes,
             max \in Nat, attempts \in Nat
      PROVE  TypeOK' /\ Parts'
  <2>1. /\ input' = input /\ asked' = asked /\ answered' = answered
        /\ honoured' = honoured /\ missed' = missed
        /\ HistoryType'
    BY <1>1, <1>3 DEF hist, HistoryType
  <2>2. /\ rows' \in [Keys -> Row] /\ rows'[k] = q
        /\ \A x \in Keys \ {k} : rows'[x] = rows[x]
    BY <1>1, <1>3 DEF RunsAgain
  <2>3. /\ "pending" \notin InFlight /\ "pending" \in Live /\ "pending" \notin Ended
        /\ rows[k].state \in Live /\ rows[k].resumes \in Nat
    BY <1>1, <1>3 DEF Holds, Live, InFlight, Ended, Row
  <2>4. KeyInv(k)'
    BY <1>1, <1>3, <2>1, <2>2, <2>3 DEF KeyInv, RunsAgain, Owned, Owed
  <2>5. ASSUME NEW x \in Keys \ {k} PROVE Told(x)
    BY <1>1, <2>1, <2>2 DEF Told, HistoryType
  <2>6. Over(t, k)
    <3>1. rows[k].id \in Nat
      BY <1>1 DEF Row
    <3> QED
      BY <1>1, <1>3, <2>1, <2>2, <2>3, <2>5, <3>1 DEF Over, RunsAgain
  <2> QED
    BY <2>1, <2>4, <2>6, OverKeeps
<1>4. CASE Holds(t, k) /\ task[t].verdict = "park"
  <2>1. UNCHANGED hist /\ rows' = [rows EXCEPT ![k] =
               [Again(rows[k]) EXCEPT !.parked = TRUE, !.attempts = Refunded(rows[k])]]
    BY <1>0, <1>4 DEF FailWrite
  <2>2. /\ RunsAgain(rows[k], [Again(rows[k]) EXCEPT !.parked = TRUE,
                                                     !.attempts = Refunded(rows[k])],
                     Refunded(rows[k]), rows[k].max)
        /\ Refunded(rows[k]) \in Nat /\ Refunded(rows[k]) <= rows[k].attempts
        /\ rows[k].attempts > 0 => Refunded(rows[k]) < rows[k].attempts
    BY <1>1, RunsAgainType
  <2>3. /\ rows[k].max > 0 /\ rows[k].max \in Nat
        /\ rows[k].doubled \/ Refunded(rows[k]) < rows[k].max + rows[k].resumes
    <3>1. /\ rows[k].attempts \in Nat /\ rows[k].max \in Nat /\ rows[k].resumes \in Nat
          /\ rows[k].max > 0
          /\ rows[k].doubled \/ rows[k].attempts <= rows[k].max + rows[k].resumes
      BY <1>1 DEF Row, KeyInv
    <3> QED
      BY <2>2, <3>1
  <2> QED
    BY <1>3, <1>4, <2>1, <2>2, <2>3
<1>5. CASE Holds(t, k) /\ task[t].verdict = "retry"
  <2>1. UNCHANGED hist /\ rows' = [rows EXCEPT ![k] =
                                     [Again(rows[k]) EXCEPT !.max = task[t].tries]]
    BY <1>0, <1>5 DEF FailWrite
  <2>2. RunsAgain(rows[k], [Again(rows[k]) EXCEPT !.max = task[t].tries],
                  rows[k].attempts, task[t].tries)
    BY <1>1, RunsAgainType
  <2>3. /\ task[t].tries > 0 /\ rows[k].attempts \in Nat
        /\ rows[k].doubled \/ rows[k].attempts < task[t].tries + rows[k].resumes
    <3>1. rows[k].attempts \in Nat /\ rows[k].resumes \in Nat
      BY <1>1 DEF Row
    <3>2. task[t].tries > 0 /\ (rows[k].doubled \/ rows[k].attempts < task[t].tries)
      BY <1>1, <1>5 DEF TaskInv, PairInv, Stands
    <3> QED
      BY <1>1, <3>1, <3>2
  <2> QED
    BY <1>1, <1>3, <1>5, <2>1, <2>2, <2>3
<1>6. CASE Holds(t, k) /\ task[t].verdict = "fail"
  <2>1. rows' = [rows EXCEPT ![k] = AfterEnd(k, rows[k], "failed")]
        /\ WrittenOff(k, task[t].seen, task[t].seenForce)
    BY <1>0, <1>6 DEF FailWrite
  <2>2. "failed" \in Ended
    BY DEF Ended
  <2>3. HistoryType' /\ Settled(k, "failed")
    <3>1. /\ HistoryType'
          /\ input' = input /\ asked' = asked
          /\ answered'[k] = task[t].seen
          /\ honoured'[k] = IF DropsRerun(k) THEN asked[k] ELSE task[t].seenForce
          /\ k \in missed => k \in missed'
          /\ DropsRerun(k) => k \in missed'
      BY <1>1, <2>1, WrittenOffType
    <3>2. rows'[k] = AfterEnd(k, rows[k], "failed") /\ result[k] <= input[k]
      BY <1>1, <2>1 DEF KeyInv
    <3>3. Stands(t, k)
      BY <1>1, <1>6 DEF PairInv
    <3> QED
      BY <1>1, <3>1, <3>2, <3>3 DEF Settled, Stands, DropsRerun
  <2>4. /\ KeyInv(k)' /\ rows'[k] \in Row /\ rows'[k].state \notin InFlight
        /\ rows'[k].id >= rows[k].id
        /\ rows'[k].id = rows[k].id => rows'[k].state \notin Live
    BY <2>2, <2>3, SettledKey
  <2>5. rows' \in [Keys -> Row] /\ \A x \in Keys \ {k} : rows'[x] = rows[x]
    BY <1>1, <2>1, <2>4
  <2>6. ASSUME NEW x \in Keys, x # k PROVE Told(x)
    <3>1. /\ input' = input /\ asked' = asked /\ result' = result
          /\ answered'[x] = answered[x] /\ honoured'[x] = honoured[x]
          /\ x \in missed => x \in missed'
      BY <1>1, <2>1, <2>6, WrittenOffType
    <3>2. input[x] \in Nat /\ rows'[x] = rows[x]
      BY <1>1, <2>5, <2>6 DEF HistoryType
    <3> QED
      BY <3>1, <3>2 DEF Told
  <2>7. Over(t, k)
    BY <1>1, <2>3, <2>4, <2>5, <2>6 DEF Over, Settled
  <2> QED
    BY <2>3, <2>4, <2>7, OverKeeps
<1> QED
  BY <1>0, <1>2, <1>4, <1>5, <1>6 DEF FailWrite

LEMMA FinishKeeps ==
    ASSUME TypeOK, Parts, NEW t \in Tasks, NEW changed \in BOOLEAN, NEW waiting \in BOOLEAN,
           NEW requests \in SUBSET Keys, Finish(t, changed, waiting, requests), ControlType'
    PROVE  TypeOK' /\ Parts'
<1>0. PICK k \in Keys : k = task[t].key
  BY DEF TypeOK, Finish, Busy
<1> DEFINE ran == task[t].phase = "working"
           edges == IF waiting THEN {} ELSE IF changed THEN Dependents[k] ELSE Always[k]
           level == IF task[t].force = Cascade THEN Cascade ELSE Plain
           fired == {x \in edges \cup requests : Fed(x)}
           forced == IF level = Cascade THEN edges \cap fired ELSE {}
           news == requests \cup (IF changed THEN Dependents[k] ELSE {})
<1>1. /\ rows \in [Keys -> Row] /\ rows[k] \in Row /\ HistoryType
      /\ task[t] \in Task /\ task[t].seen \in Nat /\ task[t].seenForce \in Nat
      /\ task[t].phase \in {"skipping", "working"} /\ Busy(t)
      /\ task' = [task EXCEPT ![t] = Idle]
      /\ KeyInv(k) /\ PairInv(t, k) /\ TaskInv(t)
  BY DEF TypeOK, HistoryType, Task, Finish, SetTask, Parts, Busy
<1>2. CASE ~Holds(t, k)
  BY <1>0, <1>2, IdleType, MovedKeeps DEF Finish, SetTask, Moved
<1>3. CASE Holds(t, k)
  <2>1. /\ rows' = [x \in Keys |->
              IF x = k THEN AfterEnd(k, rows[k], "done")
              ELSE IF x \in fired
                THEN Enqueued(x, rows[x], FALSE, IF x \in forced THEN level ELSE Plain)
              ELSE rows[x]]
        /\ result' = IF waiting THEN result ELSE [result EXCEPT ![k] = task[t].seen]
        /\ input' = [x \in Keys |-> IF x \in news THEN input[x] + 1 ELSE input[x]]
        /\ asked' = [x \in Keys |-> IF x \in forced THEN asked[x] + 1 ELSE asked[x]]
        /\ answered' = [answered EXCEPT ![k] = task[t].seen]
        /\ honoured' = [honoured EXCEPT ![k] =
              IF DropsRerun(k) THEN asked[k] ELSE IF ran THEN task[t].seenForce ELSE @]
        /\ missed' = ((missed \ fired) \cup (news \ fired))
              \cup (IF DropsRerun(k) THEN {k} ELSE {})
        /\ requests \subseteq Keys /\ requests \subseteq (IF ran THEN Requests[k] ELSE {})
    <3>1. rows' = [x \in Keys |->
              IF x = k THEN AfterEnd(k, rows[k], "done")
              ELSE IF x \in fired
                THEN Enqueued(x, rows[x], FALSE, IF x \in forced THEN level ELSE Plain)
              ELSE rows[x]]
      BY <1>0, <1>3, ZenonT(60) DEF Finish
    <3>2. /\ result' = IF waiting THEN result ELSE [result EXCEPT ![k] = task[t].seen]
          /\ input' = [x \in Keys |-> IF x \in news THEN input[x] + 1 ELSE input[x]]
          /\ asked' = [x \in Keys |-> IF x \in forced THEN asked[x] + 1 ELSE asked[x]]
      BY <1>0, <1>3 DEF Finish
    <3>3. /\ answered' = [answered EXCEPT ![k] = task[t].seen]
          /\ honoured' = [honoured EXCEPT ![k] =
                IF DropsRerun(k) THEN asked[k] ELSE IF ran THEN task[t].seenForce ELSE @]
      BY <1>0, <1>3 DEF Finish
    <3>4. missed' = ((missed \ fired) \cup (news \ fired))
              \cup (IF DropsRerun(k) THEN {k} ELSE {})
      BY <1>0, <1>3 DEF Finish
    <3>5. requests \subseteq Keys /\ requests \subseteq (IF ran THEN Requests[k] ELSE {})
      BY <1>0 DEF Finish
    <3> HIDE DEF ran, edges, level, fired, forced, news
    <3> QED
      BY <3>1, <3>2, <3>3, <3>4, <3>5
\* the keys its end may reach are others than its own
  <2>2. /\ k \notin edges /\ k \notin requests
        /\ edges \subseteq Keys /\ news \subseteq Keys
        /\ k \notin fired /\ k \notin news /\ k \notin forced
        /\ fired \subseteq Keys /\ forced \subseteq fired
        /\ \A x \in fired : Fed(x)
        /\ forced # {} => level = Cascade
        /\ level \in ForceLevel /\ Plain \in ForceLevel /\ Cascade # Plain
    BY <2>1, QueueAssumption DEF QueueAssumption, ForceLevel, Plain, Cascade
  <2> HIDE DEF ran, edges, level, fired, forced, news
  <2>3. HistoryType'
    <3>1. /\ result \in [Keys -> Nat] /\ input \in [Keys -> Nat] /\ asked \in [Keys -> Nat]
          /\ answered \in [Keys -> Nat] /\ honoured \in [Keys -> Nat] /\ missed \subseteq Keys
      BY <1>1 DEF HistoryType
    <3>2. result' \in [Keys -> Nat] /\ answered' \in [Keys -> Nat] /\ honoured' \in [Keys -> Nat]
      BY <1>1, <2>1, <3>1
    <3>3. input' \in [Keys -> Nat] /\ asked' \in [Keys -> Nat]
      BY <2>1, <3>1
    <3>4. missed' \subseteq Keys
      BY <2>1, <2>2, <3>1
    <3> QED
      BY <3>2, <3>3, <3>4 DEF HistoryType
  <2>4. Settled(k, "done")
    <3>1. /\ rows'[k] = AfterEnd(k, rows[k], "done")
          /\ input'[k] = input[k] /\ asked'[k] = asked[k]
          /\ k \in missed => k \in missed'
          /\ DropsRerun(k) => k \in missed'
      BY <2>1, <2>2
    <3>2. /\ result'[k] \in {result[k], task[t].seen}
          /\ answered'[k] = task[t].seen
          /\ honoured'[k] = IF DropsRerun(k) THEN asked[k]
                            ELSE IF ran THEN task[t].seenForce ELSE honoured[k]
      BY <1>1, <2>1 DEF HistoryType
    <3>3. result[k] <= input[k] /\ task[t].seen <= input[k]
      BY <1>0, <1>1 DEF KeyInv, PairInv
    <3>4. Stands(t, k)
      BY <1>1, <1>3 DEF PairInv
    <3>5. ~ran => task[t].force = Plain
      BY <1>1 DEF TaskInv, ran
    <3>6. honoured[k] = asked[k] \/ rows[k].force # Plain \/ Owed(rows[k]) \/ rows[k].doubled
      BY <1>1, <1>3 DEF KeyInv, Holds, Live
    <3> QED
      BY <3>1, <3>2, <3>3, <3>4, <3>5, <3>6 DEF Settled, Stands
  <2>5. "done" \in Ended
    BY DEF Ended
  <2>6. /\ KeyInv(k)' /\ rows'[k] \in Row /\ rows'[k].state \notin InFlight
        /\ rows'[k].id >= rows[k].id
        /\ rows'[k].id = rows[k].id => rows'[k].state \notin Live
    BY <2>3, <2>4, <2>5, SettledKey
  <2>7. ASSUME NEW x \in Keys \ {k} PROVE rows'[x] \in Row /\ Told(x)
    <3>1. /\ rows[x] \in Row /\ input[x] \in Nat /\ input'[x] >= input[x]
          /\ result'[x] = result[x] /\ answered'[x] = answered[x] /\ honoured'[x] = honoured[x]
          /\ x \notin news => input'[x] = input[x]
      BY <1>1, <2>1 DEF HistoryType
    <3>2. CASE x \in fired
      <4>1. PICK l \in ForceLevel : l = IF x \in forced THEN level ELSE Plain
        BY <2>2
      <4>2. rows'[x] = Enqueued(x, rows[x], FALSE, l)
        BY <2>1, <3>2, <4>1
      <4>3. asked'[x] = asked[x] \/ l # Plain
        BY <2>1, <2>2, <4>1
      <4>4. Told(x)
        BY <3>1, <4>2, <4>3 DEF Told
      <4>5. rows'[x] \in Row
        BY <3>1, <4>2, EnqueuedRow
      <4> QED
        BY <4>4, <4>5
    <3>3. CASE x \notin fired
      <4>1. rows'[x] = rows[x] /\ asked'[x] = asked[x]
        BY <2>1, <2>2, <3>3
      <4>2. (x \in missed => x \in missed') /\ (x \in news => x \in missed')
        BY <2>1, <3>3
      <4> QED
        BY <3>1, <4>1, <4>2 DEF Told
    <3> QED
      BY <3>2, <3>3
  <2>8. rows' \in [Keys -> Row]
    BY <2>1, <2>6, <2>7
  <2>9. Over(t, k)
    <3>1. input'[k] >= input[k]
      BY <1>1, <2>4 DEF Settled, HistoryType
    <3> QED
      BY <1>1, <2>6, <2>7, <2>8, <3>1 DEF Over
  <2> QED
    BY <2>3, <2>6, <2>9, OverKeeps
<1> QED
  BY <1>2, <1>3

-----------------------------------------------------------------------------
(* The theorems.                                                            *)

LEMMA InitHolds ==
    ASSUME Init
    PROVE  TypeOK /\ Parts
<1>1. \A k \in Keys : rows[k] = NoRow
  BY DEF Init
<1>2. \A t \in Tasks : task[t] = Idle /\ ~Busy(t)
  BY IdleType DEF Init, Busy
<1>3. rows \in [Keys -> Row] /\ task \in [Tasks -> Task]
  BY NoRowType, IdleType DEF Init
<1>4. TypeOK
  <2>1. ControlType
    BY QueueAssumption DEF QueueAssumption, ControlType, Init
  <2>2. HistoryType
    BY DEF HistoryType, Init
  <2> QED
    BY <1>2, <1>3, <2>1, <2>2, TypeParts DEF TaskType
<1>5. ASSUME NEW k \in Keys PROVE KeyInv(k)
  <2>1. /\ rows[k].state = "none" /\ rows[k].owner = None /\ rows[k].attempts = 0
        /\ rows[k].max = MaxAttempts /\ rows[k].resumes = 0
        /\ MaxAttempts \in Nat /\ MaxAttempts > 0
    BY <1>1, QueueAssumption DEF NoRow, QueueAssumption
  <2>2. /\ answered[k] = 1 /\ input[k] = 1 /\ honoured[k] = 0 /\ asked[k] = 0 /\ result[k] = 0
    BY DEF Init
  <2> QED
    BY <2>1, <2>2 DEF KeyInv, Owned, Live, InFlight
<1>6. ASSUME NEW t \in Tasks PROVE TaskInv(t)
  BY <1>2 DEF TaskInv, Idle
<1> QED
  BY <1>2, <1>4, <1>5, <1>6 DEF Parts, PairInv, Alone, Holds, RunsRow

\* No step, of any actor and in whatever order, breaks the inductive invariant.
LEMMA NextKeeps ==
    ASSUME TypeOK, Parts, Next
    PROVE  TypeOK' /\ Parts'
<1>1. ControlType'
  BY ControlKept
<1>2. CASE QuietAction
  BY <1>1, <1>2, QuietActions, QuietKeeps
<1>3. CASE \E k \in Keys, changed \in BOOLEAN, level \in Levels : Trigger(k, changed, level)
  BY <1>1, <1>3, TriggerKeeps
<1>4. ASSUME NEW t \in Tasks, NEW k \in Keys, Claim(t, k)
      PROVE  TypeOK' /\ Parts'
  <2>1. Host[t] \in Workers
    BY QueueAssumption DEF QueueAssumption
  <2>2. Taken(Host[t], k) /\ Fresh(Host[t], k)
    BY <1>4, <2>1, ClaimTakes, ClaimMakesTask DEF Claim
  <2> QED
    BY <1>1, <1>4, <2>1, <2>2, TakenKeeps DEF Claim
<1>5. ASSUME NEW w \in Workers, NEW k \in Keys, ClaimLost(w, k)
      PROVE  TypeOK' /\ Parts'
  <2>1. Taken(w, k)
    BY <1>5, ClaimTakes DEF ClaimLost
  <2>2. Fresh(w, k)
    BY <1>5 DEF ClaimLost, procs, Fresh, TypeOK, Busy
  <2> QED
    BY <1>1, <1>5, <2>1, <2>2, TakenKeeps DEF ClaimLost
<1>6. ASSUME NEW t \in Tasks, TaskStep(t), ~MarkRunning(t), ~Defer(t)
      PROVE  TypeOK' /\ Parts'
  BY <1>1, <1>6, BeginKeeps, FinishKeeps, CancelledKeeps, FailDecideKeeps, FailWriteKeeps
     DEF TaskStep, EndRun
<1> QED
  BY <1>2, <1>3, <1>4, <1>5, <1>6 DEF Next, QuietAction

LEMMA StutterKeeps ==
    ASSUME TypeOK, Parts, UNCHANGED vars
    PROVE  TypeOK' /\ Parts'
<1>1. Quiet
  BY SameRows, SameTasks DEF vars, db, procs, Quiet
<1>2. ControlType'
  BY DEF TypeOK, ControlType, vars, db, procs
<1> QED
  BY <1>1, <1>2, QuietKeeps

\* The inductive invariant holds of every reachable state.
THEOREM Inductive == Spec => []IInv
<1>1. Init => TypeOK /\ Parts
  BY InitHolds
<1>2. (TypeOK /\ Parts) /\ [Next]_vars => (TypeOK /\ Parts)'
  BY NextKeeps, StutterKeeps
<1> QED
  BY <1>1, <1>2, IInvParts, PTL DEF Spec

\* Types: whatever statements and handlers interleave, every row and every task keeps
\* the values its columns and fields may have.
THEOREM TypeSafety == Spec => []TypeOK
BY Inductive, PTL DEF IInv

\* A row has an owner exactly while it is in flight.
THEOREM ClaimsOwned == Spec => []OwnedInFlight
BY Inductive, PTL DEF IInv

\* No trigger of a fed stage is lost, but where a worker claimed its own key again.
THEOREM TriggersKept == Spec => []NoTriggerLost
BY Inductive, PTL DEF IInv

\* No forced trigger is answered by a skip, with the same exception.
THEOREM ForceKept == Spec => []NoForceLost
BY Inductive, PTL DEF IInv

\* No row uses more attempts than it may, one for each Resume apart.
THEOREM AttemptsKept == Spec => []AttemptsBounded
<1>1. IInv => AttemptsBounded
  BY DEF IInv, RowsKeepAttempts, AttemptsBounded, Same
<1> QED
  BY <1>1, Inductive, PTL

\* The last success of a key never gives way to one that read older input.
THEOREM ResultsForward == Spec => ResultForward
<1> DEFINE Forward == \A k \in Keys : result'[k] >= result[k]
<1>1. ASSUME TypeOK, Parts, [Next]_vars
      PROVE  Forward
  <2>1. result \in [Keys -> Nat]
    BY <1>1 DEF TypeOK
  <2>2. CASE result' = result
    BY <2>1, <2>2
  <2>3. ASSUME NEW t \in Tasks, NEW changed \in BOOLEAN, NEW waiting \in BOOLEAN,
               NEW requests \in SUBSET Keys, Finish(t, changed, waiting, requests)
        PROVE  Forward
    <3>1. PICK k \in Keys : k = task[t].key
      BY <1>1, <2>3 DEF TypeOK, Finish, Busy
    <3>2. CASE ~Holds(t, k) \/ waiting
      BY <2>2, <2>3, <3>1, <3>2 DEF Finish
    <3>3. CASE Holds(t, k) /\ ~waiting
      <4>1. result' = [result EXCEPT ![k] = task[t].seen]
        BY <2>3, <3>1, <3>3 DEF Finish
      <4>2. result[k] <= task[t].seen /\ task[t].seen \in Nat
        BY <1>1, <3>1, <3>3 DEF TypeOK, Task, Parts, PairInv, Holds, RunsRow, Live
      <4> QED
        BY <2>1, <4>1, <4>2
    <3> QED
      BY <3>2, <3>3
  <2>4. CASE UNCHANGED vars
    BY <2>2, <2>4 DEF vars, db
  <2>5. CASE QuietAction
    BY <1>1, <2>2, <2>5, QuietActions DEF Quiet
  <2>6. ASSUME Next, ~QuietAction,
               ~\E t \in Tasks, changed, waiting \in BOOLEAN, requests \in SUBSET Keys :
                  Finish(t, changed, waiting, requests)
        PROVE  result' = result
    BY <2>6 DEF Next, QuietAction, TaskStep, EndRun, Trigger, Claim, ClaimLost, Begin,
                Cancelled, FailDecide, FailWrite, db
  <2> QED
    BY <1>1, <2>2, <2>3, <2>4, <2>5, <2>6
<1>2. IInv /\ [Next]_vars => Forward
  BY <1>1, IInvParts
<1> QED
  BY <1>2, Inductive, PTL DEF Spec, ResultForward

=============================================================================
