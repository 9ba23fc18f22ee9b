------------------------------ MODULE JobQueue ------------------------------
(***************************************************************************)
(* The durable job queue of the pipeline: one Postgres table               *)
(* (processing_jobs), the worker processes that claim and run its rows,    *)
(* the reaper, the component drain, and the operator's API.                *)
(*                                                                         *)
(* A key is one (subject, stage).  A partial unique index allows one live  *)
(* row per key, so rows[k] is the newest row of k: the live one, or the    *)
(* last one that ended ("none": there never was one).  Older rows are      *)
(* history no statement of the engine updates; the one thing read back     *)
(* from them, the last success, is the variable result.                    *)
(*                                                                         *)
(* Every action is one transaction (or one statement) of the code, or one  *)
(* step of a worker between two of them.  A task keeps what the code keeps *)
(* in memory: the claim-time copy of the row and what the handler read.    *)
(***************************************************************************)
EXTENDS Integers, FiniteSets

CONSTANTS
    Keys,            \* the (subject, stage) pairs
    Workers,         \* worker processes, by the id they write in claimed_by
    Tasks,           \* slots in which the claim loops run a job
    Host,            \* Host[t]: the worker whose process slot t belongs to
    Dependents,      \* Dependents[k]: the keys k's edges lead to (when "changed")
    Always,          \* Always[k]: those of its edges declared when="always"
    Requests,        \* Requests[k]: the keys k's handler may ask for (may_request)
    Debounced,       \* the keys whose stage has debounce_sec > 0
    Cooperative,     \* the keys of cooperativePauseStages
    PoolSize,        \* worker_pools.size of the one (global) pool the keys are in
    MaxAttempts,     \* job_stages.max_attempts
    TransientTries,  \* queue_health.transient_attempts
    PauseGrace,      \* whether pause.grace_sec is set
    None,            \* NULL
    Levels,          \* how hard jobs are asked for: Plain, Forced, Cascade
    MaxTriggers,     \* bound: enqueues asked from outside the engine or by a handler
    MaxFaults,       \* bound: crashes, late heartbeats, lost replies, stopped jobs
    MaxFailures,     \* bound: handler failures and deferrals
    MaxCommands,     \* bound: operator commands on a job
    MaxSwitches      \* bound: stages paused, switched off or held

ASSUME QueueAssumption ==
    /\ Host \in [Tasks -> Workers]
    /\ Dependents \in [Keys -> SUBSET Keys]
    /\ Always \in [Keys -> SUBSET Keys]
    /\ Requests \in [Keys -> SUBSET Keys]
    /\ \A k \in Keys : Always[k] \subseteq Dependents[k] /\ k \notin Dependents[k] \cup Requests[k]
    /\ IsFiniteSet(Keys) /\ IsFiniteSet(Tasks)
    /\ Debounced \subseteq Keys
    /\ Cooperative \subseteq Keys
    /\ PoolSize \in Nat
    /\ MaxAttempts \in Nat \ {0}
    /\ TransientTries \in Nat \ {0}
    /\ PauseGrace \in BOOLEAN
    /\ Levels \subseteq 0 .. 2
    /\ None \notin Workers /\ None \notin Keys
    /\ {MaxTriggers, MaxFaults, MaxFailures, MaxCommands, MaxSwitches}
         \subseteq Nat

VARIABLES
    rows,      \* [Keys -> Row]: the newest row of each key
    result,    \* [Keys -> Nat]: the input its last successful run read (0: none)
    gate,      \* [Keys -> {"on", "off", "held"}]: job_stages.enabled and its reason
    shut,      \* the keys whose stage (or the whole queue) is paused
    task,      \* [Tasks -> Task]: what the claim loops run
    up,        \* the worker processes that run
    away,      \* the workers whose beats the home does not answer
    drain,     \* [Workers -> SUBSET Keys]: the stages a drain waits for
    \* history variables: what was asked for and what was answered
    input,     \* [Keys -> Nat]: versions of the data k's triggers announced
    asked,     \* [Keys -> Nat]: forced triggers of k
    answered,  \* [Keys -> Nat]: the input the last ended job of k stood for
    honoured,  \* [Keys -> Nat]: the forced triggers the ended jobs of k stood for
    missed,    \* the keys whose last trigger made no job (their stage is off)
    used       \* how much of each bound is spent

db    == <<rows, result, gate, shut>>
procs == <<task, up, away, drain>>
hist  == <<input, asked, answered, honoured, missed>>
vars  == <<db, procs, hist, used>>

-----------------------------------------------------------------------------
(* Rows.                                                                   *)

InFlight == {"claimed", "running"}
Live     == {"pending", "paused"} \cup InFlight
Ended    == {"none", "done", "failed", "cancelled"}

\* how hard a job was asked for: force runs it although its inputs did not
\* change, cascade makes its dependents do the same
Plain   == 0
Forced  == 1
Cascade == 2
ForceLevel   == Plain .. Cascade

Row == [id: Nat, state: Live \cup Ended, owner: Workers \cup {None},
        attempts: Nat, max: Nat, pauseReq: BOOLEAN, cancelReq: BOOLEAN,
        later: BOOLEAN,      \* not_before is in the future
        parked: BOOLEAN,     \* parked_on names a dependency
        force: ForceLevel, rerun: BOOLEAN, rerunForce: ForceLevel,
        \* history: the API resumes that made the row pending, and whether a worker
        \* ever claimed a row of the key that one of its own tasks was still running
        resumes: Nat, doubled: BOOLEAN]

Higher(m, n) == IF m >= n THEN m ELSE n

NoRow ==
    [id |-> 0, state |-> "none", owner |-> None, attempts |-> 0,
     max |-> MaxAttempts, pauseReq |-> FALSE, cancelReq |-> FALSE,
     later |-> FALSE, parked |-> FALSE, force |-> Plain, rerun |-> FALSE,
     rerunForce |-> Plain, resumes |-> 0, doubled |-> FALSE]

\* what is kept of a row that ended: nothing of it is read again
EndedRow(r, state) ==
    [NoRow EXCEPT !.id = r.id, !.state = state, !.doubled = r.doubled]

\* a row inserted after r
NewRow(k, r, force) ==
    [NoRow EXCEPT !.id = r.id + 1, !.state = "pending", !.doubled = r.doubled,
                  !.later = (k \in Debounced), !.force = force]

\* What a trigger makes of a live row.  A forced one takes over a row nobody runs,
\* unless it is parked; any other joins a pending row, and asks one that was
\* claimed before (in flight, or paused) for a rerun.
RunsNow(r) == ~r.parked /\ (r.state = "pending" \/ (r.state = "paused" /\ r.later))

TakenOver(r, level) == [r EXCEPT !.force = Higher(@, level), !.later = FALSE]

Coalesced(k, r, level) ==
    [r EXCEPT !.force = Higher(@, level), !.later = IF k \in Debounced THEN TRUE ELSE @]

\* MUTANT of Rerun: a force that arrives mid-run is not kept for the follow-up
RerunUnforced(r, level) == [r EXCEPT !.rerun = TRUE]

Rerun(r, level) == [r EXCEPT !.rerun = TRUE, !.rerunForce = Higher(@, level)]

\* processing_jobs_enqueue on the newest row r of k, its stage being fed:
\* forced is p_force, level the force and force_cascade asked for
Enqueued(k, r, forced, level) ==
    IF r.state \notin Live THEN NewRow(k, r, level)
    ELSE IF forced /\ RunsNow(r) THEN TakenOver(r, level)
    ELSE IF r.state = "pending" THEN Coalesced(k, r, level)
    ELSE Rerun(r, level)

Fed(k) == gate[k] # "off"

\* MUTANT of AfterEnd: the follow-up is forgotten
AfterEndForgets(k, r, state) == EndedRow(r, state)

\* the row of k once its job ended as state: one follow-up when a trigger
\* arrived meanwhile (enqueue_follow_up)
AfterEnd(k, r, state) ==
    IF r.rerun /\ Fed(k)
      THEN NewRow(k, r, r.rerunForce)
      ELSE EndedRow(r, state)

\* the follow-up of a row whose stage went off meanwhile is refused
DropsRerun(k) == rows[k].rerun /\ ~Fed(k)

\* MUTANT of Paused: claimed_by is left behind
PausedOwned(r) == [r EXCEPT !.state = "paused", !.pauseReq = FALSE]

Paused(r) == [r EXCEPT !.state = "paused", !.owner = None, !.pauseReq = FALSE]

-----------------------------------------------------------------------------
(* Tasks.                                                                  *)

Phases == {"idle", "claimed", "started", "skipping", "working", "failing"}

Task == [phase: Phases, key: Keys \cup {None}, id: Nat, force: ForceLevel,
         seen: Nat, seenForce: Nat,
         verdict: {"none", "park", "retry", "fail"}, tries: Nat]

Idle == [phase |-> "idle", key |-> None, id |-> 0, force |-> Plain,
         seen |-> 0, seenForce |-> 0, verdict |-> "none", tries |-> 0]

Busy(t)  == task[t].phase # "idle"
RunsRow(t, k) == Busy(t) /\ task[t].key = k /\ task[t].id = rows[k].id

\* MUTANT of Holds: no claim_owner.guard
HoldsUnguarded(t, k) == RunsRow(t, k) /\ rows[k].state \in InFlight

\* MUTANT of Holds: the guard without the row's id
HoldsByKey(t, k) ==
    Busy(t) /\ task[t].key = k /\ rows[k].state \in InFlight /\ rows[k].owner = Host[t]

\* claim_owner.guard on the row of task t: live, and claimed by t's worker
Holds(t, k) ==
    RunsRow(t, k) /\ rows[k].state \in InFlight /\ rows[k].owner = Host[t]

Spend(what) == used' = [used EXCEPT ![what] = @ + 1]

-----------------------------------------------------------------------------
Init ==
    /\ rows = [k \in Keys |-> NoRow]
    /\ result = [k \in Keys |-> 0]
    /\ gate = [k \in Keys |-> "on"]
    /\ shut = {}
    /\ task = [t \in Tasks |-> Idle]
    /\ up = Workers
    /\ away = {}
    /\ drain = [w \in Workers |-> {}]
    /\ input = [k \in Keys |-> 1]      \* the data found at the start,
    /\ answered = [k \in Keys |-> 1]   \* which nobody asked to process
    /\ asked = [k \in Keys |-> 0]
    /\ honoured = [k \in Keys |-> 0]
    /\ missed = {}
    /\ used = [triggers |-> 0, faults |-> 0, failures |-> 0,
                commands |-> 0, switches |-> 0]

-----------------------------------------------------------------------------
(* Asking for a job.                                                       *)

\* A producer (scanner, watcher, schedule) or the API asks for a job of k:
\* changed when the data it reads is new, level above Plain to run it anyway.
\* A stage that is off is not fed; what it missed is made up by its catch-up.
Trigger(k, changed, level) ==
    /\ used.triggers < MaxTriggers
    /\ changed => level = Plain
    /\ Spend("triggers")
    /\ input' = IF changed THEN [input EXCEPT ![k] = @ + 1] ELSE input
    /\ IF Fed(k)
         THEN /\ rows' = [rows EXCEPT ![k] = Enqueued(k, @, level # Plain, level)]
              /\ asked' = IF level # Plain THEN [asked EXCEPT ![k] = @ + 1] ELSE asked
              /\ missed' = missed \ {k}
         ELSE /\ missed' = IF changed THEN missed \cup {k} ELSE missed
              /\ UNCHANGED <<rows, asked>>
    /\ UNCHANGED <<result, gate, shut, procs, answered, honoured>>

\* not_before comes due: the debounce, a retry's backoff, a park's backstop
Due(k) ==
    /\ rows[k].state \in {"pending", "paused"}
    /\ rows[k].later
    /\ rows' = [rows EXCEPT ![k].later = FALSE]
    /\ UNCHANGED <<result, gate, shut, procs, hist, used>>

\* a watcher's probe answers: the jobs parked on that dependency are released
Release(k) ==
    /\ rows[k].state = "pending"
    /\ rows[k].parked
    /\ rows' = [rows EXCEPT ![k].parked = FALSE, ![k].later = FALSE]
    /\ UNCHANGED <<result, gate, shut, procs, hist, used>>

-----------------------------------------------------------------------------
(* Claiming and running a job.                                             *)

\* MUTANT of Occupied: a claimed job takes no slot before it runs
OccupiedRunning == Cardinality({k \in Keys : rows[k].state = "running"})

Occupied == Cardinality({k \in Keys : rows[k].state \in InFlight})

\* MUTANT of Claimable: only pending rows
ClaimablePending(k) ==
    /\ rows[k].state = "pending"
    /\ ~rows[k].pauseReq /\ ~rows[k].cancelReq /\ ~rows[k].later
    /\ gate[k] = "on" /\ k \notin shut

\* MUTANT of Claimable: a claimed row nobody has started yet may be claimed again
ClaimableClaimed(k) ==
    /\ rows[k].state \in {"pending", "paused", "claimed"}
    /\ ~rows[k].pauseReq /\ ~rows[k].cancelReq /\ ~rows[k].later
    /\ gate[k] = "on" /\ k \notin shut

Claimable(k) ==
    /\ rows[k].state \in {"pending", "paused"}
    /\ ~rows[k].pauseReq
    /\ ~rows[k].cancelReq
    /\ ~rows[k].later
    /\ gate[k] = "on"
    /\ k \notin shut

\* MUTANT of ClaimedAttempts: every claim is an attempt
ClaimedAttemptsAlways(r) == r.attempts + 1

ClaimedAttempts(r) == r.attempts + (IF r.state = "paused" THEN 0 ELSE 1)

\* CHECK (attempts >= 0 AND attempts <= max_attempts + 1): the table refuses
\* the claim of a row past it
AttemptsCheck(r, attempts) == attempts <= r.max + 1

\* doubled: w claims it while a task of its own still runs it
ClaimedRow(r, w, doubled) ==
    [r EXCEPT !.state = "claimed", !.owner = w, !.parked = FALSE,
              !.attempts = ClaimedAttempts(r), !.doubled = r.doubled \/ doubled]

ClaimRow(w, k) ==
    /\ w \in up \ away
    /\ Claimable(k)
    /\ Occupied < PoolSize
    /\ AttemptsCheck(rows[k], ClaimedAttempts(rows[k]))
    /\ rows' = [rows EXCEPT ![k] =
         ClaimedRow(@, w, \E s \in Tasks : Host[s] = w /\ RunsRow(s, k))]

\* claim_for_pool, then the task the claim loop makes for the job it returned.
\* Until its handler starts, the task stands for what was asked up to its claim.
Claim(t, k) ==
    /\ ~Busy(t)
    /\ ClaimRow(Host[t], k)
    /\ task' = [task EXCEPT ![t] =
         [Idle EXCEPT !.phase = "claimed", !.key = k, !.id = rows[k].id,
                      !.force = rows[k].force, !.seen = input[k], !.seenForce = asked[k]]]
    /\ UNCHANGED <<result, gate, shut, up, away, drain, hist, used>>

\* the claim commits but its reply is lost: a claimed row no task runs
ClaimLost(w, k) ==
    /\ used.faults < MaxFaults
    /\ ClaimRow(w, k)
    /\ Spend("faults")
    /\ UNCHANGED <<result, gate, shut, procs, hist>>

SetTask(t, new) == task' = [task EXCEPT ![t] = new]

\* _mark_running: by the row's id and state, whoever holds its claim now
MarkRunning(t) ==
    /\ task[t].phase = "claimed"
    /\ LET k == task[t].key IN
         IF RunsRow(t, k) /\ rows[k].state = "claimed"
           THEN /\ rows' = [rows EXCEPT ![k].state = "running"]
                /\ SetTask(t, [task[t] EXCEPT !.phase = "started"])
           ELSE /\ SetTask(t, Idle)
                /\ UNCHANGED rows
    /\ UNCHANGED <<result, gate, shut, up, away, drain, hist, used>>

\* The input fingerprint is read.  A job nobody forced whose last success read
\* the same input ends as skipped; a stage without a fingerprint always runs.
Begin(t) ==
    /\ task[t].phase = "started"
    /\ LET k == task[t].key
           read == [task[t] EXCEPT !.seen = input[k]]
       IN \/ SetTask(t, [read EXCEPT !.phase = "working", !.seenForce = asked[k]])
          \/ /\ task[t].force = Plain
             /\ result[k] = input[k]
             /\ SetTask(t, [read EXCEPT !.phase = "skipping"])
    /\ UNCHANGED <<db, up, away, drain, hist, used>>

-----------------------------------------------------------------------------
(* How a run ends.  Each ending is one transaction that applies only while  *)
(* the worker still holds the claim; the task is gone either way.           *)

\* finalize_success: done, the dependents, what the handler requests, and the
\* follow-up.  changed: the output differs from the last success; waiting: the run
\* waits for review or inputs.
Finish(t, changed, waiting, requests) ==
    LET k     == task[t].key
        ran   == task[t].phase = "working"
        edges == IF waiting THEN {} ELSE IF changed THEN Dependents[k] ELSE Always[k]
        level == IF task[t].force = Cascade THEN Cascade ELSE Plain
        fired == {x \in edges \cup requests : Fed(x)}
        forced == IF level = Cascade THEN edges \cap fired ELSE {}
        news  == requests \cup (IF changed THEN Dependents[k] ELSE {})
    IN
    /\ task[t].phase \in {"skipping", "working"}
    /\ changed => ran /\ ~waiting
    /\ waiting => ran
    /\ ran /\ ~waiting /\ (task[t].force = Cascade \/ result[k] = 0) => changed
    /\ requests \subseteq (IF ran THEN Requests[k] ELSE {})
    /\ IF requests = {} THEN UNCHANGED used
                       ELSE used.triggers < MaxTriggers /\ Spend("triggers")
    /\ SetTask(t, Idle)
    /\ IF Holds(t, k)
         THEN /\ rows' = [x \in Keys |->
                    IF x = k THEN AfterEnd(k, rows[k], "done")
                    ELSE IF x \in fired
                      THEN Enqueued(x, rows[x], FALSE, IF x \in forced THEN level ELSE Plain)
                    ELSE rows[x]]
              /\ result' = IF waiting THEN result ELSE [result EXCEPT ![k] = task[t].seen]
              /\ input' = [x \in Keys |-> IF x \in news THEN input[x] + 1 ELSE input[x]]
              /\ asked' = [x \in Keys |-> IF x \in forced THEN asked[x] + 1 ELSE asked[x]]
              /\ answered' = [answered EXCEPT ![k] = task[t].seen]
              /\ honoured' = [honoured EXCEPT ![k] =
                    IF DropsRerun(k) THEN asked[k] ELSE IF ran THEN task[t].seenForce ELSE @]
              /\ missed' = ((missed \ fired) \cup (news \ fired))
                    \cup (IF DropsRerun(k) THEN {k} ELSE {})
         ELSE UNCHANGED <<rows, result, hist>>
    /\ UNCHANGED <<gate, shut, up, away, drain>>

\* the history of a key whose row ends without a result: it stood for the
\* input and the forced triggers given
WrittenOff(k, seen, forced) ==
    /\ answered' = [answered EXCEPT ![k] = seen]
    /\ honoured' = [honoured EXCEPT ![k] = IF DropsRerun(k) THEN asked[k] ELSE forced]
    /\ missed' = IF DropsRerun(k) THEN missed \cup {k} ELSE missed
    /\ UNCHANGED <<input, asked>>

\* a handler at a checkpoint sees cancel_requested on its row: JobCancelled, then
\* mark_cancelled, which leaves alone a row another worker claimed.  The cancel
\* is for all the row stands for; only a rerun outlives it.
Cancelled(t) ==
    LET k == task[t].key IN
    /\ task[t].phase = "working"
    /\ RunsRow(t, k)
    /\ rows[k].state \in Live
    /\ rows[k].cancelReq
    /\ SetTask(t, Idle)
    /\ IF rows[k].owner \in {None, Host[t]}
         THEN /\ rows' = [rows EXCEPT ![k] = AfterEnd(k, @, "cancelled")]
              /\ WrittenOff(k, input[k], asked[k])
         ELSE UNCHANGED <<rows, hist>>
    /\ UNCHANGED <<result, gate, shut, up, away, drain, used>>

\* JobDeferred: the handler, or its fingerprint, gives the job back for later
Defer(t) ==
    LET k == task[t].key IN
    /\ used.failures < MaxFailures
    /\ task[t].phase \in {"started", "working"}
    /\ Spend("failures")
    /\ SetTask(t, Idle)
    /\ rows' = IF Holds(t, k)
                 THEN [rows EXCEPT ![k] = [@ EXCEPT !.state = "paused", !.owner = None,
                                                    !.later = TRUE]]
                 ELSE rows
    /\ UNCHANGED <<result, gate, shut, up, away, drain, hist>>

\* budget: how many tries a failure of the class gets
Budget(class, r) ==
    IF class = "transient" /\ r.max > 1 THEN Higher(r.max, TransientTries) ELSE r.max

\* MUTANT of Verdict: one retry too many
VerdictLate(class, r) ==
    IF class = "parking" THEN "park"
    ELSE IF class # "permanent" /\ r.attempts <= Budget(class, r) THEN "retry"
    ELSE "fail"

\* decide: a failure whose dependency does not answer its probe parks
Verdict(class, r) ==
    IF class = "parking" THEN "park"
    ELSE IF class # "permanent" /\ r.attempts < Budget(class, r) THEN "retry"
    ELSE "fail"

\* The job fails (its context cannot be built, its fingerprint or its handler
\* raises): the row is read and the failure's class decides, maybe after a probe.
FailDecide(t, class) ==
    LET k == task[t].key IN
    /\ used.failures < MaxFailures
    /\ task[t].phase \in {"claimed", "started", "working"}
    /\ Spend("failures")
    /\ SetTask(t, IF RunsRow(t, k) /\ rows[k].state \in Live
                    THEN [task[t] EXCEPT !.phase = "failing",
                                         !.verdict = Verdict(class, rows[k]),
                                         !.tries = Budget(class, rows[k])]
                    ELSE Idle)
    /\ UNCHANGED <<db, up, away, drain, hist>>

\* MUTANT of Again: the force that arrived mid-run is dropped
AgainUnforced(r) ==
    [r EXCEPT !.state = "pending", !.owner = None, !.later = TRUE, !.rerun = FALSE,
              !.rerunForce = Plain]

\* on_failure for a row that will run again: the retry is the follow-up, and
\* takes over a force that arrived mid-run
Again(r) ==
    [r EXCEPT !.state = "pending", !.owner = None, !.later = TRUE, !.rerun = FALSE,
              !.force = Higher(@, r.rerunForce), !.rerunForce = Plain]

\* MUTANT of Refunded: GREATEST(attempts - 1, 0) without its floor
RefundedBelow(r) == r.attempts - 1

\* _fail_park_engine: a park is not an attempt
Refunded(r) == IF r.attempts > 0 THEN r.attempts - 1 ELSE 0

\* ... then the row is written (_FAIL_ENGINE and on_failure)
FailWrite(t) ==
    LET k == task[t].key
        r == rows[k]
    IN
    /\ task[t].phase = "failing"
    /\ SetTask(t, Idle)
    /\ \/ /\ ~Holds(t, k)
          /\ UNCHANGED <<rows, hist>>
       \/ /\ Holds(t, k) /\ task[t].verdict = "park"
          /\ rows' = [rows EXCEPT ![k] =
               [Again(r) EXCEPT !.parked = TRUE, !.attempts = Refunded(r)]]
          /\ UNCHANGED hist
       \/ /\ Holds(t, k) /\ task[t].verdict = "retry"
          /\ rows' = [rows EXCEPT ![k] = [Again(r) EXCEPT !.max = task[t].tries]]
          /\ UNCHANGED hist
       \/ /\ Holds(t, k) /\ task[t].verdict = "fail"
          /\ rows' = [rows EXCEPT ![k] = AfterEnd(k, r, "failed")]
          /\ WrittenOff(k, task[t].seen, task[t].seenForce)
    /\ UNCHANGED <<result, gate, shut, up, away, drain, used>>

-----------------------------------------------------------------------------
(* Workers that stop, and what becomes of their claims.                    *)

Interrupted(w) == task' = [t \in Tasks |-> IF Host[t] = w THEN Idle ELSE task[t]]

\* a worker process dies; its successor has a worker id of its own
Crash(w) ==
    /\ used.faults < MaxFaults
    /\ w \in up
    /\ Spend("faults")
    /\ up' = up \ {w}
    /\ away' = away \ {w}
    /\ drain' = [drain EXCEPT ![w] = {}]
    /\ Interrupted(w)
    /\ UNCHANGED <<db, hist>>

\* the home stops answering a node's beats: it claims nothing more
LoseHome(w) ==
    /\ used.faults < MaxFaults
    /\ w \in up \ away
    /\ Spend("faults")
    /\ away' = away \cup {w}
    /\ UNCHANGED <<db, task, up, drain, hist>>

\* check_lease: the outage nears the claim lease, so the node cancels its jobs in
\* flight, which write nothing
StopInFlight(w) ==
    /\ w \in away
    /\ \E t \in Tasks : Host[t] = w /\ Busy(t)
    /\ Interrupted(w)
    /\ UNCHANGED <<db, up, away, drain, hist, used>>

HeldBy(w) == {k \in Keys : rows[k].state \in InFlight /\ rows[k].owner = w}

PauseAll(S) == rows' = [k \in Keys |-> IF k \in S THEN Paused(rows[k]) ELSE rows[k]]

\* _home_back: with nothing in flight, what the node still holds is left over and
\* released.  A claim whose task is not made yet is not in flight either.
HomeBack(w) ==
    /\ w \in away
    /\ away' = away \ {w}
    /\ \/ /\ \A t \in Tasks : Host[t] = w => task[t].phase \in {"idle", "claimed"}
          /\ PauseAll(HeldBy(w))
       \/ /\ \E t \in Tasks : Host[t] = w /\ Busy(t)
          /\ UNCHANGED rows
    /\ UNCHANGED <<result, gate, shut, task, up, drain, hist, used>>

\* a task of the row's owner sends the row's heartbeats
Beating(k) == \E t \in Tasks : Holds(t, k)

\* reap_once: no heartbeat for stale_claim_sec.  While a task beats it takes a
\* fault (a blocked process, a lost connection) to be that late.
Reap(k) ==
    /\ rows[k].state \in InFlight
    /\ \/ /\ ~Beating(k)
          /\ UNCHANGED used
       \/ /\ Beating(k)
          /\ used.faults < MaxFaults
          /\ Spend("faults")
    /\ PauseAll({k})
    /\ UNCHANGED <<result, gate, shut, procs, hist>>

-----------------------------------------------------------------------------
(* The operator's API and the components.                                  *)

Command(k, new) ==
    /\ used.commands < MaxCommands
    /\ Spend("commands")
    /\ rows' = [rows EXCEPT ![k] = new]
    /\ UNCHANGED <<result, gate, shut, procs, hist>>

Pause(k) ==
    /\ rows[k].state \in {"running", "pending"}
    /\ Command(k, [rows[k] EXCEPT !.pauseReq = TRUE])

\* ?force=true: with a grace set, only after the pause was asked for
ForcePause(k) ==
    /\ rows[k].state \in {"running", "pending"}
    /\ PauseGrace => rows[k].pauseReq
    /\ Command(k, Paused(rows[k]))

Resume(k) ==
    /\ rows[k].state = "paused"
    /\ Command(k, [rows[k] EXCEPT !.state = "pending", !.pauseReq = FALSE,
                                  !.later = FALSE, !.resumes = @ + 1])

Cancel(k) ==
    /\ rows[k].state \in Live
    /\ Command(k, [rows[k] EXCEPT !.cancelReq = TRUE])

\* pausing a stage stops its claims; interrupt asks the running jobs of a
\* cooperative stage to pause
PauseStage(k, interrupt) ==
    /\ used.switches < MaxSwitches
    /\ k \notin shut
    /\ Spend("switches")
    /\ shut' = shut \cup {k}
    /\ rows' = IF interrupt /\ k \in Cooperative /\ rows[k].state \in InFlight
                 THEN [rows EXCEPT ![k].pauseReq = TRUE] ELSE rows
    /\ UNCHANGED <<result, gate, procs, hist>>

ResumeStage(k) ==
    /\ k \in shut
    /\ shut' = shut \ {k}
    /\ rows' = IF k \in Cooperative /\ rows[k].state \in Live
                 THEN [rows EXCEPT ![k].pauseReq = FALSE] ELSE rows
    /\ UNCHANGED <<result, gate, procs, hist, used>>

\* a component switches its stage off, holds it, or takes it up again
SwitchStage(k, state) ==
    /\ gate[k] # state
    /\ \/ /\ state = "on"
          /\ UNCHANGED used
       \/ /\ state # "on"
          /\ used.switches < MaxSwitches
          /\ Spend("switches")
    /\ gate' = [gate EXCEPT ![k] = state]
    /\ UNCHANGED <<rows, result, shut, procs, hist>>

\* drain_stages, on the worker w of a component that stopped: ask the jobs of the
\* stages S that w holds to pause ...
DrainAsk(w, S) ==
    /\ w \in up
    /\ drain[w] = {}
    /\ \A k \in S : gate[k] # "on"
    /\ HeldBy(w) \cap S # {}
    /\ rows' = [k \in Keys |-> IF k \in HeldBy(w) \cap S
                                 THEN [rows[k] EXCEPT !.pauseReq = TRUE] ELSE rows[k]]
    /\ drain' = [drain EXCEPT ![w] = S]
    /\ UNCHANGED <<result, gate, shut, task, up, away, hist, used>>

\* ... until none of them is left,
DrainClean(w) ==
    /\ drain[w] # {}
    /\ HeldBy(w) \cap drain[w] = {}
    /\ drain' = [drain EXCEPT ![w] = {}]
    /\ UNCHANGED <<db, task, up, away, hist, used>>

\* ... or, the component on again, take the flag back from those still there,
DrainUnask(w) ==
    /\ drain[w] # {}
    /\ \E k \in drain[w] : gate[k] = "on"
    /\ rows' = [k \in Keys |-> IF k \in HeldBy(w) \cap drain[w]
                                 THEN [rows[k] EXCEPT !.pauseReq = FALSE] ELSE rows[k]]
    /\ drain' = [drain EXCEPT ![w] = {}]
    /\ UNCHANGED <<result, gate, shut, task, up, away, hist, used>>

\* ... or, the grace over, pause them and cancel their tasks (stop_stages).
DrainForce(w) ==
    /\ HeldBy(w) \cap drain[w] # {}
    /\ PauseAll(HeldBy(w) \cap drain[w])
    /\ task' = [t \in Tasks |->
         IF Host[t] = w /\ task[t].key \in drain[w] THEN Idle ELSE task[t]]
    /\ drain' = [drain EXCEPT ![w] = {}]
    /\ UNCHANGED <<result, gate, shut, up, away, hist, used>>

-----------------------------------------------------------------------------
(* An operator reads a failed job and asks for it again: a new, forced job  *)
(* (Retry) is Trigger(k, FALSE, Forced).                                    *)

EndRun(t) ==
    \/ \E changed, waiting \in BOOLEAN, requests \in SUBSET Keys :
         Finish(t, changed, waiting, requests)
    \/ Cancelled(t)
    \/ Defer(t)
    \/ \E class \in {"parking", "transient", "unknown", "permanent"} : FailDecide(t, class)

TaskStep(t) == MarkRunning(t) \/ Begin(t) \/ EndRun(t) \/ FailWrite(t)

WorkerFails(w) == Crash(w) \/ LoseHome(w) \/ StopInFlight(w) \/ HomeBack(w)

Operate(k) ==
    \/ Pause(k) \/ ForcePause(k) \/ Resume(k) \/ Cancel(k)
    \/ \E interrupt \in BOOLEAN : PauseStage(k, interrupt)
    \/ ResumeStage(k)

Drain(w) ==
    \/ \E S \in SUBSET Keys : DrainAsk(w, S)
    \/ DrainClean(w) \/ DrainUnask(w) \/ DrainForce(w)

Next ==
    \/ \E k \in Keys, changed \in BOOLEAN, level \in Levels : Trigger(k, changed, level)
    \/ \E k \in Keys : Due(k) \/ Release(k) \/ Reap(k) \/ Operate(k)
    \/ \E k \in Keys, state \in {"on", "off", "held"} : SwitchStage(k, state)
    \/ \E t \in Tasks, k \in Keys : Claim(t, k)
    \/ \E w \in Workers, k \in Keys : ClaimLost(w, k)
    \/ \E t \in Tasks : TaskStep(t)
    \/ \E w \in Workers : WorkerFails(w) \/ Drain(w)

Spec == Init /\ [][Next]_vars

-----------------------------------------------------------------------------
(* Safety.                                                                  *)

\* Every variable keeps its type: no update writes a state, a flag or a claim
\* the table, or the worker's memory, does not have.
TypeOK ==
    /\ rows \in [Keys -> Row]
    /\ result \in [Keys -> Nat]
    /\ gate \in [Keys -> {"on", "off", "held"}]
    /\ shut \subseteq Keys
    /\ task \in [Tasks -> Task]
    /\ \A t \in Tasks : Busy(t) => task[t].key \in Keys
    /\ up \subseteq Workers
    /\ away \subseteq up
    /\ drain \in [Workers -> SUBSET Keys]
    /\ {input, asked, answered, honoured} \subseteq [Keys -> Nat]
    /\ missed \subseteq Keys
    /\ used \in [{"triggers", "faults", "failures", "commands", "switches"} -> Nat]

\* A claim names its worker for exactly as long as it is in flight, whichever
\* of the dozen statements ends it (claimed_by in every statement of
\* jobs_state.py, jobs_reaper.py, shutdown.py and jobs.go).
OwnedInFlight ==
    \A k \in Keys : (rows[k].state \in InFlight) <=> (rows[k].owner # None)

\* No trigger is lost (plan-06-11 D6): once a key has no live row, the job that
\* ended last read the newest input anybody announced, or was failed or cancelled
\* when that input was already asked for.  The exceptions are a stage that is off
\* (its catch-up makes the job) and a row its worker claimed again while an
\* older task of its own still ran it.
NoTriggerLost ==
    \A k \in Keys :
        rows[k].state \in Ended =>
            answered[k] = input[k] \/ k \in missed \/ rows[k].doubled

\* No forced trigger is answered by a skip: the run that ends the key's last row
\* ran its handler after the last forced trigger, through coalescing, takeover,
\* follow-up and retry.  Same exception.
NoForceLost ==
    \A k \in Keys :
        rows[k].state \in Ended => honoured[k] = asked[k] \/ rows[k].doubled

\* A row never uses more attempts than its max_attempts, save one for each time
\* the API's Resume made a paused row pending.  (A verdict read before such a
\* double claim may still lower max_attempts after it.)
AttemptsBounded ==
    \A k \in Keys :
        rows[k].attempts <= rows[k].max + rows[k].resumes \/ rows[k].doubled

\* No result goes back in time: whichever endings arrive late, the success a skip
\* compares with never reads an older input than the one before (last_success takes
\* the newest done row that is not this one).
ResultForward == [][\A k \in Keys : result'[k] >= result[k]]_vars

\* A global pool never runs more jobs than its size (plan-06-11 section 13): never
\* more rows in flight, whatever fails; nor more handlers, counted in tasks, as long as
\* nothing fails and no operator forces a pause (a task whose row was taken away runs on).
PoolRuns ==
    /\ Cardinality({k \in Keys : rows[k].state \in InFlight}) <= PoolSize
    /\ used.faults = 0 /\ used.commands = 0
         => Cardinality({t \in Tasks : Busy(t)}) <= PoolSize

\* The claims are loans of the pool's slots (SlotPool): through crashes, reaps, late
\* endings and drains a claim is given up before another worker gets it.
Pool == INSTANCE SlotPool WITH
    Jobs <- Keys, Size <- PoolSize, owner <- [k \in Keys |-> rows[k].owner]
SlotsLent == Pool!Spec

-----------------------------------------------------------------------------
(* The inductive invariant behind the safety properties: what a live row    *)
(* still owes its triggers, and what the task that holds it will settle.    *)

Same(k) == rows[k].doubled   \* k is beyond what the claim guard can tell apart

\* a forced trigger that no ended job stood for is still written on the live row
ForceOwed(k) == rows[k].rerun /\ rows[k].rerunForce # Plain

RowsKeepForce ==
    \A k \in Keys :
        rows[k].state \in Live =>
            honoured[k] = asked[k] \/ rows[k].force # Plain \/ ForceOwed(k) \/ Same(k)

\* what a live row has left of its attempts, and a pending one in particular
RowsKeepAttempts ==
    \A k \in Keys :
        /\ rows[k].max > 0
        /\ Same(k) \/ rows[k].attempts <= rows[k].max + rows[k].resumes
        /\ rows[k].state = "pending" =>
             Same(k) \/ rows[k].attempts < rows[k].max + rows[k].resumes

\* the task that holds a row stands for all its triggers but those of its rerun,
\* and decided its failure on the row as it still is
HoldersSettle ==
    \A t \in Tasks, k \in Keys :
        Holds(t, k) =>
            \/ Same(k)
            \/ /\ rows[k].rerun \/ task[t].seen = input[k] \/ k \in missed
               /\ task[t].force = rows[k].force
               /\ ForceOwed(k) \/ task[t].seenForce = asked[k]
               /\ task[t].phase = "failing" /\ task[t].verdict = "retry"
                    => rows[k].attempts < task[t].tries

SoleHolder ==
    \A s, t \in Tasks, k \in Keys : Holds(s, k) /\ Holds(t, k) => s = t \/ Same(k)

TasksKeep ==
    \A t \in Tasks :
        /\ task[t].phase = "skipping" => task[t].force = Plain
        /\ task[t].phase = "failing" => task[t].tries > 0

\* no task is ahead of its key's row or input, nor behind the key's result while
\* the row lives
TasksForward ==
    /\ \A k \in Keys : result[k] <= input[k]
    /\ \A t \in Tasks, k \in Keys :
         Busy(t) /\ task[t].key = k =>
             /\ task[t].id <= rows[k].id
             /\ task[t].seen <= input[k]
             /\ task[t].id = rows[k].id /\ rows[k].state \in Live => result[k] <= task[t].seen

IInv ==
    /\ TypeOK
    /\ OwnedInFlight
    /\ NoTriggerLost
    /\ NoForceLost
    /\ RowsKeepForce
    /\ RowsKeepAttempts
    /\ HoldersSettle
    /\ SoleHolder
    /\ TasksKeep
    /\ TasksForward

-----------------------------------------------------------------------------
(* Liveness.  Time passes (Due), the reaper ticks, the home answers again,  *)
(* handlers return, and the fair share offers a row that is claimable again *)
(* and again to a free slot of some worker that is up.  Nobody has to       *)
(* answer a probe (a park has a backstop), and no operator has to act.      *)

Fairness ==
    /\ \A k \in Keys :
         /\ WF_vars(Due(k))
         /\ WF_vars(~Beating(k) /\ Reap(k))
         /\ SF_vars(\E t \in Tasks : Claim(t, k))
    /\ \A t \in Tasks : WF_vars(TaskStep(t))
    /\ \A w \in Workers : WF_vars(HomeBack(w)) /\ WF_vars(Drain(w))

FairSpec == Spec /\ Fairness

\* what keeps a live row from being claimed until somebody acts
Withheld(k) ==
    rows[k].pauseReq \/ rows[k].cancelReq \/ gate[k] # "on" \/ k \in shut

\* Every job ends: through crashes, reaps, retries, parks and follow-ups, a live
\* row that nobody withholds reaches an end, as long as a worker is up.
Settles ==
    \A k \in Keys :
        rows[k].state \in Live ~> rows[k].state \in Ended \/ Withheld(k) \/ up = {}

=============================================================================
