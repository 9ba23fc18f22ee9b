------------------------------ MODULE RelayTunnels ------------------------------
(* One home, the relay processes it may reach, and a request for it (cloud/    *)
(* internal/relay/registry.go, drain.go, directory.go and ws.go; the relay's   *)
(* handlers; the home's cloudlink/health.go).  The home holds one tunnel to    *)
(* one relay.  A relay that shuts down asks it to move (DRAIN): the home opens *)
(* a new tunnel elsewhere while the old one finishes what it carries.  Each    *)
(* relay knows its own tunnels, a directory in the database says which relay   *)
(* has the home, and the server's row says whether it is online.               *)
(*                                                                             *)
(* A tunnel is its seq, the time it was made: the clocks of the relays are     *)
(* taken to agree to within the time of a reconnect.  0 is no tunnel.          *)
EXTENDS Naturals

CONSTANTS
    Relays,         \* relay processes
    MaxTunnels,     \* bound: tunnels made
    MaxFaults,      \* bound: crashes, breaks, failed writes, silences
    MaxMoves        \* bound: shutdowns

ASSUME Bounds == MaxTunnels \in Nat \ {0} /\ MaxFaults \in Nat /\ MaxMoves \in Nat

VARIABLES
    tun,        \* the tunnels: their relay, how far Up or Down is, both ends
    conns,      \* Registry.conns: the tunnel that new requests take
    row,        \* relay_tunnels: the directory's row
    cache,      \* PGDirectory.cache: at most one answer (0: on no other relay)
    proc,       \* the relay processes
    todo,       \* Shutdown: the open tunnels it has not drained yet
    beats,      \* relay_nodes: heard of within NodeDeadAfter
    online,     \* server_health.online
    home,       \* the Supervisor: its tunnel, the drained ones, DRAIN read
    modern,     \* the home announced FeatureDrain
    q,          \* one request
    calm,       \* nothing broke, and no deadline of a move passed
    missed,     \* a write to the database failed, or died with its process
    faults, moves

vars == <<tun, conns, row, cache, proc, todo, beats, online, home, modern, q, calm, missed,
          faults, moves>>

routing == <<conns, row, cache, online>>
relay   == <<proc, todo, beats>>
ghosts  == <<calm, missed, faults, moves>>

--------------------------------------------------------------------------------

Tunnel == 1..MaxTunnels

\* ServeHTTP and Registry.Up, then the goroutine that waits for Done
Stages == {"none", "made", "marked", "listed", "up", "unlisted", "left", "gone"}

Tunnels == [relay : Relays, stage : Stages, open : BOOLEAN, hopen : BOOLEAN,
            drain : {"no", "asked", "idle"}]

Carried == {"sent", "handled", "body"}

Ended == {"done", "failed", "cut", "empty", "refused"}

Requests == [pc : {"idle", "route", "look", "serve", "hold"} \cup Carried \cup Ended,
             at : Relays, from : Relays, tun : 0..MaxTunnels,
             retried : BOOLEAN, get : BOOLEAN]

TypeOK ==
    /\ tun \in [Tunnel -> Tunnels]
    /\ conns \in [Relays -> 0..MaxTunnels]
    /\ row \in 0..MaxTunnels
    /\ cache \in [Relays -> SUBSET (0..MaxTunnels)]
    /\ proc \in [Relays -> {"running", "closing", "down"}]
    /\ todo \in [Relays -> SUBSET Tunnel]
    /\ beats \in [Relays -> BOOLEAN]
    /\ online \in BOOLEAN /\ modern \in BOOLEAN
    /\ home \in [cur : 0..MaxTunnels, old : SUBSET Tunnel, moving : BOOLEAN]
    /\ q \in Requests
    /\ calm \in BOOLEAN /\ missed \in BOOLEAN
    /\ faults \in 0..MaxFaults /\ moves \in 0..MaxMoves

\* The home's first tunnel is up.
Init ==
    \E r \in Relays :
        /\ tun = [t \in Tunnel |-> [relay |-> r, stage |-> IF t = 1 THEN "up" ELSE "none",
                                    open |-> t = 1, hopen |-> t = 1, drain |-> "no"]]
        /\ conns = [p \in Relays |-> IF p = r THEN 1 ELSE 0]
        /\ row = 1 /\ online = TRUE
        /\ cache = [p \in Relays |-> {}]
        /\ proc = [p \in Relays |-> "running"]
        /\ todo = [p \in Relays |-> {}]
        /\ beats = [p \in Relays |-> TRUE]
        /\ home = [cur |-> 1, old |-> {}, moving |-> FALSE]
        /\ modern \in BOOLEAN
        /\ q = [pc |-> "idle", at |-> r, from |-> r, tun |-> 0, retried |-> FALSE, get |-> FALSE]
        /\ calm = TRUE /\ missed = FALSE /\ faults = 0 /\ moves = 0

--------------------------------------------------------------------------------

Up(r) == proc[r] # "down"

Draining(t) == tun[t].drain # "no"

Installed(t) == tun[t].stage \in {"up", "unlisted", "left"}

\* Registry.lockSlug: Up and Down of the slug run one at a time
Unlocked(r) ==
    \A t \in Tunnel : tun[t].relay = r => tun[t].stage \notin {"marked", "listed", "left"}

\* Tunnel.Busy
Busy(t) == q.pc \in Carried /\ q.tun = t

\* Multiplexer.Active
Active(t) == q.pc \in {"handled", "body"} /\ q.tun = t

Fault == faults < MaxFaults /\ faults' = faults + 1

\* A write to the database goes through or, best effort, is only logged.
Wrote == UNCHANGED <<missed, faults>>
NotWritten == Fault /\ missed' = TRUE

--------------------------------------------------------------------------------
(* The home: its tunnels.                                                      *)

Made == {t \in Tunnel : tun[t].stage # "none"}

\* tunnelSeq: the next one
Coming == {t \in Tunnel \ Made : \A u \in Tunnel \ Made : t =< u}

\* The relay greets the home (AUTH_OK) and makes the tunnel; kept: the home
\* got the greeting and still wants the tunnel.
NewTunnel(r, t, kept) ==
    /\ home.cur = 0 \/ home.moving
    /\ proc[r] = "running"
    /\ tun' = [tun EXCEPT ![t] = [relay |-> r, stage |-> "made", open |-> TRUE,
                                  hopen |-> kept, drain |-> "no"]]
    /\ UNCHANGED <<routing, relay, modern, q, missed, moves>>

\* MUTANT of Dial: there is always one to finish
DialAlways(r) ==
    \E t \in Coming :
        /\ NewTunnel(r, t, TRUE)
        /\ home' = [cur |-> t, old |-> home.old \cup {home.cur}, moving |-> FALSE]
        /\ UNCHANGED <<calm, faults>>

\* Supervisor.Run with no tunnel, or move: the drained one is left to finish
Dial(r) ==
    \E t \in Coming :
        /\ NewTunnel(r, t, TRUE)
        /\ home' = [cur |-> t, old |-> home.old \cup ({home.cur} \ {0}), moving |-> FALSE]
        /\ UNCHANGED <<calm, faults>>

\* the greeting is lost, or the drained tunnel ended while the home dialled
DialLost(r) ==
    /\ \E t \in Coming : NewTunnel(r, t, FALSE)
    /\ Fault /\ calm' = FALSE
    /\ UNCHANGED home

\* serveTunnel: DRAIN; a home of before it is never sent one
HearDrain ==
    /\ modern /\ home.cur # 0 /\ ~home.moving
    /\ Draining(home.cur) /\ tun[home.cur].hopen
    /\ home' = [home EXCEPT !.moving = TRUE]
    /\ UNCHANGED <<tun, routing, relay, modern, q, ghosts>>

HomeLets(t) ==
    /\ tun' = [tun EXCEPT ![t].hopen = FALSE]
    /\ home' = IF t = home.cur THEN [home EXCEPT !.cur = 0, !.moving = FALSE]
                               ELSE [home EXCEPT !.old = @ \ {t}]

\* the home's read loop meets the end of the tunnel
HomeSees(t) ==
    /\ tun[t].hopen /\ ~tun[t].open
    /\ HomeLets(t)
    /\ UNCHANGED <<routing, relay, modern, q, ghosts>>

\* MUTANT of FinishDrained: closed as soon as the new tunnel is up
FinishDrainedAtOnce(t) ==
    /\ t \in home.old /\ tun[t].hopen
    /\ HomeLets(t)
    /\ UNCHANGED <<routing, relay, modern, q, ghosts>>

\* finishDrained: nothing to do, for drainQuiet (which a request under way may
\* exceed: nothing here relies on it)
FinishDrained(t) ==
    /\ t \in home.old /\ tun[t].hopen /\ ~Active(t)
    /\ HomeLets(t)
    /\ UNCHANGED <<routing, relay, modern, q, ghosts>>

\* finishDrained: deadline_ms
HomeDeadline(t) ==
    /\ t \in home.old /\ tun[t].hopen
    /\ HomeLets(t) /\ calm' = FALSE
    /\ UNCHANGED <<routing, relay, modern, q, missed, faults, moves>>

--------------------------------------------------------------------------------
(* A relay: Registry.Up and Down around the writes of the database.            *)

Stage(t, s) == tun' = [tun EXCEPT ![t].stage = s]

Closed(t) == [tun EXCEPT ![t].open = FALSE]

\* Registry.Up: a stale attempt is dropped; a new one puts the server online
Stale(t) ==
    /\ tun[t].stage = "made" /\ Up(tun[t].relay) /\ Unlocked(tun[t].relay)
    /\ ~tun[t].open \/ conns[tun[t].relay] > t
    /\ tun' = [tun EXCEPT ![t].open = FALSE, ![t].stage = "gone"]
    /\ UNCHANGED <<routing, relay, home, modern, q, ghosts>>

\* MUTANT of Enter: whichever attempt comes, installs
EnterStale(t) ==
    /\ tun[t].stage = "made" /\ Up(tun[t].relay) /\ Unlocked(tun[t].relay)
    /\ tun[t].open
    /\ Stage(t, "marked")
    /\ \/ online' = TRUE /\ Wrote
       \/ UNCHANGED online /\ NotWritten
    /\ UNCHANGED <<conns, row, cache, relay, home, modern, q, calm, moves>>

Enter(t) ==
    /\ tun[t].stage = "made" /\ Up(tun[t].relay) /\ Unlocked(tun[t].relay)
    /\ tun[t].open /\ conns[tun[t].relay] < t
    /\ Stage(t, "marked")
    /\ \/ online' = TRUE /\ Wrote
       \/ UNCHANGED online /\ NotWritten
    /\ UNCHANGED <<conns, row, cache, relay, home, modern, q, calm, moves>>

\* MUTANT of List: the last writer wins
ListAny(t) ==
    /\ tun[t].stage = "marked" /\ Up(tun[t].relay)
    /\ Stage(t, "listed")
    /\ cache' = [cache EXCEPT ![tun[t].relay] = {}]
    /\ \/ row' = t /\ Wrote
       \/ UNCHANGED row /\ NotWritten
    /\ UNCHANGED <<conns, online, relay, home, modern, q, calm, moves>>

\* PGDirectory.Up
List(t) ==
    /\ tun[t].stage = "marked" /\ Up(tun[t].relay)
    /\ Stage(t, "listed")
    /\ cache' = [cache EXCEPT ![tun[t].relay] = {}]
    /\ \/ row' = (IF row < t THEN t ELSE row) /\ Wrote
       \/ UNCHANGED row /\ NotWritten
    /\ UNCHANGED <<conns, online, relay, home, modern, q, calm, moves>>

\* Register: the tunnel it replaces is closed, unless it is draining
Install(t) ==
    LET r == tun[t].relay
    IN  /\ tun[t].stage = "listed" /\ Up(r)
        /\ tun' = [p \in Tunnel |->
                      IF p = t THEN [tun[t] EXCEPT !.stage = "up"]
                      ELSE IF p = conns[r] /\ ~Draining(p) THEN [tun[p] EXCEPT !.open = FALSE]
                      ELSE tun[p]]
        /\ conns' = [conns EXCEPT ![r] = t]
        /\ UNCHANGED <<row, cache, online, relay, home, modern, q, ghosts>>

\* MUTANT of Unlist: the row goes whoever's it is
UnlistAny(t) ==
    /\ tun[t].stage = "up" /\ ~tun[t].open /\ Up(tun[t].relay)
    /\ Stage(t, "unlisted")
    /\ cache' = [cache EXCEPT ![tun[t].relay] = {}]
    /\ \/ row' = 0 /\ Wrote
       \/ UNCHANGED row /\ NotWritten
    /\ UNCHANGED <<conns, online, relay, home, modern, q, calm, moves>>

\* PGDirectory.Down: the row goes when it is still this tunnel's
Unlist(t) ==
    /\ tun[t].stage = "up" /\ ~tun[t].open /\ Up(tun[t].relay)
    /\ Stage(t, "unlisted")
    /\ cache' = [cache EXCEPT ![tun[t].relay] = {}]
    /\ \/ row' = (IF row = t THEN 0 ELSE row) /\ Wrote
       \/ UNCHANGED row /\ NotWritten
    /\ UNCHANGED <<conns, online, relay, home, modern, q, calm, moves>>

\* MUTANT of Leave: a tunnel that was replaced goes offline too
LeaveAny(t) ==
    LET r == tun[t].relay
    IN  /\ tun[t].stage = "unlisted" /\ Up(r) /\ Unlocked(r)
        /\ conns' = [conns EXCEPT ![r] = IF @ = t THEN 0 ELSE @] /\ Stage(t, "left")
        /\ UNCHANGED <<row, cache, online, relay, home, modern, q, ghosts>>

\* Registry.Down: only the slug's live tunnel goes offline
Leave(t) ==
    LET r == tun[t].relay
    IN  /\ tun[t].stage = "unlisted" /\ Up(r) /\ Unlocked(r)
        /\ \/ /\ conns[r] = t
              /\ conns' = [conns EXCEPT ![r] = 0] /\ Stage(t, "left")
           \/ /\ conns[r] # t
              /\ UNCHANGED conns /\ Stage(t, "gone")
        /\ UNCHANGED <<row, cache, online, relay, home, modern, q, ghosts>>

RecordOffline(t) ==
    /\ tun[t].stage = "left" /\ Up(tun[t].relay)
    /\ Stage(t, "gone")
    /\ \/ online' = FALSE /\ Wrote
       \/ UNCHANGED online /\ NotWritten
    /\ UNCHANGED <<conns, row, cache, relay, home, modern, q, calm, moves>>

\* the relay's read loop meets the end of the connection
RelaySees(t) ==
    /\ tun[t].stage # "none" /\ tun[t].open /\ ~tun[t].hopen
    /\ tun' = Closed(t)
    /\ UNCHANGED <<routing, relay, home, modern, q, ghosts>>

--------------------------------------------------------------------------------
(* A relay that goes away.                                                     *)

\* Shutdown: no new tunnels, and the open ones (Registry.All) are drained
Shutdown(r) ==
    /\ proc[r] = "running" /\ moves < MaxMoves /\ moves' = moves + 1
    /\ proc' = [proc EXCEPT ![r] = "closing"]
    /\ todo' = [todo EXCEPT ![r] = {t \in Tunnel : tun[t].relay = r /\ Installed(t) /\ tun[t].open}]
    /\ UNCHANGED <<tun, routing, beats, home, modern, q, calm, missed, faults>>

\* Tunnel.Drain
Drain(r) ==
    \E t \in todo[r] :
        /\ \A u \in todo[r] : t =< u
        /\ todo' = [todo EXCEPT ![r] = @ \ {t}]
        /\ tun' = [tun EXCEPT ![t].drain = "asked"]
        /\ UNCHANGED <<routing, proc, beats, home, modern, q, ghosts>>

\* drainWatch: a home that cannot move by itself is cut loose between requests
Idle(t) ==
    /\ tun[t].drain = "asked" /\ ~modern /\ tun[t].open /\ ~Busy(t)
    /\ tun' = [tun EXCEPT ![t].drain = "idle"]
    /\ UNCHANGED <<routing, relay, home, modern, q, ghosts>>

CloseIdle(t) ==
    /\ tun[t].drain = "idle" /\ tun[t].open
    /\ tun' = Closed(t)
    /\ UNCHANGED <<routing, relay, home, modern, q, ghosts>>

DrainDeadline(t) ==
    /\ Draining(t) /\ tun[t].open
    /\ tun' = Closed(t) /\ calm' = FALSE
    /\ UNCHANGED <<routing, relay, home, modern, q, missed, faults, moves>>

\* the grace ends: whatever is open is closed
GraceEnds(r) ==
    /\ proc[r] = "closing"
    /\ tun' = [t \in Tunnel |-> IF tun[t].relay = r /\ Installed(t)
                                THEN [tun[t] EXCEPT !.open = FALSE] ELSE tun[t]]
    /\ todo' = [todo EXCEPT ![r] = {}] /\ calm' = FALSE
    /\ UNCHANGED <<routing, proc, beats, home, modern, q, missed, faults, moves>>

\* What ends with its process: tunnels, the goroutines of Up and Down, requests
Dies(r) ==
    /\ proc' = [proc EXCEPT ![r] = "down"]
    /\ tun' = [t \in Tunnel |-> IF tun[t].relay = r /\ tun[t].stage # "none"
                                THEN [tun[t] EXCEPT !.open = FALSE, !.stage = "gone"] ELSE tun[t]]
    /\ conns' = [conns EXCEPT ![r] = 0]
    /\ cache' = [cache EXCEPT ![r] = {}]
    /\ todo' = [todo EXCEPT ![r] = {}]
    /\ missed' = (missed \/ \E t \in Made : tun[t].relay = r /\ tun[t].stage # "gone")
    /\ UNCHANGED <<row, online, beats, home, modern, moves>>

With(r) == r \in {q.at, q.from} /\ q.pc \notin {"idle"} \cup Ended

\* RunDraining: the tunnels are gone, and the listener's requests are done
Exit(r) ==
    /\ proc[r] = "closing" /\ todo[r] = {} /\ ~With(r)
    /\ \A t \in Tunnel : tun[t].relay = r /\ Installed(t) => ~tun[t].open
    /\ Dies(r)
    /\ UNCHANGED <<q, calm, faults>>

Crash(r) ==
    /\ Up(r) /\ Dies(r) /\ Fault /\ calm' = FALSE
    /\ q' = IF With(r) THEN [q EXCEPT !.pc = IF @ = "body" THEN "cut" ELSE "failed"] ELSE q

\* PGDirectory.Start: what an earlier run left is cleared
Start(r) ==
    /\ proc[r] = "down"
    /\ proc' = [proc EXCEPT ![r] = "running"]
    /\ beats' = [beats EXCEPT ![r] = TRUE]
    /\ row' = IF row # 0 /\ tun[row].relay = r THEN 0 ELSE row
    /\ UNCHANGED <<tun, conns, cache, online, todo, home, modern, q, ghosts>>

\* NodeDeadAfter passes for a process that is gone, or whose heartbeats fail
Silent(r) ==
    /\ beats[r]
    /\ beats' = [beats EXCEPT ![r] = FALSE]
    /\ \/ proc[r] = "down" /\ Wrote
       \/ proc[r] # "down" /\ NotWritten
    /\ UNCHANGED <<tun, routing, proc, todo, home, modern, q, calm, moves>>

\* Sweep, by another relay: the rows of a node not heard of
Sweep(r) ==
    /\ ~beats[r] /\ \E p \in Relays \ {r} : Up(p)
    /\ row # 0 /\ tun[row].relay = r /\ row' = 0
    /\ UNCHANGED <<tun, conns, cache, online, relay, home, modern, q, ghosts>>

Heartbeat(r) ==
    /\ Up(r) /\ ~beats[r]
    /\ beats' = [beats EXCEPT ![r] = TRUE]
    /\ UNCHANGED <<tun, routing, proc, todo, home, modern, q, ghosts>>

\* The connection breaks, and one side is the first to notice.
Breaks(t) ==
    /\ tun[t].open /\ tun[t].hopen /\ Fault /\ calm' = FALSE
    /\ \/ tun' = Closed(t) /\ UNCHANGED home
       \/ HomeLets(t)
    /\ UNCHANGED <<routing, relay, modern, q, missed, moves>>

--------------------------------------------------------------------------------
(* The request: handlers/relay.                                                *)

Goes(pc) == q' = [q EXCEPT !.pc = pc]

Arrive(r, get) ==
    /\ Up(r) /\ q.pc = "idle"
    /\ q' = [pc |-> "route", at |-> r, from |-> r, tun |-> 0, retried |-> FALSE, get |-> get]
    /\ UNCHANGED <<tun, routing, relay, home, modern, ghosts>>

Hopped == q.at # q.from

\* Handler: this relay's tunnel; a newer one elsewhere when it is draining
Route ==
    LET t == conns[q.at]
    IN  /\ q.pc = "route"
        /\ q' = [q EXCEPT !.tun = t, !.pc = IF t # 0 /\ (~Draining(t) \/ Hopped) THEN "serve"
                                            ELSE IF Hopped THEN "hold" ELSE "look"]
        /\ UNCHANGED <<tun, routing, relay, home, modern, ghosts>>

\* PGDirectory.Lookup: the answer of the last two seconds, or the row
Answers(r) ==
    cache[r] \cup {IF row # 0 /\ tun[row].relay # r /\ beats[tun[row].relay] THEN row ELSE 0}

\* forward: the peer takes the request, or cannot be reached and is forgotten
Forwards(a, otherwise) ==
    LET p == tun[a].relay
    IN  \/ /\ Up(p)
           /\ q' = [q EXCEPT !.pc = "route", !.at = p, !.tun = 0, !.retried = FALSE]
           /\ cache' = [cache EXCEPT ![q.at] = {a}]
        \/ /\ proc[p] # "running"
           /\ Goes(otherwise)
           /\ cache' = [cache EXCEPT ![q.at] = {}]

\* forwardIfElsewhere
Look ==
    LET stay == IF q.tun # 0 THEN "serve" ELSE "hold"
    IN  /\ q.pc = "look"
        /\ \E a \in Answers(q.at) :
              \/ a > q.tun /\ Forwards(a, stay)
              \/ a =< q.tun /\ Goes(stay) /\ cache' = [cache EXCEPT ![q.at] = {a}]
        /\ UNCHANGED <<tun, conns, row, online, relay, home, modern, ghosts>>

\* hold: a tunnel came up here, or on a peer, or the wait ran out
Hold ==
    /\ q.pc = "hold"
    /\ \/ /\ conns[q.at] # 0
          /\ q' = [q EXCEPT !.pc = "serve", !.tun = conns[q.at], !.retried = TRUE]
          /\ UNCHANGED cache
       \/ /\ ~Hopped
          /\ \E a \in Answers(q.at) \ {0} : Forwards(a, "hold")
    /\ UNCHANGED <<tun, conns, row, online, relay, home, modern, ghosts>>

\* MUTANT of HoldEnds: only while somebody could come back
HoldEndsDown ==
    /\ q.pc = "hold" /\ \E r \in Relays : ~Up(r)
    /\ Goes("refused")
    /\ UNCHANGED <<tun, routing, relay, home, modern, ghosts>>

HoldEnds ==
    /\ q.pc = "hold"
    /\ Goes("refused")
    /\ UNCHANGED <<tun, routing, relay, home, modern, ghosts>>

\* ProxyWithin; the frame may fail on a connection that is broken
Serve ==
    /\ q.pc = "serve" /\ tun[q.tun].open
    /\ \/ Goes("sent")
       \/ ~tun[q.tun].hopen /\ Goes("failed")
    /\ UNCHANGED <<tun, routing, relay, home, modern, ghosts>>

\* The tunnel closed before the home answered: a GET is routed once more, and
\* ends with nothing written when that was its second try or it was held.
TunnelGone ==
    /\ q.pc \in {"serve", "sent", "handled"} /\ ~tun[q.tun].open
    /\ q' = IF ~q.get THEN [q EXCEPT !.pc = "failed"]
            ELSE IF q.retried THEN [q EXCEPT !.pc = "empty"]
            ELSE [q EXCEPT !.pc = "route", !.retried = TRUE]
    /\ UNCHANGED <<tun, routing, relay, home, modern, ghosts>>

Carry(from, to) ==
    /\ q.pc = from /\ tun[q.tun].open /\ tun[q.tun].hopen
    /\ Goes(to)
    /\ UNCHANGED <<tun, routing, relay, home, modern, ghosts>>

Reach == Carry("sent", "handled")

HeadBack == Carry("handled", "body")

\* the home's last frame is queued: what closes after it takes nothing back
Finish == Carry("body", "done")

Cut ==
    /\ q.pc = "body" /\ ~tun[q.tun].open
    /\ Goes("cut")
    /\ UNCHANGED <<tun, routing, relay, home, modern, ghosts>>

--------------------------------------------------------------------------------

HomeNext ==
    \/ \E r \in Relays : Dial(r) \/ DialLost(r)
    \/ HearDrain
    \/ \E t \in Tunnel : HomeSees(t) \/ FinishDrained(t) \/ HomeDeadline(t)

RelayNext ==
    \/ \E t \in Tunnel : \/ Stale(t) \/ Enter(t) \/ List(t) \/ Install(t)
                         \/ Unlist(t) \/ Leave(t) \/ RecordOffline(t) \/ RelaySees(t)
    \/ \E r \in Relays : Shutdown(r) \/ Drain(r) \/ GraceEnds(r) \/ Exit(r) \/ Start(r)
    \/ \E t \in Tunnel : Idle(t) \/ CloseIdle(t) \/ DrainDeadline(t)

Faulty ==
    \/ \E r \in Relays : Crash(r) \/ Silent(r) \/ Sweep(r) \/ Heartbeat(r)
    \/ \E t \in Tunnel : Breaks(t)

RequestNext ==
    \/ \E r \in Relays, get \in BOOLEAN : Arrive(r, get)
    \/ Route \/ Look \/ Hold \/ HoldEnds \/ Serve \/ TunnelGone
    \/ Reach \/ HeadBack \/ Finish \/ Cut

Next == HomeNext \/ RelayNext \/ Faulty \/ RequestNext

\* Goroutines run, a closed connection is noticed, the home dials while it has
\* no tunnel, a client reads and a home answers.  Nothing of shutdowns, crashes,
\* deadlines, arrivals, heartbeats and sweeps.
Fairness ==
    /\ \A t \in Tunnel : /\ WF_vars(Stale(t) \/ Enter(t) \/ List(t) \/ Install(t))
                         /\ WF_vars(Unlist(t) \/ Leave(t) \/ RecordOffline(t))
                         /\ WF_vars(RelaySees(t)) /\ WF_vars(HomeSees(t))
    /\ WF_vars(\E r \in Relays : Dial(r))
    /\ WF_vars(Route \/ Look \/ HoldEnds \/ Serve \/ TunnelGone)
    /\ WF_vars(Reach \/ HeadBack \/ Finish \/ Cut)

Spec == Init /\ [][Next]_vars /\ Fairness

--------------------------------------------------------------------------------
(* Properties.                                                                 *)

\* A move keeps the work: while nothing breaks and no deadline passes, what a
\* home that can move was asked over any tunnel goes on to its end.
MovesKeepWork ==
    [][calm' /\ modern /\ q.pc \in {"handled", "body"} => q' = q \/ q'.pc \in {"body", "done"}]_vars

\* The tunnel a relay routes to is only replaced by a newer one, and only
\* leaves once it is closed.
NewestStays ==
    [][\A r \in Relays :
        conns[r] # 0 /\ conns'[r] < conns[r] => conns'[r] = 0 /\ ~tun'[conns[r]].open]_vars

\* The directory's row only moves to a newer tunnel, and only goes once its
\* tunnel is closed or its relay was not heard of.
RowForward ==
    [][row # 0 /\ row' < row => row' = 0 /\ (~tun[row].open \/ ~beats[tun[row].relay])]_vars

\* A home that only ever reconnects to one relay is never shown offline while
\* that relay routes to it, whatever the order its tunnels come and go in.
ShownOnline ==
    \A r \in Relays :
        (\A t \in Made : tun[t].relay = r) /\ ~missed /\ conns[r] # 0 => online

\* In the end the directory and the relay it names know the home's tunnel.
Found ==
    <>[](home.cur # 0 /\ ~missed => row = home.cur /\ conns[tun[home.cur].relay] = home.cur)

\* Every request ends: carried through, refused or failed.
EveryRequestEnds == [](q.pc # "idle" => <>(q.pc \in Ended))

\* What the handler promises of a GET whose tunnel closed under it: routed to
\* the new tunnel, or answered; never nothing.
NothingEmpty == q.pc # "empty"
================================================================================
