----------------------------- MODULE Placement -----------------------------
(***************************************************************************)
(* Where each live TV channel is encoded.  The home's placement service    *)
(* (src/streaming/internal/placement) keeps one row a channel: the host,   *)
(* a generation from one sequence, and a state.  Every host's engine       *)
(* (src/streaming/internal/channel/engine.go) starts a station only for a  *)
(* generation its fence allowed, re-checks it every few seconds and gives  *)
(* it back when the station is reaped.  The database calls of the engine   *)
(* run outside its lock: each is a step of its own here, and so is what    *)
(* the front door cached before it forwards a request.                     *)
(***************************************************************************)
EXTENDS Naturals, FiniteSets

CONSTANTS
    Channels,        \* the channels
    Hosts,           \* the streaming hosts, the home among them
    Home,            \* the machine that runs the placement service
    Capacity,        \* Capacity[h]: the channels host h may carry
    FailuresToDown,  \* failed proxied requests in a row that mark a host down
    None,            \* no host
    MaxViews,        \* bound: times a viewer tunes in or leaves
    MaxGen,          \* bound: placements
    MaxEvents        \* bound: faults, commands and placements that stay unconfirmed

ASSUME PlacementAssumption ==
    /\ Home \in Hosts /\ None \notin Hosts /\ IsFiniteSet(Channels)
    /\ Capacity \in [Hosts -> Nat] /\ FailuresToDown \in Nat
    /\ MaxViews \in Nat /\ MaxEvents \in Nat /\ MaxGen \in Nat

VARIABLES
    row,       \* channel_placements: one row a channel
    seq,       \* tv_placement_generation_seq
    cache,     \* Service.cache: the placement the home serves without a query
    req,       \* the front door's request for a channel, from Resolve to the host
    beat,      \* streaming_hosts.heartbeat_at: "stale", "fresh", "newer" (than the last failure)
    seen,      \* Hosts.hosts: did the last load find the host's beat fresh
    fails,     \* Hosts.failures
    marked,    \* Hosts.downMark
    was,       \* Hosts.alive: the liveness the last sweep computed
    todo,      \* placements the sweeper still has to re-place or release
    barred,    \* hosts that take no new channel (draining)
    moves,     \* channels DrainNow still has to move
    link,      \* a host is "up", "cut" from the database, or "down"
    st,        \* st[h][c]: the station "off", "on" or "stopping"
    gens,      \* Engine.gens: the generation the station holds (0: none)
    reg,       \* registry.entries: the channels counted against the host's cap
    start,     \* start[h][c]: the generation a start in flight was allowed (0: none)
    acks,      \* confirmations not written yet
    giveBack,  \* taken generations whose release is not written yet
    check,     \* check[h][c]: a fence check between its read and its effect
    watch,     \* channels with a viewer
    left       \* what the bounds leave

rows    == <<row, seq>>
service == <<cache, req>>
health  == <<beat, seen, fails, marked, was, todo>>
engines == <<st, gens, reg, start, acks, giveBack, check>>
vars    == <<rows, service, health, barred, moves, link, engines, watch, left>>

ActiveStates == {"placing", "moving", "live"}
Row    == [host : Hosts \union {None}, gen : Nat,
           state : ActiveStates \union {"released"}, aged : BOOLEAN]
NoRow  == [host |-> None, gen |-> 0, state |-> "released", aged |-> FALSE]
NoCheck == [on |-> FALSE, same |-> FALSE, new |-> 0]

Active(p) == p.state \in ActiveStates

\* Hosts.aliveLocked: the home's opinion, from the beats it loaded and its marks.
Alive(h) == seen[h] /\ ~marked[h]

\* MUTANT of Valid: whatever became of its host
ValidOnDead(p) == Active(p) /\ ~(p.state # "live" /\ p.aged)

\* Service.valid: may the placement keep its host.
Valid(p) == Active(p) /\ Alive(p.host) /\ ~(p.state # "live" /\ p.aged)

\* MUTANT of Used: only confirmed placements count
UsedLive(c, h) == Cardinality({d \in Channels \ {c} : row[d].state = "live" /\ row[d].host = h})

\* The active rows of other channels on a host (Store.Place counts them under its locks).
Used(c, h) == Cardinality({d \in Channels \ {c} : Active(row[d]) /\ row[d].host = h})

Room(c) == {h \in Hosts : Alive(h) /\ h \notin barred /\ Used(c, h) < Capacity[h]}

\* Choose: any host with room; the one to leave only when nothing else fits.
Choices(c, exclude) ==
    IF Cardinality(Room(c)) > 1 THEN Room(c) \ {exclude} ELSE Room(c)

\* MUTANT of PutRow: a row placed again keeps its generation
PutSameGen(c, h, state) ==
    /\ row' = [row EXCEPT ![c] = [host |-> h, gen |-> IF row[c].gen = 0 THEN seq + 1 ELSE row[c].gen,
                                  state |-> state, aged |-> FALSE]]
    /\ seq' = seq + 1

\* The upsert of Store.Place: a new generation, whatever was there.
PutRow(c, h, state) ==
    /\ seq < MaxGen
    /\ row' = [row EXCEPT ![c] = [host |-> h, gen |-> seq + 1, state |-> state, aged |-> FALSE]]
    /\ seq' = seq + 1

\* Place for a first request or a failover: a placement that is valid by now is kept.
PlaceUnlessValid(c) ==
    IF Valid(row[c]) THEN UNCHANGED rows
    ELSE \E h \in Choices(c, None) : PutRow(c, h, "placing")

CachedAlive(c) == cache[c].gen # 0 /\ Alive(cache[c].host)

Spend(kind) == left[kind] > 0 /\ left' = [left EXCEPT ![kind] = @ - 1]

-----------------------------------------------------------------------------
(* Viewers and the front door.                                             *)

TuneIn(c) ==
    /\ c \notin watch /\ Spend("views")
    /\ watch' = watch \union {c}
    /\ UNCHANGED <<rows, service, health, barred, moves, link, engines>>

TuneOut(c) ==
    /\ c \in watch /\ Spend("views")
    /\ watch' = watch \ {c}
    /\ UNCHANGED <<rows, service, health, barred, moves, link, engines>>

\* Resolve from the cache: no query.
ResolveCached(c) ==
    /\ c \in watch /\ req[c] = NoRow /\ CachedAlive(c)
    /\ req' = [req EXCEPT ![c] = cache[c]]
    /\ UNCHANGED <<rows, cache, health, barred, moves, link, engines, watch, left>>

\* Resolve from the row, placing the channel when it has no valid placement.
ResolveRow(c) ==
    /\ c \in watch /\ req[c] = NoRow /\ ~CachedAlive(c)
    /\ PlaceUnlessValid(c)
    /\ cache' = [cache EXCEPT ![c] = row'[c]]
    /\ req' = [req EXCEPT ![c] = row'[c]]
    /\ UNCHANGED <<health, barred, moves, link, engines, watch, left>>

\* A notification, a change made here, or the two seconds of the cache.
Invalidate(c) ==
    /\ cache[c].gen # 0
    /\ cache' = [cache EXCEPT ![c] = NoRow]
    /\ UNCHANGED <<rows, req, health, barred, moves, link, engines, watch, left>>

Answered(c) == req' = [req EXCEPT ![c] = NoRow]

\* The request reaches an engine that runs the channel: served (Hosts.OK for a node).
Serve(c) ==
    LET h == req[c].host IN
    /\ req[c].gen # 0 /\ link[h] # "down" /\ st[h][c] = "on"
    /\ Answered(c)
    /\ fails' = [fails EXCEPT ![h] = 0]
    /\ UNCHANGED <<rows, cache, beat, seen, marked, was, todo, barred, moves, link, engines, watch, left>>

\* Engine.Ensure starts nothing while the station stops or another start runs.
Cold(h, c) == st[h][c] = "off" /\ start[h][c] = 0

\* HomeFence.Allow: the home resolves again, and starts only what resolves to itself.
AllowHome(c) ==
    /\ req[c].gen # 0 /\ req[c].host = Home /\ Cold(Home, c)
    /\ IF CachedAlive(c) THEN UNCHANGED <<rows, cache>>
       ELSE /\ PlaceUnlessValid(c)
            /\ cache' = [cache EXCEPT ![c] = row'[c]]
    /\ start' = [start EXCEPT ![Home][c] = IF cache'[c].host = Home THEN cache'[c].gen ELSE 0]
    /\ Answered(c)
    /\ UNCHANGED <<health, barred, moves, link, st, gens, reg, acks, giveBack, check, watch, left>>

\* ... or answers 503 with Retry-After: no host has room.
RefuseHome(c) ==
    /\ req[c].gen # 0 /\ req[c].host = Home /\ Cold(Home, c)
    /\ ~CachedAlive(c) /\ ~Valid(row[c]) /\ Room(c) = {}
    /\ Answered(c)
    /\ UNCHANGED <<rows, cache, health, barred, moves, link, engines, watch, left>>

\* NodeFence.Allow: the row must name this node with the generation of the request.
NodeAllows(h, c) == Active(row[c]) /\ row[c].host = h /\ row[c].gen = req[c].gen

AllowNode(c) ==
    LET h == req[c].host IN
    /\ req[c].gen # 0 /\ h # Home /\ link[h] = "up" /\ Cold(h, c) /\ NodeAllows(h, c)
    /\ start' = [start EXCEPT ![h][c] = row[c].gen]
    /\ Answered(c)
    /\ UNCHANGED <<rows, cache, health, barred, moves, link, st, gens, reg, acks, giveBack, check, watch, left>>

\* 409: not this node's channel; the front door drops its cached placement.
RefuseNode(c) ==
    LET h == req[c].host IN
    /\ req[c].gen # 0 /\ h # Home /\ link[h] = "up" /\ Cold(h, c) /\ ~NodeAllows(h, c)
    /\ Answered(c)
    /\ cache' = [cache EXCEPT ![c] = NoRow]
    /\ UNCHANGED <<rows, health, barred, moves, link, engines, watch, left>>

\* A node that cannot read the row answers 503, which the front door takes for alive.
UnreadableNode(c) ==
    LET h == req[c].host IN
    /\ req[c].gen # 0 /\ h # Home /\ link[h] = "cut" /\ Cold(h, c)
    /\ Answered(c)
    /\ fails' = [fails EXCEPT ![h] = 0]
    /\ UNCHANGED <<rows, cache, beat, seen, marked, was, todo, barred, moves, link, engines, watch, left>>

\* Handler.fail and Hosts.Fail: the third failure in a row marks the host down.
ForwardFails(c) ==
    LET h == req[c].host IN
    /\ req[c].gen # 0 /\ link[h] = "down"
    /\ Answered(c)
    /\ cache' = [cache EXCEPT ![c] = NoRow]
    /\ fails' = [fails EXCEPT ![h] = IF @ < FailuresToDown THEN @ + 1 ELSE @]
    /\ marked' = [marked EXCEPT ![h] = @ \/ fails'[h] >= FailuresToDown]
    /\ beat' = [beat EXCEPT ![h] = IF marked'[h] /\ ~marked[h] /\ @ = "newer" THEN "fresh" ELSE @]
    /\ UNCHANGED <<rows, seen, was, todo, barred, moves, link, engines, watch, left>>

-----------------------------------------------------------------------------
(* The engine: starts, confirmations, reaping, fence checks.                *)

\* Engine.takeGenLocked: forget the generation, to be given back outside the lock.
Taken(h, c, g) == IF g[h][c] = 0 THEN {} ELSE {<<h, c, g[h][c]>>}

\* MUTANT of Stopping: the station runs on
StoppingNot(s) == s

Stopping(s) == IF s = "off" THEN "off" ELSE "stopping"

\* The locked part of Ensure with room in the registry.
Started(h, c) ==
    /\ st' = [st EXCEPT ![h][c] = "on"]
    /\ gens' = [gens EXCEPT ![h][c] = start[h][c]]
    /\ reg' = [reg EXCEPT ![h] = @ \union {c}]
    /\ acks' = acks \union {<<h, c, start[h][c]>>}
    /\ UNCHANGED giveBack

\* ... and at the cap: an entry without attached clients makes room.
StartedEvicting(h, c, v) ==
    /\ st' = [st EXCEPT ![h][c] = "on", ![h][v] = Stopping(@)]
    /\ gens' = [gens EXCEPT ![h][c] = start[h][c], ![h][v] = 0]
    /\ reg' = [reg EXCEPT ![h] = (@ \ {v}) \union {c}]
    /\ acks' = acks \union {<<h, c, start[h][c]>>}
    /\ giveBack' = giveBack \union Taken(h, v, gens)

StartStation(h, c) ==
    /\ start[h][c] # 0
    /\ start' = [start EXCEPT ![h][c] = 0]
    /\ \/ Cardinality(reg[h]) < Capacity[h] /\ Started(h, c)
       \/ Cardinality(reg[h]) >= Capacity[h] /\ \E v \in reg[h] : StartedEvicting(h, c, v)
    /\ UNCHANGED <<rows, service, health, barred, moves, link, check, watch, left>>

\* Every entry has an attached client (ErrAtCapacity), or the pipeline does not start,
\* by which time another channel may have been evicted for it.
Evicted(h, v) ==
    /\ st' = [st EXCEPT ![h][v] = Stopping(@)]
    /\ gens' = [gens EXCEPT ![h][v] = 0]
    /\ reg' = [reg EXCEPT ![h] = @ \ {v}]
    /\ giveBack' = giveBack \union Taken(h, v, gens)

StartFails(h, c) ==
    /\ start[h][c] # 0 /\ Spend("events")
    /\ start' = [start EXCEPT ![h][c] = 0]
    /\ \/ UNCHANGED <<st, gens, reg, giveBack>>
       \/ Cardinality(reg[h]) >= Capacity[h] /\ \E v \in reg[h] : Evicted(h, v)
    /\ UNCHANGED <<rows, service, health, barred, moves, link, acks, check, watch>>

\* tv_placement_ack: only while the row still holds the generation.
Ack(h, c, g) ==
    /\ <<h, c, g>> \in acks
    /\ acks' = acks \ {<<h, c, g>>}
    /\ row' = IF link[h] = "up" /\ row[c].gen = g /\ Active(row[c])
              THEN [row EXCEPT ![c].state = "live"] ELSE row
    /\ UNCHANGED <<seq, service, health, barred, moves, link, st, gens, reg, start, giveBack, check, watch, left>>

\* tv_placement_release: only while the row still holds the generation.
Releasable(c, g) == row[c].gen = g /\ Active(row[c])
Released(c, g) == IF Releasable(c, g) THEN [row EXCEPT ![c].state = "released"] ELSE row

\* Engine.release: the write, or the log line of LogFenceWrite when it is not taken.
GiveBack(h, c, g) ==
    /\ <<h, c, g>> \in giveBack
    /\ giveBack' = giveBack \ {<<h, c, g>>}
    /\ row' = IF link[h] = "up" THEN Released(c, g) ELSE row
    /\ UNCHANGED <<seq, service, health, barred, moves, link, st, gens, reg, start, acks, check, watch, left>>

\* No viewer's requests reach this station.
Idle(h, c) == c \notin watch \/ row[c].host # h \/ ~Active(row[c])

\* Engine.ReapIdle: stop and take the generation under the lock, release after it.
ReapIdle(h, c) ==
    /\ c \in reg[h] /\ Idle(h, c)
    /\ reg' = [reg EXCEPT ![h] = @ \ {c}]
    /\ st' = [st EXCEPT ![h][c] = Stopping(@)]
    /\ gens' = [gens EXCEPT ![h][c] = 0]
    /\ giveBack' = giveBack \union Taken(h, c, gens)
    /\ UNCHANGED <<rows, service, health, barred, moves, link, start, acks, check, watch, left>>

\* The station's processes are gone: the engine forgets the station, not its generation.
StationDone(h, c) ==
    /\ st[h][c] = "stopping"
    /\ st' = [st EXCEPT ![h][c] = "off"]
    /\ reg' = [reg EXCEPT ![h] = @ \ {c}]
    /\ check' = [check EXCEPT ![h][c].same = FALSE]
    /\ UNCHANGED <<rows, service, health, barred, moves, link, gens, start, acks, giveBack, watch, left>>

\* Engine.StopAll: the streaming component stops (and is started again), its stations with it.
StopAll(h) ==
    /\ Spend("events") /\ \E c \in Channels : st[h][c] = "on"
    /\ st' = [st EXCEPT ![h] = [c \in Channels |-> Stopping(st[h][c])]]
    /\ UNCHANGED <<rows, service, health, barred, moves, link, gens, reg, start, acks, giveBack, check, watch>>

\* MUTANT of Mine: any host will do
MineActive(h, c) == Active(row[c])

\* checkRow: keep while the row names this host.
Mine(h, c) == Active(row[c]) /\ row[c].host = h

\* A check that cannot read the row, or finds it as it was, changes nothing.
CheckRead(h, c) ==
    /\ link[h] = "up" /\ st[h][c] = "on" /\ gens[h][c] # 0 /\ ~check[h][c].on
    /\ ~Mine(h, c) \/ row[c].gen # gens[h][c]
    /\ check' = [check EXCEPT ![h][c] =
           [on |-> TRUE, same |-> TRUE, new |-> IF Mine(h, c) THEN row[c].gen ELSE 0]]
    /\ UNCHANGED <<rows, service, health, barred, moves, link, st, gens, reg, start, acks, giveBack, watch, left>>

\* The lock is taken again: adopt the newer generation, if it is still that station.
Adopt(h, c) ==
    /\ check[h][c].on /\ check[h][c].new # 0
    /\ gens' = [gens EXCEPT ![h][c] = IF check[h][c].same THEN check[h][c].new ELSE @]
    /\ acks' = acks \union {<<h, c, check[h][c].new>>}
    /\ check' = [check EXCEPT ![h][c] = NoCheck]
    /\ UNCHANGED <<rows, service, health, barred, moves, link, st, reg, start, giveBack, watch, left>>

\* MUTANT of Fenced: the generation is forgotten, the station runs on
FencedKept(h, c) ==
    /\ check[h][c].on /\ check[h][c].new = 0
    /\ gens' = [gens EXCEPT ![h][c] = IF check[h][c].same THEN 0 ELSE @]
    /\ check' = [check EXCEPT ![h][c] = NoCheck]
    /\ UNCHANGED <<rows, service, health, barred, moves, link, st, reg, start, acks, giveBack, watch, left>>

\* Superseded: the station stops.
Fenced(h, c) ==
    /\ check[h][c].on /\ check[h][c].new = 0
    /\ gens' = [gens EXCEPT ![h][c] = IF check[h][c].same THEN 0 ELSE @]
    /\ st' = [st EXCEPT ![h][c] = IF check[h][c].same THEN Stopping(@) ELSE @]
    /\ check' = [check EXCEPT ![h][c] = NoCheck]
    /\ UNCHANGED <<rows, service, health, barred, moves, link, reg, start, acks, giveBack, watch, left>>

-----------------------------------------------------------------------------
(* The home's sweeper, its loss of hosts, and the commands of the admin.    *)

Beat(h) ==
    /\ link[h] = "up" /\ beat[h] # "newer"
    /\ beat' = [beat EXCEPT ![h] = "newer"]
    /\ UNCHANGED <<rows, service, seen, fails, marked, was, todo, barred, moves, link, engines, watch, left>>

\* dead_after passes without a beat.
Lapse(h) ==
    /\ link[h] # "up" /\ beat[h] # "stale"
    /\ beat' = [beat EXCEPT ![h] = "stale"]
    /\ UNCHANGED <<rows, service, seen, fails, marked, was, todo, barred, moves, link, engines, watch, left>>

\* Hosts.load: a beat newer than the failure mark clears it.
Load ==
    /\ seen' = [h \in Hosts |-> beat[h] # "stale"]
    /\ marked' = [h \in Hosts |-> marked[h] /\ beat[h] # "newer"]
    /\ fails' = [h \in Hosts |-> IF marked[h] /\ ~marked'[h] THEN 0 ELSE fails[h]]

\* Sweeper.SweepOnce: load, the hosts newly down, and what is placed on them.
Sweep ==
    /\ todo = {}
    /\ Load
    /\ was' = [h \in Hosts |-> seen'[h] /\ ~marked'[h]]
    /\ todo' = {[c |-> c, gen |-> row[c].gen, watched |-> c \in watch] :
                   c \in {d \in Channels : Active(row[d]) /\ was[row[d].host] /\ ~was'[row[d].host]}}
    /\ <<seen', marked', fails', was', todo'>> # <<seen, marked, fails, was, todo>>
    /\ UNCHANGED <<rows, service, beat, barred, moves, link, engines, watch, left>>

\* Sweeper.failover: without demand the placement is released, with it re-placed;
\* when no host has room the warning is all.
Failover(item) ==
    /\ item \in todo
    /\ todo' = todo \ {item}
    /\ IF ~item.watched THEN row' = Released(item.c, item.gen) /\ UNCHANGED seq
       ELSE IF Room(item.c) = {} THEN UNCHANGED rows
       ELSE PlaceUnlessValid(item.c)
    /\ cache' = [cache EXCEPT ![item.c] = IF item.watched THEN row'[item.c] ELSE NoRow]
    /\ UNCHANGED <<req, beat, seen, fails, marked, was, barred, moves, link, engines, watch, left>>

\* Place for a move (to a named host, or by choice) or a drain: always a new generation.
Move(c) ==
    /\ Spend("events")
    /\ \E h \in Room(c) : PutRow(c, h, "moving")
    /\ cache' = [cache EXCEPT ![c] = row'[c]]
    /\ UNCHANGED <<req, health, barred, moves, link, engines, watch>>

StopChannel(c) ==
    /\ Active(row[c]) /\ Spend("events")
    /\ row' = [row EXCEPT ![c].state = "released", ![c].gen = seq + 1]
    /\ seq' = seq + 1
    /\ cache' = [cache EXCEPT ![c] = NoRow]
    /\ UNCHANGED <<req, health, barred, moves, link, engines, watch>>

\* DrainNow: the host takes nothing new; what is on it is listed, then moved one by one.
Drain(h) ==
    /\ h \notin barred /\ Spend("events")
    /\ barred' = barred \union {h}
    /\ moves' = moves \union {c \in Channels : Active(row[c]) /\ row[c].host = h}
    /\ UNCHANGED <<rows, service, health, link, engines, watch>>

DrainMove(c) ==
    /\ c \in moves
    /\ moves' = moves \ {c}
    /\ LET leaving == IF Active(row[c]) THEN row[c].host ELSE None IN
       IF Room(c) = {} THEN UNCHANGED <<rows, cache>>
       ELSE /\ \E h \in Choices(c, leaving) : PutRow(c, h, "moving")
            /\ cache' = [cache EXCEPT ![c] = row'[c]]
    /\ UNCHANGED <<req, health, barred, link, engines, watch, left>>

\* AckTimeout passes on a placement nobody confirmed.
Age(c) ==
    /\ Active(row[c]) /\ row[c].state # "live" /\ ~row[c].aged /\ Spend("events")
    /\ row' = [row EXCEPT ![c].aged = TRUE]
    /\ UNCHANGED <<seq, service, health, barred, moves, link, engines, watch>>

Of(h, S) == {x \in S : x[1] = h}

\* A node's streaming process, or the machine, dies: its memory is gone.
Crash(h) ==
    /\ h # Home /\ link[h] # "down" /\ Spend("events")
    /\ link' = [link EXCEPT ![h] = "down"]
    /\ st' = [st EXCEPT ![h] = [c \in Channels |-> "off"]]
    /\ gens' = [gens EXCEPT ![h] = [c \in Channels |-> 0]]
    /\ start' = [start EXCEPT ![h] = [c \in Channels |-> 0]]
    /\ check' = [check EXCEPT ![h] = [c \in Channels |-> NoCheck]]
    /\ reg' = [reg EXCEPT ![h] = {}]
    /\ acks' = acks \ Of(h, acks)
    /\ giveBack' = giveBack \ Of(h, giveBack)
    /\ UNCHANGED <<rows, service, health, barred, moves, watch>>

\* A node loses its way to the database and keeps encoding.
Cut(h) ==
    /\ h # Home /\ link[h] = "up" /\ Spend("events")
    /\ link' = [link EXCEPT ![h] = "cut"]
    /\ UNCHANGED <<rows, service, health, barred, moves, engines, watch>>

Recover(h) ==
    /\ link[h] # "up"
    /\ link' = [link EXCEPT ![h] = "up"]
    /\ UNCHANGED <<rows, service, health, barred, moves, engines, watch, left>>

-----------------------------------------------------------------------------
PerHostAndChannel(v) == [h \in Hosts |-> [c \in Channels |-> v]]

Init ==
    /\ row = [c \in Channels |-> NoRow] /\ seq = 0
    /\ cache = [c \in Channels |-> NoRow]
    /\ req = [c \in Channels |-> NoRow]
    /\ beat = [h \in Hosts |-> "newer"]
    /\ seen = [h \in Hosts |-> TRUE]
    /\ fails = [h \in Hosts |-> 0]
    /\ marked = [h \in Hosts |-> FALSE]
    /\ was = [h \in Hosts |-> TRUE]
    /\ todo = {} /\ barred = {} /\ moves = {}
    /\ link = [h \in Hosts |-> "up"]
    /\ st = PerHostAndChannel("off")
    /\ gens = PerHostAndChannel(0)
    /\ reg = [h \in Hosts |-> {}]
    /\ start = PerHostAndChannel(0)
    /\ acks = {} /\ giveBack = {}
    /\ check = PerHostAndChannel(NoCheck)
    /\ watch = {}
    /\ left = [views |-> MaxViews, events |-> MaxEvents]

FrontDoor(c) ==
    \/ ResolveCached(c) \/ ResolveRow(c) \/ Invalidate(c) \/ Serve(c)
    \/ AllowHome(c) \/ RefuseHome(c) \/ AllowNode(c) \/ RefuseNode(c) \/ UnreadableNode(c)
    \/ ForwardFails(c)

Station(h, c) ==
    \/ StartStation(h, c) \/ StartFails(h, c) \/ ReapIdle(h, c) \/ StationDone(h, c)
    \/ CheckRead(h, c) \/ Adopt(h, c) \/ Fenced(h, c)

Next ==
    \/ \E c \in Channels : TuneIn(c) \/ TuneOut(c) \/ FrontDoor(c) \/ Age(c)
                           \/ Move(c) \/ StopChannel(c) \/ DrainMove(c)
    \/ \E h \in Hosts, c \in Channels : Station(h, c)
    \/ \E x \in acks : Ack(x[1], x[2], x[3])
    \/ \E x \in giveBack : GiveBack(x[1], x[2], x[3])
    \/ Sweep
    \/ \E item \in todo : Failover(item)
    \/ \E h \in Hosts : Beat(h) \/ Lapse(h) \/ StopAll(h) \/ Drain(h) \/ Crash(h) \/ Cut(h) \/ Recover(h)

Spec == Init /\ [][Next]_vars

(* What the schedulers run: a viewer's player asks again, the engine's      *)
(* loops and goroutines and the sweeper run, beats are sent and missed.     *)
(* No viewer has to leave, no command has to come, no host has to recover.  *)
Fairness ==
    /\ \A c \in Channels :
          /\ WF_vars(ResolveCached(c) \/ ResolveRow(c))
          /\ WF_vars(Serve(c) \/ AllowHome(c) \/ RefuseHome(c) \/ AllowNode(c) \/ RefuseNode(c)
                     \/ UnreadableNode(c) \/ ForwardFails(c))
          /\ SF_vars(Invalidate(c)) /\ WF_vars(DrainMove(c))
          /\ \A h \in Hosts :
                /\ WF_vars(StartStation(h, c)) /\ WF_vars(StationDone(h, c))
                /\ WF_vars(c \notin watch /\ ReapIdle(h, c)) /\ WF_vars(CheckRead(h, c))
                /\ WF_vars(Adopt(h, c) \/ Fenced(h, c))
    /\ WF_vars(\E x \in acks : Ack(x[1], x[2], x[3]))
    /\ WF_vars(\E x \in giveBack : GiveBack(x[1], x[2], x[3]))
    /\ WF_vars(Sweep) /\ WF_vars(\E item \in todo : Failover(item))
    /\ \A h \in Hosts : WF_vars(Beat(h)) /\ WF_vars(Lapse(h))

FairSpec == Spec /\ Fairness
-----------------------------------------------------------------------------
(* Properties.                                                              *)

Placements == [Channels -> Row]
CheckRow == [on : BOOLEAN, same : BOOLEAN, new : Nat]

\* The rows and what the home cached and sent of them; no row is ahead of the sequence.
RowsOK ==
    /\ row \in Placements /\ seq \in Nat /\ cache \in Placements /\ req \in Placements
    /\ \A c \in Channels : row[c].gen <= seq /\ (row[c].host = None => row[c] = NoRow)

HealthOK ==
    /\ beat \in [Hosts -> {"stale", "fresh", "newer"}]
    /\ seen \in [Hosts -> BOOLEAN] /\ marked \in [Hosts -> BOOLEAN] /\ was \in [Hosts -> BOOLEAN]
    /\ fails \in [Hosts -> Nat]
    /\ todo \subseteq [c : Channels, gen : Nat, watched : BOOLEAN]

\* A station that runs is counted against its host's cap.
EnginesOK ==
    /\ st \in [Hosts -> [Channels -> {"off", "on", "stopping"}]]
    /\ gens \in [Hosts -> [Channels -> Nat]] /\ start \in [Hosts -> [Channels -> Nat]]
    /\ reg \in [Hosts -> SUBSET Channels]
    /\ acks \subseteq Hosts \X Channels \X Nat /\ giveBack \subseteq Hosts \X Channels \X Nat
    /\ check \in [Hosts -> [Channels -> CheckRow]]
    /\ \A h \in Hosts, c \in Channels : st[h][c] = "on" => c \in reg[h]

\* Every variable keeps its type, with what RowsOK and EnginesOK say of the rows and
\* the registry.
TypeOK ==
    /\ RowsOK /\ HealthOK /\ EnginesOK
    /\ barred \subseteq Hosts /\ moves \subseteq Channels /\ watch \subseteq Channels
    /\ link \in [Hosts -> {"up", "cut", "down"}]
    /\ left \in [{"views", "events"} -> Nat]

\* Everything in the cluster that says "channel c, host h, generation g".
Claim(c, h, g) ==
    \/ row[c].host = h /\ row[c].gen = g
    \/ cache[c].host = h /\ cache[c].gen = g
    \/ req[c].host = h /\ req[c].gen = g
    \/ h \in Hosts /\ g \in {gens[h][c], start[h][c], check[h][c].new}

\* The fence: whatever is cached, forwarded, starting, running or being checked, a
\* generation of a channel belongs to one host only, ever.
OneHostPerGeneration ==
    \A c \in Channels, h1, h2 \in Hosts \union {None}, g \in 1..seq :
        Claim(c, h1, g) /\ Claim(c, h2, g) => h1 = h2

\* The placement of channels implements EncodeOnce: the row's host is the owner, its
\* generation the token, and a station that runs with that generation holds it.
Lease == INSTANCE EncodeOnce WITH
    owner   <- [c \in Channels |-> IF Active(row[c]) THEN row[c].host ELSE None],
    token   <- [c \in Channels |-> row[c].gen],
    holders <- [c \in Channels |-> {h \in Hosts : Active(row[c]) /\ st[h][c] = "on"
                                                   /\ gens[h][c] = row[c].gen}]
EncodesOnce == Lease!Spec

\* Two first requests, failovers, drains and moves at once never overfill a host.
WithinCapacity ==
    \A h \in Hosts : Cardinality({c \in Channels : Active(row[c]) /\ row[c].host = h}) <= Capacity[h]

\* A host that still encodes a channel placed elsewhere, or nowhere, stops, even with a
\* client attached to it, unless it cannot read the placements.
Superseded(h, c) == st[h][c] = "on" /\ ~Mine(h, c)
SupersededStops ==
    \A h \in Hosts, c \in Channels : Superseded(h, c) ~> ~Superseded(h, c) \/ link[h] = "cut"

\* A channel somebody keeps watching is served, again and again, by the host it is
\* placed on, or no host has room for it.
Served(c) == Active(row[c]) /\ st[row[c].host][c] = "on"
WatchedIsServed ==
    \A c \in Channels : <>[](c \in watch) => []<>(Served(c) \/ Room(c) = {})
=============================================================================
