-------------------------- MODULE RelayTunnels_proofs --------------------------
(*****************************************************************************)
(* Proofs about RelayTunnels, for any relays, tunnels, faults and moves.  The *)
(* argument: Up and Down of a relay run one at a time, so the tunnel a relay *)
(* installs is newer than the one it knew, and the server was recorded online *)
(* before; what goes down closed before; and the home has one tunnel that is *)
(* not draining, its latest, so no newer one can close it.                    *)
(*****************************************************************************)
EXTENDS RelayTunnels, TLAPS

\* Tunnels are made in order, and while nothing broke the home has the latest.
Ordered ==
    /\ \A t, u \in Tunnel : u \in Made /\ t < u => t \in Made
    /\ calm /\ home.cur # 0 => \A t \in Made : t =< home.cur

\* What is routed to, listed or asked over was installed there.
Known ==
    /\ \A r \in Relays : conns[r] # 0 => conns[r] \in Made /\ tun[conns[r]].relay = r
                                        /\ Installed(conns[r])
    /\ row # 0 => row \in Made
    /\ home.cur # 0 => home.cur \in Made
    /\ q.tun # 0 => q.tun \in Made /\ (Installed(q.tun) \/ tun[q.tun].stage = "gone")
    /\ q.pc \in Carried \cup {"serve"} => q.tun # 0

\* Up and Down run one at a time, and Up only for the newest.
Turns ==
    \A t \in Tunnel :
        /\ tun[t].stage \in {"marked", "listed"} => conns[tun[t].relay] < t
        /\ tun[t].stage = "left" => conns[tun[t].relay] = 0
        /\ \A u \in Tunnel : /\ tun[t].relay = tun[u].relay
                             /\ tun[t].stage \in {"marked", "listed", "left"}
                             /\ tun[u].stage \in {"marked", "listed", "left"}
                             => t = u

\* A tunnel goes down after it closed, and with its relay.
Closes ==
    \A t \in Tunnel :
        tun[t].stage \in {"none", "unlisted", "left", "gone"} \/ proc[tun[t].relay] = "down"
            => ~tun[t].open

\* A home that can move keeps one tunnel that is not draining, and what it was
\* asked is on an open one.
Working ==
    /\ home.moving => home.cur # 0 /\ Draining(home.cur)
    /\ \A t \in Tunnel : tun[t].drain = "idle" => ~modern
    /\ calm => \A t \in Tunnel : tun[t].open /\ tun[t].hopen /\ t # home.cur => Draining(t)
    /\ calm /\ modern /\ q.pc \in {"handled", "body"} => tun[q.tun].open /\ tun[q.tun].hopen

\* The server is recorded online before its tunnel is installed.
Recorded ==
    \A r \in Relays :
        /\ \A t \in Made : tun[t].relay = r
        /\ ~missed
        /\ conns[r] # 0 \/ \E t \in Tunnel : tun[t].stage \in {"marked", "listed"}
        => online

TunnelInv ==
    TypeOK /\ Ordered /\ Known /\ Turns /\ Closes /\ Working /\ Recorded

--------------------------------------------------------------------------------
(* Tunnels keep their type; what leaves the tunnels' stages and the rows       *)
(* alone leaves Recorded alone.                                                *)

LEMMA TunnelType ==
    ASSUME TypeOK, NEW t \in Tunnel
    PROVE  /\ tun[t] \in Tunnels
           /\ \A s \in Stages : [tun[t] EXCEPT !.stage = s] \in Tunnels
           /\ [tun[t] EXCEPT !.open = FALSE] \in Tunnels
           /\ [tun[t] EXCEPT !.hopen = FALSE] \in Tunnels
           /\ [tun[t] EXCEPT !.drain = "asked"] \in Tunnels
           /\ [tun[t] EXCEPT !.drain = "idle"] \in Tunnels
           /\ [tun[t] EXCEPT !.open = FALSE, !.stage = "gone"] \in Tunnels
<1>1. tun[t] \in Tunnels
    BY DEF TypeOK
<1>2. \A s \in Stages : [tun[t] EXCEPT !.stage = s] \in Tunnels
    BY <1>1 DEF Tunnels
<1>3. [tun[t] EXCEPT !.open = FALSE] \in Tunnels /\ [tun[t] EXCEPT !.hopen = FALSE] \in Tunnels
    BY <1>1 DEF Tunnels
<1>4. [tun[t] EXCEPT !.drain = "asked"] \in Tunnels /\ [tun[t] EXCEPT !.drain = "idle"] \in Tunnels
    BY <1>1 DEF Tunnels
<1>5. [tun[t] EXCEPT !.open = FALSE, !.stage = "gone"] \in Tunnels
    BY <1>1 DEF Tunnels, Stages
<1>. QED
    BY <1>1, <1>2, <1>3, <1>4, <1>5

LEMMA FaultType ==
    ASSUME TypeOK, Wrote \/ NotWritten
    PROVE  missed' \in BOOLEAN /\ faults' \in 0..MaxFaults
<1>1. missed' \in BOOLEAN
  <2>1. missed \in BOOLEAN
    BY DEF TypeOK
  <2>2. missed' = missed \/ missed' = TRUE
    BY DEF Wrote, NotWritten
  <2>. QED
    BY <2>1, <2>2
<1>2. faults' \in 0..MaxFaults
    BY Bounds DEF TypeOK, Wrote, NotWritten, Fault
<1>. QED
    BY <1>1, <1>2

LEMMA StageKept ==
    ASSUME Recorded, conns' = conns, online' = online, missed' = missed,
           \A t \in Tunnel : tun'[t].stage = tun[t].stage /\ tun'[t].relay = tun[t].relay
    PROVE  Recorded'
BY DEF Recorded, Made

\* What a step may do to the two ends of the tunnels: close them, or drain them.
EndsOnly ==
    \A u \in Tunnel :
        /\ tun'[u].relay = tun[u].relay /\ tun'[u].stage = tun[u].stage
        /\ tun'[u].open => tun[u].open
        /\ tun'[u].hopen => tun[u].hopen
        /\ tun'[u].drain # tun[u].drain =>
               tun'[u].drain = "asked" \/ (tun'[u].drain = "idle" /\ ~modern)

\* The home keeps its tunnel, or lets go of it.
HomeOnly ==
    /\ home'.cur # home.cur => home'.cur = 0 /\ ~tun'[home.cur].hopen
    /\ home'.moving => home.moving /\ home'.cur = home.cur

\* Such a step keeps the invariant, if no answer under way loses its tunnel.
LEMMA EndsKept ==
    ASSUME TunnelInv, TypeOK', EndsOnly, HomeOnly,
           UNCHANGED <<conns, row, online, proc, modern, q, missed>>, calm' => calm,
           calm' /\ modern /\ q.pc \in {"handled", "body"} => tun'[q.tun].open /\ tun'[q.tun].hopen
    PROVE  TunnelInv'
<1>1. Made' = Made /\ \A u \in Tunnel : (Installed(u)' <=> Installed(u)) /\ (Draining(u) => Draining(u)')
    BY DEF EndsOnly, Made, Installed, Draining
<1>2. Made \subseteq Tunnel
    BY DEF Made
<1>3. Ordered'
    BY <1>1 DEF TunnelInv, Ordered, HomeOnly
<1>4. Known'
  <2>1. \A r \in Relays : conns[r] # 0 => conns[r] \in Made /\ tun'[conns[r]].relay = r
                                          /\ Installed(conns[r])'
    BY <1>1, <1>2 DEF TunnelInv, Known, EndsOnly
  <2>2. q.tun # 0 => q.tun \in Made /\ (Installed(q.tun)' \/ tun'[q.tun].stage = "gone")
    BY <1>1, <1>2 DEF TunnelInv, Known, EndsOnly
  <2>3. home'.cur # 0 => home'.cur \in Made
    BY DEF TunnelInv, Known, HomeOnly
  <2>. QED
    BY <1>1, <2>1, <2>2, <2>3 DEF TunnelInv, Known, Installed
<1>5. Turns'
    BY DEF TunnelInv, Turns, EndsOnly
<1>6. Closes'
    BY DEF TunnelInv, Closes, EndsOnly
<1>7. Working'
  <2>1. home'.moving => home'.cur # 0 /\ Draining(home.cur)'
    BY <1>1, <1>2 DEF TunnelInv, Working, Known, HomeOnly
  <2>2. \A u \in Tunnel : tun'[u].drain = "idle" => ~modern
    BY DEF TunnelInv, Working, EndsOnly
  <2>3. calm' => \A u \in Tunnel : tun'[u].open /\ tun'[u].hopen /\ u # home'.cur => Draining(u)'
    BY <1>1 DEF TunnelInv, Working, EndsOnly, HomeOnly
  <2>. QED
    BY <2>1, <2>2, <2>3 DEF Working, Draining
<1>8. Recorded'
    BY StageKept DEF TunnelInv, EndsOnly
<1>. QED
    BY <1>3, <1>4, <1>5, <1>6, <1>7, <1>8 DEF TunnelInv

LEMMA ClosedEnds ==
    ASSUME TypeOK, NEW t \in Tunnel, tun' = Closed(t)
    PROVE  /\ tun' \in [Tunnel -> Tunnels] /\ EndsOnly
           /\ \A u \in Tunnel : tun'[u].hopen = tun[u].hopen /\ (u # t => tun'[u] = tun[u])
<1>1. tun \in [Tunnel -> Tunnels] /\ [tun[t] EXCEPT !.open = FALSE] \in Tunnels
    BY TunnelType DEF TypeOK
<1>2. tun' = [tun EXCEPT ![t] = [tun[t] EXCEPT !.open = FALSE]]
    BY <1>1 DEF Closed
<1>. QED
    BY <1>1, <1>2 DEF Tunnels, EndsOnly

LEMMA LetsGo ==
    ASSUME TypeOK, NEW t \in Tunnel, HomeLets(t)
    PROVE  /\ tun' \in [Tunnel -> Tunnels] /\ EndsOnly /\ HomeOnly
           /\ home' \in [cur : 0..MaxTunnels, old : SUBSET Tunnel, moving : BOOLEAN]
           /\ \A u \in Tunnel : tun'[u].open = tun[u].open /\ (u # t => tun'[u] = tun[u])
<1>1. tun \in [Tunnel -> Tunnels] /\ [tun[t] EXCEPT !.hopen = FALSE] \in Tunnels
    BY TunnelType DEF TypeOK
<1>2. tun' = [tun EXCEPT ![t] = [tun[t] EXCEPT !.hopen = FALSE]]
    BY <1>1 DEF HomeLets
<1>3. home \in [cur : 0..MaxTunnels, old : SUBSET Tunnel, moving : BOOLEAN]
    BY DEF TypeOK
<1>4. home' = IF t = home.cur THEN [home EXCEPT !.cur = 0, !.moving = FALSE]
                              ELSE [home EXCEPT !.old = @ \ {t}]
    BY DEF HomeLets
<1>5. 0 \in 0..MaxTunnels /\ home.old \ {t} \subseteq Tunnel
    BY <1>3, Bounds
<1>6. home' \in [cur : 0..MaxTunnels, old : SUBSET Tunnel, moving : BOOLEAN]
    BY <1>3, <1>4, <1>5
<1>7. HomeOnly
    BY <1>1, <1>2, <1>3, <1>4 DEF HomeOnly, Tunnels
<1>. QED
    BY <1>1, <1>2, <1>6, <1>7 DEF Tunnels, EndsOnly

\* A step of the request that leaves the tunnels and the records alone.
LEMMA RequestKept ==
    ASSUME TunnelInv, UNCHANGED <<tun, conns, row, online, relay, home, modern, ghosts>>,
           q' \in Requests, cache' \in [Relays -> SUBSET (0..MaxTunnels)],
           q'.tun \in {0, q.tun, conns[q.at]},
           q'.pc \in Carried \cup {"serve"} => q'.tun # 0,
           q'.pc \in {"handled", "body"} => tun[q'.tun].open /\ tun[q'.tun].hopen
    PROVE  TunnelInv'
<1>1. TypeOK'
    BY DEF TunnelInv, TypeOK, relay, ghosts
<1>2. Ordered' /\ Turns' /\ Closes' /\ Recorded'
    BY DEF TunnelInv, Ordered, Turns, Closes, Recorded, Made, relay, ghosts
<1>3. Known'
  <2>1. q.at \in Relays
    BY DEF TunnelInv, TypeOK, Requests
  <2>. QED
    BY <2>1 DEF TunnelInv, Known, Made, Installed
<1>4. Working'
    BY DEF TunnelInv, Working, Draining, ghosts
<1>. QED
    BY <1>1, <1>2, <1>3, <1>4 DEF TunnelInv

LEMMA HomeSeesKeeps ==
    ASSUME TunnelInv, NEW t \in Tunnel, HomeSees(t)
    PROVE  TunnelInv'
<1>1. HomeLets(t) /\ ~tun[t].open /\ UNCHANGED <<routing, relay, modern, q, missed, faults, moves>>
    BY DEF HomeSees, ghosts
<1>2. /\ tun' \in [Tunnel -> Tunnels] /\ EndsOnly /\ HomeOnly
      /\ home' \in [cur : 0..MaxTunnels, old : SUBSET Tunnel, moving : BOOLEAN]
      /\ \A u \in Tunnel : u # t => tun'[u] = tun[u]
    BY <1>1, LetsGo DEF TunnelInv
<1>3. calm' \in BOOLEAN /\ (calm' => calm)
    BY DEF HomeSees, ghosts, TunnelInv, TypeOK
<1>4. TypeOK'
    BY <1>1, <1>2, <1>3 DEF TunnelInv, TypeOK, routing, relay
<1>5. calm' /\ modern /\ q.pc \in {"handled", "body"} => tun'[q.tun].open /\ tun'[q.tun].hopen
  <2>. SUFFICES ASSUME calm', modern, q.pc \in {"handled", "body"}
                PROVE  tun'[q.tun].open /\ tun'[q.tun].hopen
    OBVIOUS
  <2>1. q.tun \in Tunnel /\ tun[q.tun].open /\ tun[q.tun].hopen
    BY <1>3 DEF TunnelInv, Known, Working, Made, Carried
  <2>2. q.tun # t
    BY <1>1, <2>1
  <2>. QED
    BY <1>2, <2>1, <2>2
<1>. QED
    BY <1>1, <1>2, <1>3, <1>4, <1>5, EndsKept DEF routing, relay

LEMMA FinishDrainedKeeps ==
    ASSUME TunnelInv, NEW t \in Tunnel, FinishDrained(t)
    PROVE  TunnelInv'
<1>1. HomeLets(t) /\ ~Active(t) /\ UNCHANGED <<routing, relay, modern, q, missed, faults, moves>>
    BY DEF FinishDrained, ghosts
<1>2. /\ tun' \in [Tunnel -> Tunnels] /\ EndsOnly /\ HomeOnly
      /\ home' \in [cur : 0..MaxTunnels, old : SUBSET Tunnel, moving : BOOLEAN]
      /\ \A u \in Tunnel : u # t => tun'[u] = tun[u]
    BY <1>1, LetsGo DEF TunnelInv
<1>3. calm' \in BOOLEAN /\ (calm' => calm)
    BY DEF FinishDrained, ghosts, TunnelInv, TypeOK
<1>4. TypeOK'
    BY <1>1, <1>2, <1>3 DEF TunnelInv, TypeOK, routing, relay
<1>5. calm' /\ modern /\ q.pc \in {"handled", "body"} => tun'[q.tun].open /\ tun'[q.tun].hopen
  <2>. SUFFICES ASSUME calm', modern, q.pc \in {"handled", "body"}
                PROVE  tun'[q.tun].open /\ tun'[q.tun].hopen
    OBVIOUS
  <2>1. q.tun \in Tunnel /\ tun[q.tun].open /\ tun[q.tun].hopen
    BY <1>3 DEF TunnelInv, Known, Working, Made, Carried
  <2>2. q.tun # t
    BY <1>1, <2>1 DEF Active
  <2>. QED
    BY <1>2, <2>1, <2>2
<1>. QED
    BY <1>1, <1>2, <1>3, <1>4, <1>5, EndsKept DEF routing, relay

LEMMA HomeDeadlineKeeps ==
    ASSUME TunnelInv, NEW t \in Tunnel, HomeDeadline(t)
    PROVE  TunnelInv'
<1>1. HomeLets(t) /\ calm' = FALSE /\ UNCHANGED <<routing, relay, modern, q, missed, faults, moves>>
    BY DEF HomeDeadline, ghosts
<1>2. /\ tun' \in [Tunnel -> Tunnels] /\ EndsOnly /\ HomeOnly
      /\ home' \in [cur : 0..MaxTunnels, old : SUBSET Tunnel, moving : BOOLEAN]
      /\ \A u \in Tunnel : u # t => tun'[u] = tun[u]
    BY <1>1, LetsGo DEF TunnelInv
<1>3. calm' \in BOOLEAN /\ (calm' => calm)
    BY DEF HomeDeadline, ghosts, TunnelInv, TypeOK
<1>4. TypeOK'
    BY <1>1, <1>2, <1>3 DEF TunnelInv, TypeOK, routing, relay
<1>5. calm' /\ modern /\ q.pc \in {"handled", "body"} => tun'[q.tun].open /\ tun'[q.tun].hopen
    BY <1>1
<1>. QED
    BY <1>1, <1>2, <1>3, <1>4, <1>5, EndsKept DEF routing, relay

LEMMA StaleKeeps ==
    ASSUME TunnelInv, NEW t \in Tunnel, Stale(t)
    PROVE  TunnelInv'
<1>1. TypeOK'
  <2>1. tun \in [Tunnel -> Tunnels] /\ [tun[t] EXCEPT !.open = FALSE, !.stage = "gone"] \in Tunnels
    BY TunnelType DEF TunnelInv, TypeOK
  <2>2. tun' = [tun EXCEPT ![t] = [tun[t] EXCEPT !.open = FALSE, !.stage = "gone"]]
    BY <2>1 DEF Stale
  <2>3. UNCHANGED <<routing, relay, home, modern, q, ghosts>>
    BY DEF Stale
  <2>. QED
    BY <2>1, <2>2, <2>3 DEF TunnelInv, TypeOK, routing, relay, ghosts
<1>0. /\ \A u \in Tunnel : /\ tun'[u].relay = tun[u].relay /\ tun'[u].drain = tun[u].drain
                           /\ tun'[u].hopen = tun[u].hopen
                           /\ u # t => tun'[u].stage = tun[u].stage /\ tun'[u].open = tun[u].open
      /\ tun[t].stage = "made" /\ tun'[t].stage = "gone" /\ ~tun'[t].open
      /\ UNCHANGED <<conns, row, online, proc, home, modern, q, calm, missed>>
  <2>1. tun \in [Tunnel -> Tunnels] /\ tun[t].stage = "made"
    BY DEF TunnelInv, TypeOK, Stale
  <2>2. tun' = [tun EXCEPT ![t] = [tun[t] EXCEPT !.open = FALSE, !.stage = "gone"]]
    BY <2>1 DEF Stale
  <2>3. UNCHANGED <<conns, row, online, proc, home, modern, q, calm, missed>>
    BY DEF Stale, routing, relay, ghosts
  <2>. QED
    BY ONLY <2>1, <2>2, <2>3, t \in Tunnel DEF Tunnels
<1>f. Made' = Made /\ Made \subseteq Tunnel
  BY ONLY <1>0 DEF Made
<1>2. Ordered'
  BY ONLY <1>0, <1>f, TunnelInv DEF TunnelInv, Ordered
<1>3. Known'
  <2>1. \A u \in Tunnel : (Installed(u) => Installed(u)') /\ (tun[u].stage = "gone" => tun'[u].stage = "gone")
    BY ONLY <1>0 DEF Installed
  <2>. QED
    BY ONLY <1>0, <1>f, <2>1, TunnelInv DEF TunnelInv, Known
<1>4. Turns'
  BY ONLY <1>0, TunnelInv, t \in Tunnel DEF TunnelInv, Turns
<1>5. Closes'
  BY ONLY <1>0, TunnelInv, t \in Tunnel DEF TunnelInv, Closes
<1>6. Working'
  <2>1. home.cur # 0 => home.cur \in Tunnel
    BY DEF TunnelInv, Known, Made
  <2>2. q.pc \in {"handled", "body"} => q.tun \in Tunnel /\ q.tun # t
    BY <1>0 DEF TunnelInv, Known, Made, Carried, Installed
  <2>. QED
    BY ONLY <1>0, <2>1, <2>2, TunnelInv DEF TunnelInv, Working, Draining
<1>7. Recorded'
  <2>1. \A u \in Tunnel : tun'[u].stage \in {"marked", "listed"} => tun[u].stage \in {"marked", "listed"}
    BY ONLY <1>0
  <2>. QED
    BY ONLY <1>0, <1>f, <2>1, TunnelInv DEF TunnelInv, Recorded
<1>. QED
  BY ONLY <1>1, <1>2, <1>3, <1>4, <1>5, <1>6, <1>7 DEF TunnelInv

\* A tunnel that only moves to another stage keeps all the rest, as do the others.
LEMMA Staged ==
    ASSUME TypeOK, NEW t \in Tunnel, NEW s, Stage(t, s), s # "none", tun[t].stage # "none"
    PROVE  /\ \A u \in Tunnel : /\ tun'[u].relay = tun[u].relay /\ tun'[u].drain = tun[u].drain
                                /\ tun'[u].open = tun[u].open /\ tun'[u].hopen = tun[u].hopen
                                /\ u # t => tun'[u].stage = tun[u].stage
           /\ tun'[t].stage = s
           /\ Made' = Made
<1>1. tun \in [Tunnel -> Tunnels] /\ tun' = [tun EXCEPT ![t] = [tun[t] EXCEPT !.stage = s]]
  BY DEF TypeOK, Stage
<1>2. ASSUME NEW u \in Tunnel
      PROVE  /\ tun'[u].relay = tun[u].relay /\ tun'[u].drain = tun[u].drain
             /\ tun'[u].open = tun[u].open /\ tun'[u].hopen = tun[u].hopen
             /\ tun'[u].stage = IF u = t THEN s ELSE tun[u].stage
  BY <1>1 DEF Tunnels
<1>3. Made' = Made
  BY <1>2 DEF Made
<1>. QED
  BY <1>2, <1>3

LEMMA EnterKeeps ==
    ASSUME TunnelInv, NEW t \in Tunnel, Enter(t)
    PROVE  TunnelInv'
<1>1. TypeOK'
  <2>1. [tun[t] EXCEPT !.stage = "marked"] \in Tunnels
    BY TunnelType DEF TunnelInv, Stages
  <2>2. tun' \in [Tunnel -> Tunnels]
    BY <2>1 DEF TunnelInv, TypeOK, Enter, Up, Unlocked, Stage, Wrote, NotWritten, Fault, routing, relay, ghosts
  <2>3. missed' \in BOOLEAN /\ faults' \in 0..MaxFaults
    BY FaultType DEF TunnelInv, Enter
  <2>4. online' \in BOOLEAN /\ row' \in 0..MaxTunnels
    BY Bounds DEF TunnelInv, TypeOK, Tunnel, Enter, Up, Unlocked, Stage, Wrote, NotWritten, Fault, routing, relay, ghosts
  <2>5. cache' \in [Relays -> SUBSET (0..MaxTunnels)]
    BY DEF TunnelInv, TypeOK, Enter, Up, Unlocked, Stage, Wrote, NotWritten, Fault, routing, relay, ghosts
  <2>. QED
    BY <2>2, <2>3, <2>4, <2>5 DEF TunnelInv, TypeOK, Enter, Up, Unlocked, Stage, Wrote, NotWritten, Fault, routing, relay, ghosts
<1>0. /\ \A u \in Tunnel : /\ tun'[u].relay = tun[u].relay /\ tun'[u].drain = tun[u].drain
                           /\ tun'[u].open = tun[u].open /\ tun'[u].hopen = tun[u].hopen
                           /\ u # t => tun'[u].stage = tun[u].stage
      /\ tun'[t].stage = "marked" /\ Made' = Made
      /\ UNCHANGED <<conns, row, proc, home, modern, q, calm>>
  <2>1. /\ Stage(t, "marked") /\ tun[t].stage # "none" /\ TypeOK
        /\ UNCHANGED <<conns, row, proc, home, modern, q, calm>>
    BY DEF TunnelInv, Enter, relay
  <2>. QED
    BY ONLY <2>1, Staged, t \in Tunnel
<1>e. /\ tun[t].stage = "made" /\ Up(tun[t].relay) /\ Unlocked(tun[t].relay)
      /\ tun[t].open /\ conns[tun[t].relay] < t
      /\ (online' = TRUE \/ (online' = online /\ missed' = TRUE)) /\ (missed => missed')
  BY DEF Enter, Wrote, NotWritten
<1>2. Ordered'
  BY ONLY <1>0, TunnelInv DEF TunnelInv, Ordered
<1>3. Known'
  <2>1. \A u \in Tunnel : (Installed(u) \/ tun[u].stage = "gone") => tun'[u].stage = tun[u].stage
    BY ONLY <1>0, <1>e DEF Installed
  <2>2. \A u \in Tunnel : Installed(u) => Installed(u)'
    BY ONLY <2>1 DEF Installed
  <2>3. Made \subseteq Tunnel
    BY ONLY TRUE DEF Made
  <2>. QED
    BY ONLY <1>0, <2>1, <2>2, <2>3, TunnelInv DEF TunnelInv, Known
<1>4. Turns'
  <2>1. \A u \in Tunnel : u # t /\ tun[u].relay = tun[t].relay => tun[u].stage \notin {"marked", "listed", "left"}
    BY ONLY <1>e DEF Unlocked
  <2>. QED
    BY ONLY <1>0, <1>e, <2>1, TunnelInv DEF TunnelInv, Turns
<1>5. Closes'
  BY ONLY <1>0, <1>e, TunnelInv, t \in Tunnel DEF TunnelInv, Closes, Up
<1>6. Working'
  <2>1. /\ home.cur # 0 => home.cur \in Tunnel
        /\ q.pc \in {"handled", "body"} => q.tun \in Tunnel
    BY DEF TunnelInv, Known, Made, Carried
  <2>. QED
    BY ONLY <1>0, <2>1, TunnelInv DEF TunnelInv, Working, Draining
<1>7. Recorded'
  <2>1. Made \subseteq Tunnel /\ t \in Made
    BY ONLY <1>e, t \in Tunnel DEF Made
  <2>. QED
    BY ONLY <1>0, <1>e, <2>1, TunnelInv DEF TunnelInv, Recorded
<1>. QED
  BY ONLY <1>1, <1>2, <1>3, <1>4, <1>5, <1>6, <1>7 DEF TunnelInv

LEMMA ListKeeps ==
    ASSUME TunnelInv, NEW t \in Tunnel, List(t)
    PROVE  TunnelInv'
<1>1. TypeOK'
  <2>1. [tun[t] EXCEPT !.stage = "listed"] \in Tunnels
    BY TunnelType DEF TunnelInv, Stages
  <2>2. tun' \in [Tunnel -> Tunnels]
    BY <2>1 DEF TunnelInv, TypeOK, List, Up, Stage, Wrote, NotWritten, Fault, routing, relay, ghosts
  <2>3. missed' \in BOOLEAN /\ faults' \in 0..MaxFaults
    BY FaultType DEF TunnelInv, List
  <2>4. online' \in BOOLEAN /\ row' \in 0..MaxTunnels
    BY Bounds DEF TunnelInv, TypeOK, Tunnel, List, Up, Stage, Wrote, NotWritten, Fault, routing, relay, ghosts
  <2>5. cache' \in [Relays -> SUBSET (0..MaxTunnels)]
    BY DEF TunnelInv, TypeOK, List, Up, Stage, Wrote, NotWritten, Fault, routing, relay, ghosts
  <2>. QED
    BY <2>2, <2>3, <2>4, <2>5 DEF TunnelInv, TypeOK, List, Up, Stage, Wrote, NotWritten, Fault, routing, relay, ghosts
<1>0. /\ \A u \in Tunnel : /\ tun'[u].relay = tun[u].relay /\ tun'[u].drain = tun[u].drain
                           /\ tun'[u].open = tun[u].open /\ tun'[u].hopen = tun[u].hopen
                           /\ u # t => tun'[u].stage = tun[u].stage
      /\ tun'[t].stage = "listed" /\ Made' = Made
      /\ UNCHANGED <<conns, home, modern, q, calm>>
  <2>1. /\ Stage(t, "listed") /\ tun[t].stage # "none" /\ TypeOK
        /\ UNCHANGED <<conns, home, modern, q, calm>>
    BY DEF TunnelInv, List
  <2>. QED
    BY ONLY <2>1, Staged, t \in Tunnel
<1>2. Ordered'
  BY ONLY <1>0, TunnelInv DEF TunnelInv, Ordered
<1>4. Turns'
  <2>1. tun[t].stage = "marked"
    BY DEF List
  <2>2. \A u \in Tunnel : /\ tun'[u].stage \in {"marked", "listed"} => tun[u].stage \in {"marked", "listed"}
                          /\ tun'[u].stage = "left" => tun[u].stage = "left"
    BY <1>0, <2>1
  <2>. QED
    BY ONLY <1>0, <2>2, TunnelInv DEF TunnelInv, Turns
<1>e. /\ tun[t].stage = "marked" /\ proc[tun[t].relay] # "down" /\ proc' = proc
      /\ (row' = row \/ row' = t) /\ online' = online /\ (missed => missed')
  BY DEF List, Up, Wrote, NotWritten, relay
<1>f. t \in Made /\ Made \subseteq Tunnel
  BY ONLY <1>e, t \in Tunnel DEF Made
<1>3. Known'
  <2>1. \A u \in Tunnel : (Installed(u) \/ tun[u].stage = "gone") => tun'[u].stage = tun[u].stage
    BY ONLY <1>0, <1>e DEF Installed
  <2>2. \A u \in Tunnel : Installed(u) => Installed(u)'
    BY ONLY <2>1 DEF Installed
  <2>3. row' # 0 => row' \in Made
    BY ONLY <1>e, <1>f, TunnelInv DEF TunnelInv, Known
  <2>. QED
    BY ONLY <1>0, <1>f, <2>1, <2>2, <2>3, TunnelInv DEF TunnelInv, Known
<1>5. Closes'
  BY ONLY <1>0, <1>e, TunnelInv, t \in Tunnel DEF TunnelInv, Closes
<1>6. Working'
  <2>1. /\ home.cur # 0 => home.cur \in Tunnel
        /\ q.pc \in {"handled", "body"} => q.tun \in Tunnel
    BY DEF TunnelInv, Known, Made, Carried
  <2>. QED
    BY ONLY <1>0, <2>1, TunnelInv DEF TunnelInv, Working, Draining
<1>7. Recorded'
  BY ONLY <1>0, <1>e, <1>f, TunnelInv DEF TunnelInv, Recorded
<1>. QED
  BY ONLY <1>1, <1>2, <1>3, <1>4, <1>5, <1>6, <1>7 DEF TunnelInv

LEMMA InstallKeeps ==
    ASSUME TunnelInv, NEW t \in Tunnel, Install(t)
    PROVE  TunnelInv'
<1>. DEFINE r == tun[t].relay
<1>0. /\ r \in Relays /\ tun[t].stage = "listed"
      /\ UNCHANGED <<row, cache, online, relay, home, modern, q, ghosts>>
    BY DEF TunnelInv, TypeOK, Tunnels, Install
<1>a. conns' = [conns EXCEPT ![r] = t]
    BY DEF Install
<1>b. tun' = [p \in Tunnel |-> IF p = t THEN [tun[t] EXCEPT !.stage = "up"]
                               ELSE IF p = conns[r] /\ ~Draining(p) THEN [tun[p] EXCEPT !.open = FALSE]
                               ELSE tun[p]]
    BY DEF Install
<1>c. \A p \in Tunnel : /\ tun'[p].relay = tun[p].relay /\ tun'[p].hopen = tun[p].hopen
                        /\ tun'[p].drain = tun[p].drain
                        /\ p # t => tun'[p].stage = tun[p].stage
                        /\ tun'[p].open => tun[p].open
                        /\ ~tun'[p].open /\ tun[p].open => p = conns[r] /\ ~Draining(p) /\ p # t
  <2>1. SUFFICES ASSUME NEW p \in Tunnel
                 PROVE  /\ tun'[p].relay = tun[p].relay /\ tun'[p].hopen = tun[p].hopen
                        /\ tun'[p].drain = tun[p].drain
                        /\ p # t => tun'[p].stage = tun[p].stage
                        /\ tun'[p].open => tun[p].open
                        /\ ~tun'[p].open /\ tun[p].open => p = conns[r] /\ ~Draining(p) /\ p # t
    OBVIOUS
  <2>2. tun[p] \in Tunnels
    BY DEF TunnelInv, TypeOK
  <2>. HIDE DEF r
  <2>3. CASE p = t
    BY <1>b, <2>2, <2>3 DEF Tunnels
  <2>4. CASE p # t /\ p = conns[r] /\ ~Draining(p)
    BY <1>b, <2>2, <2>4 DEF Tunnels
  <2>5. CASE p # t /\ ~(p = conns[r] /\ ~Draining(p))
    BY <1>b, <2>5
  <2>. QED
    BY <2>3, <2>4, <2>5
<1>d. tun'[t].stage = "up" /\ tun'[t].open = tun[t].open
    BY <1>b DEF TunnelInv, TypeOK, Tunnels
<1>e. \A p \in Relays : conns'[p] = IF p = r THEN t ELSE conns[p]
    BY <1>a DEF TunnelInv, TypeOK
<1>1. TypeOK'
  <2>1. \A p \in Tunnel : [tun[p] EXCEPT !.stage = "up"] \in Tunnels
                          /\ [tun[p] EXCEPT !.open = FALSE] \in Tunnels /\ tun[p] \in Tunnels
    BY TunnelType DEF TunnelInv, Stages
  <2>2. tun' \in [Tunnel -> Tunnels]
    BY <1>b, <2>1
  <2>3. conns' \in [Relays -> 0..MaxTunnels]
    BY <1>0, <1>a, Bounds DEF TunnelInv, TypeOK, Tunnel
  <2>. QED
    BY <1>0, <2>2, <2>3 DEF TunnelInv, TypeOK, relay, ghosts
<1>f. Made' = Made
    BY <1>0, <1>c, <1>d DEF Made
<1>. HIDE DEF r
<1>2. Ordered'
    BY <1>0, <1>f DEF TunnelInv, Ordered, ghosts
<1>3. Known'
    BY <1>0, <1>c, <1>d, <1>e, <1>f DEF TunnelInv, Known, Made, Installed, Carried, r
<1>4. Turns'
  <2>1. \A u \in Tunnel : tun[u].relay \in Relays
    BY DEF TunnelInv, TypeOK, Tunnels
  <2>2. \A u \in Tunnel : tun[u].relay = r /\ u # t => tun[u].stage \notin {"marked", "listed", "left"}
    BY <1>0 DEF TunnelInv, Turns, r
  <2>. QED
    BY <1>0, <1>c, <1>d, <1>e, <2>1, <2>2 DEF TunnelInv, Turns, r
<1>5. Closes'
    BY <1>0, <1>c, <1>d DEF TunnelInv, Closes, relay
<1>6. Working'
  <2>1. ASSUME calm, modern, q.pc \in {"handled", "body"}
        PROVE  tun'[q.tun].open
    <3>1. q.tun \in Tunnel /\ tun[q.tun].open /\ tun[q.tun].hopen
        BY <2>1 DEF TunnelInv, Known, Working, Made, Carried
    <3>2. SUFFICES ASSUME q.tun = conns[r], ~Draining(q.tun), q.tun # t PROVE FALSE
        BY <1>c, <3>1
    <3>3. home.cur = q.tun
        BY <2>1, <3>1, <3>2 DEF TunnelInv, Working
    <3>4. t =< home.cur
        BY <1>0, <2>1, <3>1, <3>3, Bounds DEF TunnelInv, Ordered, Made, Tunnel
    <3>5. conns[r] < t
        BY <1>0 DEF TunnelInv, Turns, r
    <3>. QED
        BY <3>1, <3>2, <3>3, <3>4, <3>5, Bounds DEF Tunnel
  <2>. QED
    BY <1>0, <1>c, <2>1 DEF TunnelInv, Working, Known, Made, Draining, Carried, ghosts
<1>7. Recorded'
  <2>1. \A u \in Tunnel : tun'[u].stage \in {"marked", "listed"} => tun[u].stage \in {"marked", "listed"}
    BY <1>c, <1>d
  <2>2. \A u \in Made : tun'[u].relay = tun[u].relay
    BY <1>c DEF Made
  <2>3. SUFFICES ASSUME NEW p \in Relays, \A u \in Made : tun[u].relay = p, ~missed,
                        conns'[p] # 0 \/ \E u \in Tunnel : tun'[u].stage \in {"marked", "listed"}
                 PROVE  online
    BY <1>0, <1>f, <2>2 DEF Recorded, ghosts
  <2>4. conns[p] # 0 \/ \E u \in Tunnel : tun[u].stage \in {"marked", "listed"}
    BY <1>0, <1>e, <2>1, <2>3
  <2>. QED
    BY <2>3, <2>4 DEF TunnelInv, Recorded
<1>. QED
    BY <1>1, <1>2, <1>3, <1>4, <1>5, <1>6, <1>7 DEF TunnelInv

LEMMA UnlistKeeps ==
    ASSUME TunnelInv, NEW t \in Tunnel, Unlist(t)
    PROVE  TunnelInv'
<1>1. TypeOK'
  <2>1. [tun[t] EXCEPT !.stage = "unlisted"] \in Tunnels
    BY TunnelType DEF TunnelInv, Stages
  <2>2. tun' \in [Tunnel -> Tunnels]
    BY <2>1 DEF TunnelInv, TypeOK, Unlist, Up, Stage, Wrote, NotWritten, Fault, routing, relay, ghosts
  <2>3. missed' \in BOOLEAN /\ faults' \in 0..MaxFaults
    BY FaultType DEF TunnelInv, Unlist
  <2>4. online' \in BOOLEAN /\ row' \in 0..MaxTunnels
    BY Bounds DEF TunnelInv, TypeOK, Tunnel, Unlist, Up, Stage, Wrote, NotWritten, Fault, routing, relay, ghosts
  <2>5. cache' \in [Relays -> SUBSET (0..MaxTunnels)]
    BY DEF TunnelInv, TypeOK, Unlist, Up, Stage, Wrote, NotWritten, Fault, routing, relay, ghosts
  <2>. QED
    BY <2>2, <2>3, <2>4, <2>5 DEF TunnelInv, TypeOK, Unlist, Up, Stage, Wrote, NotWritten, Fault, routing, relay, ghosts
<1>0. /\ \A u \in Tunnel : /\ tun'[u].relay = tun[u].relay /\ tun'[u].drain = tun[u].drain
                           /\ tun'[u].open = tun[u].open /\ tun'[u].hopen = tun[u].hopen
                           /\ u # t => tun'[u].stage = tun[u].stage
      /\ tun'[t].stage = "unlisted" /\ Made' = Made
      /\ UNCHANGED <<conns, home, modern, q, calm>>
  <2>1. /\ Stage(t, "unlisted") /\ tun[t].stage # "none" /\ TypeOK
        /\ UNCHANGED <<conns, home, modern, q, calm>>
    BY DEF TunnelInv, Unlist
  <2>. QED
    BY ONLY <2>1, Staged, t \in Tunnel
<1>2. Ordered'
  BY ONLY <1>0, TunnelInv DEF TunnelInv, Ordered
<1>6. Working'
  <2>1. /\ home.cur # 0 => home.cur \in Tunnel
        /\ q.pc \in {"handled", "body"} => q.tun \in Tunnel
    BY DEF TunnelInv, Known, Made, Carried
  <2>. QED
    BY ONLY <1>0, <2>1, TunnelInv DEF TunnelInv, Working, Draining
<1>e. /\ tun[t].stage = "up" /\ ~tun[t].open /\ proc' = proc
      /\ (row' = row \/ row' = 0) /\ online' = online /\ (missed => missed')
  BY DEF Unlist, Wrote, NotWritten, relay
<1>f. t \in Made /\ Made \subseteq Tunnel
  BY ONLY <1>e, t \in Tunnel DEF Made
<1>3. Known'
  <2>1. \A u \in Tunnel : (Installed(u) => Installed(u)') /\ (tun[u].stage = "gone" => tun'[u].stage = "gone")
    BY ONLY <1>0, <1>e DEF Installed
  <2>. QED
    BY ONLY <1>0, <1>e, <1>f, <2>1, TunnelInv DEF TunnelInv, Known
<1>4. Turns'
  BY ONLY <1>0, TunnelInv, t \in Tunnel DEF TunnelInv, Turns
<1>5. Closes'
  BY ONLY <1>0, <1>e, TunnelInv, t \in Tunnel DEF TunnelInv, Closes
<1>7. Recorded'
  <2>1. \A u \in Tunnel : tun'[u].stage \in {"marked", "listed"} => tun[u].stage \in {"marked", "listed"}
    BY ONLY <1>0
  <2>. QED
    BY ONLY <1>0, <1>e, <1>f, <2>1, TunnelInv DEF TunnelInv, Recorded
<1>. QED
  BY ONLY <1>1, <1>2, <1>3, <1>4, <1>5, <1>6, <1>7 DEF TunnelInv

LEMMA LeaveKeeps ==
    ASSUME TunnelInv, NEW t \in Tunnel, Leave(t)
    PROVE  TunnelInv'
<1>0. /\ tun[t].relay \in Relays /\ tun[t].stage = "unlisted" /\ Unlocked(tun[t].relay)
      /\ row' = row /\ cache' = cache /\ online' = online /\ proc' = proc /\ todo' = todo
      /\ beats' = beats /\ home' = home /\ modern' = modern /\ q' = q /\ calm' = calm
      /\ missed' = missed /\ faults' = faults /\ moves' = moves
    BY DEF TunnelInv, TypeOK, Tunnels, Leave, relay, ghosts
<1>1. CASE conns[tun[t].relay] = t
  <2>1. conns' = [conns EXCEPT ![tun[t].relay] = 0] /\ tun' = [tun EXCEPT ![t].stage = "left"]
    BY <1>1 DEF Leave, Stage
  <2>2. [tun[t] EXCEPT !.stage = "left"] \in Tunnels
    BY TunnelType DEF TunnelInv, Stages
  <2>3. TypeOK'
    BY <1>0, <2>1, <2>2, Bounds DEF TunnelInv, TypeOK, routing, relay, ghosts
  <2>4. /\ \A u \in Tunnel : /\ tun'[u].relay = tun[u].relay /\ tun'[u].open = tun[u].open
                             /\ tun'[u].hopen = tun[u].hopen /\ tun'[u].drain = tun[u].drain
                             /\ u # t => tun'[u].stage = tun[u].stage
        /\ tun'[t].stage = "left"
        /\ \A p \in Relays : conns'[p] = (IF p = tun[t].relay THEN 0 ELSE conns[p])
    BY <1>0, <2>1 DEF TunnelInv, TypeOK, Tunnels
  <2>5. Ordered'
    BY <1>0, <2>4 DEF TunnelInv, Ordered, Made
  <2>6. Known'
    BY <1>0, <1>1, <2>4 DEF TunnelInv, Known, Made, Installed, Carried
  <2>7. Turns'
    <3>1. \A u \in Tunnel : tun[u].relay \in Relays
        BY DEF TunnelInv, TypeOK, Tunnels
    <3>2. \A u \in Tunnel : tun[u].relay = tun[t].relay => tun[u].stage \notin {"marked", "listed", "left"}
        BY <1>0 DEF Unlocked
    <3>. QED
        BY <1>0, <2>4, <3>1, <3>2 DEF TunnelInv, Turns
  <2>8. Closes'
    BY <1>0, <2>4 DEF TunnelInv, Closes
  <2>9. Working'
    BY <1>0, <2>4 DEF TunnelInv, Working, Known, Made, Draining, Carried
  <2>10. Recorded'
    <3>1. \A u \in Tunnel : tun'[u].stage \in {"marked", "listed"}
                             => tun[u].stage \in {"marked", "listed"}
        BY <1>0, <2>4
    <3>2. Made' = Made
        BY <1>0, <2>4 DEF Made
    <3>. QED
        BY <1>0, <2>4, <3>1, <3>2 DEF TunnelInv, Recorded, Made
  <2>. QED
    BY <2>3, <2>5, <2>6, <2>7, <2>8, <2>9, <2>10 DEF TunnelInv
<1>2. CASE conns[tun[t].relay] # t
  <2>1. conns' = conns /\ tun' = [tun EXCEPT ![t].stage = "gone"]
    BY <1>2 DEF Leave, Stage
  <2>2. [tun[t] EXCEPT !.stage = "gone"] \in Tunnels
    BY TunnelType DEF TunnelInv, Stages
  <2>3. TypeOK'
    BY <1>0, <2>1, <2>2, Bounds DEF TunnelInv, TypeOK, routing, relay, ghosts
  <2>4. /\ \A u \in Tunnel : /\ tun'[u].relay = tun[u].relay /\ tun'[u].open = tun[u].open
                             /\ tun'[u].hopen = tun[u].hopen /\ tun'[u].drain = tun[u].drain
                             /\ u # t => tun'[u].stage = tun[u].stage
        /\ tun'[t].stage = "gone"
        /\ conns' = conns
    BY <1>0, <2>1 DEF TunnelInv, TypeOK, Tunnels
  <2>5. Ordered'
    BY <1>0, <2>4 DEF TunnelInv, Ordered, Made
  <2>6. Known'
    BY <1>0, <1>2, <2>4 DEF TunnelInv, Known, Made, Installed, Carried
  <2>7. Turns'
    BY <1>0, <2>4, Bounds DEF TunnelInv, Turns, Unlocked, Tunnel
  <2>8. Closes'
    BY <1>0, <2>4 DEF TunnelInv, Closes
  <2>9. Working'
    BY <1>0, <2>4 DEF TunnelInv, Working, Known, Made, Draining, Carried
  <2>10. Recorded'
    <3>1. \A u \in Tunnel : tun'[u].stage \in {"marked", "listed"}
                             => tun[u].stage \in {"marked", "listed"}
        BY <1>0, <2>4
    <3>2. Made' = Made
        BY <1>0, <2>4 DEF Made
    <3>. QED
        BY <1>0, <2>4, <3>1, <3>2 DEF TunnelInv, Recorded, Made
  <2>. QED
    BY <2>3, <2>5, <2>6, <2>7, <2>8, <2>9, <2>10 DEF TunnelInv
<1>. QED
    BY <1>1, <1>2

LEMMA RecordOfflineKeeps ==
    ASSUME TunnelInv, NEW t \in Tunnel, RecordOffline(t)
    PROVE  TunnelInv'
<1>1. TypeOK'
  <2>1. [tun[t] EXCEPT !.stage = "gone"] \in Tunnels
    BY TunnelType DEF TunnelInv, Stages
  <2>2. tun' \in [Tunnel -> Tunnels]
    BY <2>1 DEF TunnelInv, TypeOK, RecordOffline, Up, Stage, Wrote, NotWritten, Fault, routing, relay, ghosts
  <2>3. missed' \in BOOLEAN /\ faults' \in 0..MaxFaults
    BY FaultType DEF TunnelInv, RecordOffline
  <2>4. online' \in BOOLEAN /\ row' \in 0..MaxTunnels
    BY Bounds DEF TunnelInv, TypeOK, Tunnel, RecordOffline, Up, Stage, Wrote, NotWritten, Fault, routing, relay, ghosts
  <2>5. cache' \in [Relays -> SUBSET (0..MaxTunnels)]
    BY DEF TunnelInv, TypeOK, RecordOffline, Up, Stage, Wrote, NotWritten, Fault, routing, relay, ghosts
  <2>. QED
    BY <2>2, <2>3, <2>4, <2>5 DEF TunnelInv, TypeOK, RecordOffline, Up, Stage, Wrote, NotWritten, Fault, routing, relay, ghosts
<1>0. /\ \A u \in Tunnel : /\ tun'[u].relay = tun[u].relay /\ tun'[u].drain = tun[u].drain
                           /\ tun'[u].open = tun[u].open /\ tun'[u].hopen = tun[u].hopen
                           /\ u # t => tun'[u].stage = tun[u].stage
      /\ tun'[t].stage = "gone" /\ Made' = Made
      /\ UNCHANGED <<conns, home, modern, q, calm>>
  <2>1. /\ Stage(t, "gone") /\ tun[t].stage # "none" /\ TypeOK
        /\ UNCHANGED <<conns, home, modern, q, calm>>
    BY DEF TunnelInv, RecordOffline
  <2>. QED
    BY ONLY <2>1, Staged, t \in Tunnel
<1>2. Ordered'
  BY ONLY <1>0, TunnelInv DEF TunnelInv, Ordered
<1>e. tun[t].stage = "left" /\ row' = row /\ proc' = proc
  BY DEF RecordOffline, relay
<1>f. Made \subseteq Tunnel
  BY ONLY TRUE DEF Made
<1>3. Known'
  <2>1. \A u \in Tunnel : (Installed(u) /\ u # t => Installed(u)') /\ (tun[u].stage = "gone" => tun'[u].stage = "gone")
    BY ONLY <1>0, <1>e DEF Installed
  <2>2. \A r \in Relays : conns[r] # t \/ t = 0
    BY <1>e DEF TunnelInv, Known, Turns
  <2>3. t # 0
    BY DEF Tunnel
  <2>. QED
    BY ONLY <1>0, <1>e, <1>f, <2>1, <2>2, <2>3, TunnelInv DEF TunnelInv, Known, Installed
<1>4. Turns'
  BY ONLY <1>0, TunnelInv, t \in Tunnel DEF TunnelInv, Turns
<1>5. Closes'
  BY ONLY <1>0, <1>e, TunnelInv, t \in Tunnel DEF TunnelInv, Closes
<1>6. Working'
  <2>1. /\ home.cur # 0 => home.cur \in Tunnel
        /\ q.pc \in {"handled", "body"} => q.tun \in Tunnel
    BY DEF TunnelInv, Known, Made, Carried
  <2>. QED
    BY ONLY <1>0, <2>1, TunnelInv DEF TunnelInv, Working, Draining
<1>7. Recorded'
  BY Bounds DEF TypeOK, Known, Turns, Closes, Ordered, Working, Recorded, TunnelInv, Tunnels, Made, Installed, RecordOffline, Up, Stage, Wrote, NotWritten, Fault, relay, ghosts, Tunnel
<1>. QED
  BY ONLY <1>1, <1>2, <1>3, <1>4, <1>5, <1>6, <1>7 DEF TunnelInv

LEMMA RelaySeesKeeps ==
    ASSUME TunnelInv, NEW t \in Tunnel, RelaySees(t)
    PROVE  TunnelInv'
<1>1. tun' = Closed(t) /\ ~tun[t].hopen
      /\ UNCHANGED <<routing, relay, home, modern, q, missed, faults, moves>>
    BY DEF RelaySees, ghosts
<1>2. /\ tun' \in [Tunnel -> Tunnels] /\ EndsOnly
      /\ \A u \in Tunnel : u # t => tun'[u] = tun[u]
    BY <1>1, ClosedEnds DEF TunnelInv
<1>3. calm' \in BOOLEAN /\ (calm' => calm)
    BY DEF RelaySees, ghosts, TunnelInv, TypeOK
<1>4. TypeOK' /\ HomeOnly
    BY <1>1, <1>2, <1>3 DEF TunnelInv, TypeOK, HomeOnly, routing, relay
<1>5. calm' /\ modern /\ q.pc \in {"handled", "body"} => tun'[q.tun].open /\ tun'[q.tun].hopen
  <2>. SUFFICES ASSUME calm', modern, q.pc \in {"handled", "body"}
                PROVE  tun'[q.tun].open /\ tun'[q.tun].hopen
    OBVIOUS
  <2>1. q.tun \in Tunnel /\ tun[q.tun].open /\ tun[q.tun].hopen
    BY <1>3 DEF TunnelInv, Known, Working, Made, Carried
  <2>2. q.tun # t
    BY <1>1, <2>1
  <2>. QED
    BY <1>2, <2>1, <2>2
<1>. QED
    BY <1>1, <1>2, <1>3, <1>4, <1>5, EndsKept DEF routing, relay

LEMMA IdleKeeps ==
    ASSUME TunnelInv, NEW t \in Tunnel, Idle(t)
    PROVE  TunnelInv'
<1>1. /\ tun' = [tun EXCEPT ![t].drain = "idle"] /\ ~modern
      /\ UNCHANGED <<routing, relay, home, modern, q, ghosts>>
    BY DEF Idle
<1>2. tun' \in [Tunnel -> Tunnels] /\ EndsOnly
  <2>1. tun \in [Tunnel -> Tunnels] /\ [tun[t] EXCEPT !.drain = "idle"] \in Tunnels
    BY TunnelType DEF TunnelInv, TypeOK
  <2>. QED
    BY <1>1, <2>1 DEF Tunnels, EndsOnly
<1>3. TypeOK' /\ HomeOnly
    BY <1>1, <1>2 DEF TunnelInv, TypeOK, HomeOnly, routing, relay, ghosts
<1>. QED
    BY <1>1, <1>2, <1>3, EndsKept DEF routing, relay, ghosts

LEMMA CloseIdleKeeps ==
    ASSUME TunnelInv, NEW t \in Tunnel, CloseIdle(t)
    PROVE  TunnelInv'
<1>1. tun' = Closed(t) /\ tun[t].drain = "idle"
      /\ UNCHANGED <<routing, relay, home, modern, q, missed, faults, moves>>
    BY DEF CloseIdle, ghosts
<1>2. /\ tun' \in [Tunnel -> Tunnels] /\ EndsOnly
      /\ \A u \in Tunnel : u # t => tun'[u] = tun[u]
    BY <1>1, ClosedEnds DEF TunnelInv
<1>3. calm' \in BOOLEAN /\ (calm' => calm)
    BY DEF CloseIdle, ghosts, TunnelInv, TypeOK
<1>4. TypeOK' /\ HomeOnly
    BY <1>1, <1>2, <1>3 DEF TunnelInv, TypeOK, HomeOnly, routing, relay
<1>5. calm' /\ modern /\ q.pc \in {"handled", "body"} => tun'[q.tun].open /\ tun'[q.tun].hopen
    BY <1>1 DEF TunnelInv, Working
<1>. QED
    BY <1>1, <1>2, <1>3, <1>4, <1>5, EndsKept DEF routing, relay

LEMMA DrainDeadlineKeeps ==
    ASSUME TunnelInv, NEW t \in Tunnel, DrainDeadline(t)
    PROVE  TunnelInv'
<1>1. tun' = Closed(t) /\ calm' = FALSE
      /\ UNCHANGED <<routing, relay, home, modern, q, missed, faults, moves>>
    BY DEF DrainDeadline, ghosts
<1>2. /\ tun' \in [Tunnel -> Tunnels] /\ EndsOnly
      /\ \A u \in Tunnel : u # t => tun'[u] = tun[u]
    BY <1>1, ClosedEnds DEF TunnelInv
<1>3. calm' \in BOOLEAN /\ (calm' => calm)
    BY DEF DrainDeadline, ghosts, TunnelInv, TypeOK
<1>4. TypeOK' /\ HomeOnly
    BY <1>1, <1>2, <1>3 DEF TunnelInv, TypeOK, HomeOnly, routing, relay
<1>5. calm' /\ modern /\ q.pc \in {"handled", "body"} => tun'[q.tun].open /\ tun'[q.tun].hopen
    BY <1>1
<1>. QED
    BY <1>1, <1>2, <1>3, <1>4, <1>5, EndsKept DEF routing, relay

LEMMA BreaksKeeps ==
    ASSUME TunnelInv, NEW t \in Tunnel, Breaks(t)
    PROVE  TunnelInv'
<1>1. /\ UNCHANGED <<routing, relay, modern, q, missed, moves>>
      /\ calm' = FALSE /\ Fault
    BY DEF Breaks
<1>2. faults' \in 0..MaxFaults
    BY <1>1, Bounds DEF TunnelInv, TypeOK, Fault
<1>3. /\ tun' \in [Tunnel -> Tunnels] /\ EndsOnly /\ HomeOnly
      /\ home' \in [cur : 0..MaxTunnels, old : SUBSET Tunnel, moving : BOOLEAN]
  <2>1. CASE tun' = Closed(t) /\ UNCHANGED home
    BY <2>1, ClosedEnds DEF TunnelInv, TypeOK, HomeOnly
  <2>2. CASE HomeLets(t)
    BY <2>2, LetsGo DEF TunnelInv
  <2>. QED
    BY <2>1, <2>2 DEF Breaks
<1>4. TypeOK'
    BY <1>1, <1>2, <1>3 DEF TunnelInv, TypeOK, routing, relay
<1>. QED
    BY <1>1, <1>3, <1>4, EndsKept DEF routing, relay

LEMMA DialKeeps ==
    ASSUME TunnelInv, NEW r \in Relays, Dial(r)
    PROVE  TunnelInv'
<1>1. TypeOK'
    BY Bounds DEF TunnelInv, TypeOK, Tunnels, Requests, Stages, Carried, Ended, Tunnel, Made, Installed, Draining, Dial, NewTunnel, Coming, routing, relay, ghosts
<1>. USE DEF TunnelInv, Tunnels, Requests, Stages, Carried, Ended, Tunnel, Made, Installed, Draining, Dial, NewTunnel, Coming, routing, relay, ghosts
<1>2. Ordered'
    BY Bounds DEF TypeOK, Known, Turns, Closes, Ordered
<1>3. Known'
    BY Bounds DEF TypeOK, Known, Turns, Closes, Ordered
<1>4. Turns'
    BY Bounds DEF TypeOK, Known, Turns, Closes, Ordered
<1>5. Closes'
    BY Bounds DEF TypeOK, Known, Turns, Closes, Ordered
<1>6. Working'
    BY Bounds DEF TypeOK, Known, Turns, Closes, Ordered, Working, Recorded
<1>7. Recorded'
  <2>1. Made \subseteq Made' /\ \A u \in Made : tun'[u].relay = tun[u].relay
    BY DEF TypeOK
  <2>2. \A u \in Tunnel : tun'[u].stage \in {"marked", "listed"} => tun[u].stage \in {"marked", "listed"}
    BY DEF TypeOK
  <2>3. conns' = conns /\ online' = online /\ missed' = missed
    OBVIOUS
  <2>. HIDE DEF Made
  <2>. QED
    BY <2>1, <2>2, <2>3 DEF Recorded
<1>. HIDE DEF TunnelInv, Tunnels, Requests, Stages, Carried, Ended, Tunnel, Made, Installed, Draining, Dial, NewTunnel, Coming, routing, relay, ghosts
<1>. QED
    BY <1>1, <1>2, <1>3, <1>4, <1>5, <1>6, <1>7 DEF TunnelInv

LEMMA DialLostKeeps ==
    ASSUME TunnelInv, NEW r \in Relays, DialLost(r)
    PROVE  TunnelInv'
<1>0. PICK t \in Coming : NewTunnel(r, t, FALSE)
    BY DEF DialLost
<1>a. t \in Tunnel /\ t \notin Made /\ proc[r] = "running" /\ Fault /\ calm' = FALSE
    BY <1>0 DEF Coming, NewTunnel, DialLost
<1>b. tun' = [tun EXCEPT ![t] = [relay |-> r, stage |-> "made", open |-> TRUE,
                                 hopen |-> FALSE, drain |-> "no"]]
    BY <1>0 DEF NewTunnel
<1>c. UNCHANGED <<routing, relay, home, modern, q, missed, moves>>
    BY <1>0 DEF NewTunnel, DialLost
<1>d. \A u \in Tunnel : tun'[u] = IF u = t THEN [relay |-> r, stage |-> "made", open |-> TRUE,
                                                 hopen |-> FALSE, drain |-> "no"]
                                 ELSE tun[u]
    BY <1>a, <1>b DEF TunnelInv, TypeOK
<1>1. TypeOK'
  <2>1. [relay |-> r, stage |-> "made", open |-> TRUE, hopen |-> FALSE, drain |-> "no"] \in Tunnels
    BY DEF Tunnels, Stages
  <2>2. tun' \in [Tunnel -> Tunnels]
    BY <1>a, <1>b, <2>1 DEF TunnelInv, TypeOK
  <2>3. faults' \in 0..MaxFaults
    BY <1>a, Bounds DEF TunnelInv, TypeOK, Fault
  <2>. QED
    BY <1>a, <1>c, <2>2, <2>3 DEF TunnelInv, TypeOK, routing, relay
<1>. USE <1>a, <1>c, <1>d DEF TunnelInv, Made, routing, relay
<1>2. Ordered'
  <2>1. \A v \in Tunnel : v < t => v \in Made
    BY <1>0, Bounds DEF Coming, Tunnel
  <2>. QED
    BY <2>1 DEF Ordered
<1>3. Known'
    BY DEF Known, Installed
<1>4. Turns'
    BY DEF Turns
<1>5. Closes'
    BY DEF Closes
<1>6. Working'
    BY DEF Working, Known, Draining
<1>7. Recorded'
  <2>1. \A u \in Tunnel : tun'[u].stage \in {"marked", "listed"} => tun[u].stage \in {"marked", "listed"}
    OBVIOUS
  <2>2. \A u \in Made : u \in Made' /\ tun'[u].relay = tun[u].relay
    OBVIOUS
  <2>. QED
    BY <2>1, <2>2 DEF Recorded
<1>. HIDE DEF TunnelInv, Made, routing, relay
<1>. QED
    BY <1>1, <1>2, <1>3, <1>4, <1>5, <1>6, <1>7 DEF TunnelInv

LEMMA ShutdownKeeps ==
    ASSUME TunnelInv, NEW r \in Relays, Shutdown(r)
    PROVE  TunnelInv'
<1>1. TypeOK'
    BY Bounds DEF TunnelInv, TypeOK, Tunnels, Requests, Stages, Carried, Ended, Tunnel, Made, Installed, Draining, Shutdown, routing, relay, ghosts
<1>. USE DEF TunnelInv, Tunnels, Requests, Stages, Carried, Ended, Tunnel, Made, Installed, Draining, Shutdown, routing, relay, ghosts
<1>2. Ordered'
    BY Bounds DEF TypeOK, Known, Turns, Closes, Ordered
<1>3. Known'
    BY Bounds DEF TypeOK, Known, Turns, Closes, Ordered
<1>4. Turns'
    BY Bounds DEF TypeOK, Known, Turns, Closes, Ordered
<1>5. Closes'
    BY Bounds DEF TypeOK, Known, Turns, Closes, Ordered
<1>6. Working'
    BY Bounds DEF TypeOK, Known, Turns, Closes, Ordered, Working, Recorded
<1>7. Recorded'
    BY Bounds DEF TypeOK, Known, Turns, Closes, Ordered, Working, Recorded
<1>. HIDE DEF TunnelInv, Tunnels, Requests, Stages, Carried, Ended, Tunnel, Made, Installed, Draining, Shutdown, routing, relay, ghosts
<1>. QED
    BY <1>1, <1>2, <1>3, <1>4, <1>5, <1>6, <1>7 DEF TunnelInv

LEMMA DrainKeeps ==
    ASSUME TunnelInv, NEW r \in Relays, Drain(r)
    PROVE  TunnelInv'
<1>1. PICK t \in todo[r] : /\ todo' = [todo EXCEPT ![r] = @ \ {t}]
                            /\ tun' = [tun EXCEPT ![t].drain = "asked"]
    BY DEF Drain
<1>2. t \in Tunnel /\ UNCHANGED <<routing, proc, beats, home, modern, q, ghosts>>
    BY DEF TunnelInv, TypeOK, Drain
<1>3. /\ tun' \in [Tunnel -> Tunnels] /\ EndsOnly
      /\ \A u \in Tunnel : tun'[u].open = tun[u].open /\ tun'[u].hopen = tun[u].hopen
  <2>1. tun \in [Tunnel -> Tunnels] /\ [tun[t] EXCEPT !.drain = "asked"] \in Tunnels
    BY <1>2, TunnelType DEF TunnelInv, TypeOK
  <2>. QED
    BY <1>1, <1>2, <2>1 DEF Tunnels, EndsOnly
<1>4. todo' \in [Relays -> SUBSET Tunnel]
  <2>1. todo[r] \ {t} \subseteq Tunnel
    BY DEF TunnelInv, TypeOK
  <2>. QED
    BY <1>1, <2>1 DEF TunnelInv, TypeOK
<1>5. TypeOK' /\ HomeOnly
    BY <1>2, <1>3, <1>4 DEF TunnelInv, TypeOK, HomeOnly, routing, ghosts
<1>6. calm' /\ modern /\ q.pc \in {"handled", "body"} => tun'[q.tun].open /\ tun'[q.tun].hopen
    BY <1>2, <1>3 DEF TunnelInv, Working, Known, Made, Carried, ghosts
<1>. QED
    BY <1>2, <1>3, <1>5, <1>6, EndsKept DEF routing, ghosts

LEMMA GraceEndsKeeps ==
    ASSUME TunnelInv, NEW r \in Relays, GraceEnds(r)
    PROVE  TunnelInv'
<1>1. calm' = FALSE /\ UNCHANGED <<routing, proc, beats, home, modern, q, missed, faults, moves>>
    BY DEF GraceEnds
<1>2. tun' \in [Tunnel -> Tunnels] /\ EndsOnly
  <2>1. \A t \in Tunnel : tun[t] \in Tunnels /\ [tun[t] EXCEPT !.open = FALSE] \in Tunnels
    BY TunnelType DEF TunnelInv
  <2>2. tun' = [t \in Tunnel |-> IF tun[t].relay = r /\ Installed(t)
                                 THEN [tun[t] EXCEPT !.open = FALSE] ELSE tun[t]]
    BY DEF GraceEnds
  <2>3. tun' \in [Tunnel -> Tunnels]
    BY <2>1, <2>2
  <2>4. \A t \in Tunnel : tun'[t] = tun[t] \/ tun'[t] = [tun[t] EXCEPT !.open = FALSE]
    BY <2>2
  <2>. QED
    BY <2>1, <2>3, <2>4 DEF Tunnels, EndsOnly
<1>3. todo' \in [Relays -> SUBSET Tunnel]
    BY DEF TunnelInv, TypeOK, GraceEnds
<1>4. TypeOK' /\ HomeOnly
    BY <1>1, <1>2, <1>3 DEF TunnelInv, TypeOK, HomeOnly, routing
<1>. QED
    BY <1>1, <1>2, <1>4, EndsKept DEF routing

\* What ends with its process leaves nothing staged and nothing routed to.
LEMMA DiesKeeps ==
    ASSUME TunnelInv, NEW r \in Relays, Dies(r)
    PROVE  /\ tun' \in [Tunnel -> Tunnels] /\ conns' \in [Relays -> 0..MaxTunnels]
           /\ cache' \in [Relays -> SUBSET (0..MaxTunnels)]
           /\ todo' \in [Relays -> SUBSET Tunnel]
           /\ proc' \in [Relays -> {"running", "closing", "down"}]
           /\ missed' \in BOOLEAN
           /\ Turns' /\ Closes' /\ Recorded'
           /\ \A t \in Tunnel :
                 /\ tun'[t].relay = tun[t].relay /\ tun'[t].drain = tun[t].drain
                 /\ tun'[t].hopen = tun[t].hopen
                 /\ tun'[t].stage = "none" <=> tun[t].stage = "none"
                 /\ tun[t].relay # r => tun'[t] = tun[t]
                 /\ tun[t].relay = r => ~tun'[t].open
                 /\ tun[t].relay = r /\ tun[t].stage # "none" => tun'[t].stage = "gone"
                 /\ tun'[t].open => tun[t].open
           /\ \A p \in Relays : conns'[p] = (IF p = r THEN 0 ELSE conns[p])
<1>1. \A t \in Tunnel :
        tun'[t] = IF tun[t].relay = r /\ tun[t].stage # "none"
                  THEN [tun[t] EXCEPT !.open = FALSE, !.stage = "gone"] ELSE tun[t]
    BY DEF Dies
<1>2. \A t \in Tunnel : tun[t] \in Tunnels
                        /\ [tun[t] EXCEPT !.open = FALSE, !.stage = "gone"] \in Tunnels
    BY TunnelType DEF TunnelInv
<1>3. tun' \in [Tunnel -> Tunnels]
    BY <1>2 DEF Dies
<1>4. \A t \in Tunnel :
                 /\ tun'[t].relay = tun[t].relay /\ tun'[t].drain = tun[t].drain
                 /\ tun'[t].hopen = tun[t].hopen
                 /\ tun'[t].stage = "none" <=> tun[t].stage = "none"
                 /\ tun[t].relay # r => tun'[t] = tun[t]
                 /\ tun[t].relay = r => ~tun'[t].open
                 /\ tun[t].relay = r /\ tun[t].stage # "none" => tun'[t].stage = "gone"
                 /\ tun'[t].open => tun[t].open
    BY <1>1, <1>2 DEF Tunnels, TunnelInv, Closes
<1>a. 0 \in 0..MaxTunnels
    BY Bounds
<1>5. /\ conns' \in [Relays -> 0..MaxTunnels]
      /\ \A p \in Relays : conns'[p] = (IF p = r THEN 0 ELSE conns[p])
    BY <1>a DEF TunnelInv, TypeOK, Dies
<1>6. /\ cache' \in [Relays -> SUBSET (0..MaxTunnels)]
      /\ todo' \in [Relays -> SUBSET Tunnel]
      /\ proc' \in [Relays -> {"running", "closing", "down"}]
      /\ proc'[r] = "down" /\ \A p \in Relays : p # r => proc'[p] = proc[p]
    BY DEF TunnelInv, TypeOK, Dies
<1>7. Turns'
  <2>1. SUFFICES ASSUME NEW t \in Tunnel
                 PROVE  /\ tun'[t].stage \in {"marked", "listed"} => conns'[tun'[t].relay] < t
                        /\ tun'[t].stage = "left" => conns'[tun'[t].relay] = 0
                        /\ \A u \in Tunnel : /\ tun'[t].relay = tun'[u].relay
                                             /\ tun'[t].stage \in {"marked", "listed", "left"}
                                             /\ tun'[u].stage \in {"marked", "listed", "left"}
                                             => t = u
    BY DEF Turns
  <2>2. tun[t].relay \in Relays
    BY <1>2 DEF Tunnels
  <2>3. CASE tun[t].relay = r
    BY <1>4, <2>3
  <2>4. CASE tun[t].relay # r
    BY <1>4, <1>5, <2>2, <2>4 DEF TunnelInv, Turns
  <2>. QED
    BY <2>3, <2>4
<1>8. Closes'
  <2>1. ASSUME NEW t \in Tunnel,
               tun'[t].stage \in {"none", "unlisted", "left", "gone"}
                   \/ proc'[tun'[t].relay] = "down"
        PROVE  ~tun'[t].open
    <3>1. tun[t].relay \in Relays
        BY <1>2 DEF Tunnels
    <3>2. CASE tun[t].relay = r
        BY <1>4, <3>2
    <3>3. CASE tun[t].relay # r
        BY <1>4, <1>6, <2>1, <3>1, <3>3 DEF TunnelInv, Closes
    <3>. QED
        BY <3>2, <3>3
  <2>. QED
    BY <2>1 DEF Closes
<1>9. /\ missed => missed'
      /\ \A t \in Made : tun[t].relay = r /\ tun[t].stage # "gone" => missed'
      /\ missed' \in BOOLEAN
    BY DEF Dies, TunnelInv, TypeOK
<1>10. Made' = Made
    BY <1>4 DEF Made
<1>11. Recorded'
  <2>1. SUFFICES ASSUME NEW p \in Relays, \A t \in Made : tun[t].relay = p, ~missed',
                        conns'[p] # 0 \/ \E t \in Tunnel : tun'[t].stage \in {"marked", "listed"}
                 PROVE  online'
    BY <1>4, <1>10 DEF Recorded, Made
  <2>2. conns[p] # 0 \/ \E t \in Tunnel : tun[t].stage \in {"marked", "listed"}
    BY <1>4, <1>5, <2>1
  <2>. QED
    BY <1>9, <2>1, <2>2 DEF TunnelInv, Recorded, Dies
<1>. QED
    BY <1>3, <1>4, <1>5, <1>6, <1>7, <1>8, <1>9, <1>11

LEMMA ExitKeeps ==
    ASSUME TunnelInv, NEW r \in Relays, Exit(r)
    PROVE  TunnelInv'
<1>0. Dies(r)
    BY DEF Exit
<1>1. TypeOK'
  <2>1. q' \in Requests /\ calm' \in BOOLEAN
    BY DEF TunnelInv, TypeOK, Requests, Ended, Carried, Exit
  <2>2. faults' \in 0..MaxFaults
    BY Bounds DEF TunnelInv, TypeOK, Exit
  <2>. QED
    BY <1>0, <2>1, <2>2, DiesKeeps DEF TunnelInv, TypeOK, Dies
<1>2. Ordered'
    BY <1>0, DiesKeeps DEF TunnelInv, Ordered, Made, Dies, Exit
<1>3. Known'
  <2>1. q'.tun = q.tun /\ (q'.pc \in Carried \cup {"serve"} => q.pc \in Carried \cup {"serve"})
    BY DEF TunnelInv, TypeOK, Requests, Carried, Ended, Exit
  <2>2. row' = row /\ home' = home
    BY <1>0 DEF Dies
  <2>3. \A t \in Made : t \in Made' /\ (Installed(t) \/ tun[t].stage = "gone"
                                     => Installed(t)' \/ tun'[t].stage = "gone")
    BY <1>0, DiesKeeps DEF Made, Installed
  <2>4. \A p \in Relays : conns'[p] # 0 => conns'[p] \in Made' /\ tun'[conns'[p]].relay = p
                                         /\ tun'[conns'[p]].stage \in {"up", "unlisted", "left"}
    BY <1>0, DiesKeeps DEF TunnelInv, Known, Made, Installed
  <2>. QED
    BY <2>1, <2>2, <2>3, <2>4 DEF TunnelInv, Known, Installed
<1>4. Turns' /\ Closes' /\ Recorded'
    BY <1>0, DiesKeeps
<1>6. Working'
  <2>0. home' = home /\ modern' = modern /\ calm' = calm /\ q' = q
    BY <1>0 DEF Exit, Dies
  <2>1. home.moving => home.cur # 0 /\ tun'[home.cur].drain # "no"
    BY <1>0, DiesKeeps DEF TunnelInv, Known, Made, Working, Draining
  <2>2. /\ \A t \in Tunnel : tun'[t].drain = "idle" => ~modern
        /\ calm => \A t \in Tunnel : tun'[t].open /\ tun'[t].hopen /\ t # home.cur
                                          => tun'[t].drain # "no"
    BY <1>0, DiesKeeps DEF TunnelInv, Working, Draining
  <2>3. ASSUME calm', modern', q'.pc \in {"handled", "body"}
        PROVE  tun'[q'.tun].open /\ tun'[q'.tun].hopen
    <3>1. q' = q /\ calm /\ modern
        BY <2>0, <2>3
    <3>2. q.tun \in Tunnel /\ tun[q.tun].open /\ tun[q.tun].hopen
        BY <2>3, <3>1 DEF TunnelInv, Known, Made, Carried, Working
    <3>3. Installed(q.tun)
        BY <2>3, <3>1, <3>2 DEF TunnelInv, Known, Carried, Closes
    <3>4. tun[q.tun].relay # r
        BY <3>2, <3>3 DEF Exit
    <3>. QED
        BY <1>0, <3>1, <3>2, <3>4, DiesKeeps
  <2>. QED
    BY <2>0, <2>1, <2>2, <2>3 DEF Working, Draining
<1>. QED
    BY <1>1, <1>2, <1>3, <1>4, <1>6 DEF TunnelInv

LEMMA StartKeeps ==
    ASSUME TunnelInv, NEW r \in Relays, Start(r)
    PROVE  TunnelInv'
<1>1. TypeOK'
    BY Bounds DEF TunnelInv, TypeOK, Tunnels, Requests, Stages, Carried, Ended, Tunnel, Made, Installed, Draining, Start, routing, relay, ghosts
<1>. USE DEF TunnelInv, Tunnels, Requests, Stages, Carried, Ended, Tunnel, Made, Installed, Draining, Start, routing, relay, ghosts
<1>2. Ordered'
    BY Bounds DEF TypeOK, Known, Turns, Closes, Ordered
<1>3. Known'
    BY Bounds DEF TypeOK, Known, Turns, Closes, Ordered
<1>4. Turns'
    BY Bounds DEF TypeOK, Known, Turns, Closes, Ordered
<1>5. Closes'
    BY Bounds DEF TypeOK, Known, Turns, Closes, Ordered
<1>6. Working'
    BY Bounds DEF TypeOK, Known, Turns, Closes, Ordered, Working, Recorded
<1>7. Recorded'
    BY Bounds DEF TypeOK, Known, Turns, Closes, Ordered, Working, Recorded
<1>. HIDE DEF TunnelInv, Tunnels, Requests, Stages, Carried, Ended, Tunnel, Made, Installed, Draining, Start, routing, relay, ghosts
<1>. QED
    BY <1>1, <1>2, <1>3, <1>4, <1>5, <1>6, <1>7 DEF TunnelInv

LEMMA CrashKeeps ==
    ASSUME TunnelInv, NEW r \in Relays, Crash(r)
    PROVE  TunnelInv'
<1>0. Dies(r)
    BY DEF Crash
<1>1. TypeOK'
  <2>1. q' \in Requests /\ calm' \in BOOLEAN
    BY DEF TunnelInv, TypeOK, Requests, Ended, Carried, Crash, Fault
  <2>2. faults' \in 0..MaxFaults
    BY Bounds DEF TunnelInv, TypeOK, Crash, Fault
  <2>. QED
    BY <1>0, <2>1, <2>2, DiesKeeps DEF TunnelInv, TypeOK, Dies
<1>2. Ordered'
    BY <1>0, DiesKeeps DEF TunnelInv, Ordered, Made, Dies, Crash, Fault
<1>3. Known'
  <2>1. q'.tun = q.tun /\ (q'.pc \in Carried \cup {"serve"} => q.pc \in Carried \cup {"serve"})
    BY DEF TunnelInv, TypeOK, Requests, Carried, Ended, Crash, Fault
  <2>2. row' = row /\ home' = home
    BY <1>0 DEF Dies
  <2>3. \A t \in Made : t \in Made' /\ (Installed(t) \/ tun[t].stage = "gone"
                                     => Installed(t)' \/ tun'[t].stage = "gone")
    BY <1>0, DiesKeeps DEF Made, Installed
  <2>4. \A p \in Relays : conns'[p] # 0 => conns'[p] \in Made' /\ tun'[conns'[p]].relay = p
                                         /\ tun'[conns'[p]].stage \in {"up", "unlisted", "left"}
    BY <1>0, DiesKeeps DEF TunnelInv, Known, Made, Installed
  <2>. QED
    BY <2>1, <2>2, <2>3, <2>4 DEF TunnelInv, Known, Installed
<1>4. Turns' /\ Closes' /\ Recorded'
    BY <1>0, DiesKeeps
<1>6. Working'
  <2>1. home' = home /\ modern' = modern /\ ~calm'
    BY <1>0 DEF Crash, Dies
  <2>2. home.moving => home.cur # 0 /\ tun'[home.cur].drain # "no"
    BY <1>0, DiesKeeps DEF TunnelInv, Known, Made, Working, Draining
  <2>3. \A t \in Tunnel : tun'[t].drain = "idle" => ~modern
    BY <1>0, DiesKeeps DEF TunnelInv, Working
  <2>. QED
    BY <2>1, <2>2, <2>3 DEF Working, Draining
<1>. QED
    BY <1>1, <1>2, <1>3, <1>4, <1>6 DEF TunnelInv

LEMMA SilentKeeps ==
    ASSUME TunnelInv, NEW r \in Relays, Silent(r)
    PROVE  TunnelInv'
<1>1. TypeOK'
  <2>1. missed' \in BOOLEAN /\ faults' \in 0..MaxFaults
    BY FaultType DEF TunnelInv, Silent
  <2>. QED
    BY <2>1 DEF TunnelInv, TypeOK, Silent, routing
<1>. USE DEF TunnelInv, Silent, routing
<1>2. Ordered'
    BY DEF Ordered, Made
<1>3. Known'
    BY DEF Known, Made, Installed
<1>4. Turns'
    BY DEF Turns
<1>5. Closes'
    BY DEF Closes
<1>6. Working'
    BY DEF Working, Draining
<1>7. Recorded'
  <2>1. missed => missed'
    BY DEF Wrote, NotWritten
  <2>. QED
    BY <2>1 DEF Recorded, Made
<1>. HIDE DEF TunnelInv, Silent, routing
<1>. QED
    BY <1>1, <1>2, <1>3, <1>4, <1>5, <1>6, <1>7 DEF TunnelInv

LEMMA SweepKeeps ==
    ASSUME TunnelInv, NEW r \in Relays, Sweep(r)
    PROVE  TunnelInv'
<1>1. TypeOK'
  <2>1. row' = 0 /\ UNCHANGED <<tun, conns, cache, online, relay, home, modern, q, ghosts>>
    BY DEF Sweep
  <2>2. row' \in 0..MaxTunnels
    BY <2>1, Bounds
  <2>. QED
    BY ONLY <2>1, <2>2, TunnelInv DEF TunnelInv, TypeOK, relay, ghosts
<1>. USE DEF TunnelInv, Tunnels, Requests, Stages, Carried, Ended, Tunnel, Made, Installed, Draining, Sweep, routing, relay, ghosts
<1>2. Ordered'
    BY Bounds DEF TypeOK, Known, Turns, Closes, Ordered
<1>3. Known'
    BY Bounds DEF TypeOK, Known, Turns, Closes, Ordered
<1>4. Turns'
    BY Bounds DEF TypeOK, Known, Turns, Closes, Ordered
<1>5. Closes'
    BY Bounds DEF TypeOK, Known, Turns, Closes, Ordered
<1>6. Working'
    BY Bounds DEF TypeOK, Known, Turns, Closes, Ordered, Working, Recorded
<1>7. Recorded'
    BY Bounds DEF TypeOK, Known, Turns, Closes, Ordered, Working, Recorded
<1>. HIDE DEF TunnelInv, Tunnels, Requests, Stages, Carried, Ended, Tunnel, Made, Installed, Draining, Sweep, routing, relay, ghosts
<1>. QED
    BY <1>1, <1>2, <1>3, <1>4, <1>5, <1>6, <1>7 DEF TunnelInv

LEMMA HeartbeatKeeps ==
    ASSUME TunnelInv, NEW r \in Relays, Heartbeat(r)
    PROVE  TunnelInv'
<1>1. TypeOK'
    BY Bounds DEF TunnelInv, TypeOK, Tunnels, Requests, Stages, Carried, Ended, Tunnel, Made, Installed, Draining, Heartbeat, Up, routing, relay, ghosts
<1>. USE DEF TunnelInv, Tunnels, Requests, Stages, Carried, Ended, Tunnel, Made, Installed, Draining, Heartbeat, Up, routing, relay, ghosts
<1>2. Ordered'
    BY Bounds DEF TypeOK, Known, Turns, Closes, Ordered
<1>3. Known'
    BY Bounds DEF TypeOK, Known, Turns, Closes, Ordered
<1>4. Turns'
    BY Bounds DEF TypeOK, Known, Turns, Closes, Ordered
<1>5. Closes'
    BY Bounds DEF TypeOK, Known, Turns, Closes, Ordered
<1>6. Working'
    BY Bounds DEF TypeOK, Known, Turns, Closes, Ordered, Working, Recorded
<1>7. Recorded'
    BY Bounds DEF TypeOK, Known, Turns, Closes, Ordered, Working, Recorded
<1>. HIDE DEF TunnelInv, Tunnels, Requests, Stages, Carried, Ended, Tunnel, Made, Installed, Draining, Heartbeat, Up, routing, relay, ghosts
<1>. QED
    BY <1>1, <1>2, <1>3, <1>4, <1>5, <1>6, <1>7 DEF TunnelInv

LEMMA HearDrainKeeps ==
    ASSUME TunnelInv, HearDrain
    PROVE  TunnelInv'
<1>1. TypeOK'
    BY Bounds DEF TunnelInv, TypeOK, Tunnels, Requests, Stages, Carried, Ended, Tunnel, Made, Installed, Draining, HearDrain, routing, relay, ghosts
<1>. USE DEF TunnelInv, Tunnels, Requests, Stages, Carried, Ended, Tunnel, Made, Installed, Draining, HearDrain, routing, relay, ghosts
<1>2. Ordered'
    BY Bounds DEF TypeOK, Known, Turns, Closes, Ordered
<1>3. Known'
    BY Bounds DEF TypeOK, Known, Turns, Closes, Ordered
<1>4. Turns'
    BY Bounds DEF TypeOK, Known, Turns, Closes, Ordered
<1>5. Closes'
    BY Bounds DEF TypeOK, Known, Turns, Closes, Ordered
<1>6. Working'
    BY Bounds DEF TypeOK, Known, Turns, Closes, Ordered, Working, Recorded
<1>7. Recorded'
    BY Bounds DEF TypeOK, Known, Turns, Closes, Ordered, Working, Recorded
<1>. HIDE DEF TunnelInv, Tunnels, Requests, Stages, Carried, Ended, Tunnel, Made, Installed, Draining, HearDrain, routing, relay, ghosts
<1>. QED
    BY <1>1, <1>2, <1>3, <1>4, <1>5, <1>6, <1>7 DEF TunnelInv

LEMMA ArriveKeeps ==
    ASSUME TunnelInv, NEW r \in Relays, NEW get \in BOOLEAN, Arrive(r, get)
    PROVE  TunnelInv'
<1>1. UNCHANGED <<tun, conns, row, cache, online, relay, home, modern, ghosts>>
    BY DEF Arrive, routing
<1>2. cache \in [Relays -> SUBSET (0..MaxTunnels)]
    BY DEF TunnelInv, TypeOK
<1>3. q' \in Requests /\ q'.tun = 0 /\ q'.pc = "route"
    BY Bounds DEF Arrive, Requests
<1>. QED
    BY <1>1, <1>2, <1>3, RequestKept DEF Carried

LEMMA RouteKeeps ==
    ASSUME TunnelInv, Route
    PROVE  TunnelInv'
<1>1. UNCHANGED <<tun, conns, row, cache, online, relay, home, modern, ghosts>>
    BY DEF Route, routing
<1>2. q \in Requests /\ cache \in [Relays -> SUBSET (0..MaxTunnels)] /\ conns[q.at] \in 0..MaxTunnels
    BY DEF TunnelInv, TypeOK, Requests
<1>3. PICK pc \in {"serve", "hold", "look"} :
        q' = [q EXCEPT !.tun = conns[q.at], !.pc = pc] /\ (pc = "serve" => conns[q.at] # 0)
    BY DEF Route
<1>4. q' \in Requests /\ q'.tun = conns[q.at] /\ q'.pc = pc
    BY <1>2, <1>3 DEF Requests
<1>. QED
    BY <1>1, <1>2, <1>3, <1>4, RequestKept DEF Carried

LEMMA AnswerType ==
    ASSUME TypeOK, NEW a \in Answers(q.at)
    PROVE  a \in 0..MaxTunnels
BY Bounds DEF TypeOK, Requests, Answers

LEMMA LookKeeps ==
    ASSUME TunnelInv, Look
    PROVE  TunnelInv'
<1>0. UNCHANGED <<tun, conns, row, online, relay, home, modern, ghosts>>
    BY DEF Look
<1>a. /\ q' \in Requests
      /\ q'.tun # 0 => q'.tun = q.tun \/ q'.tun = conns[q.at]
      /\ q'.pc \in {"route", "serve", "hold"}
      /\ q'.pc = "serve" => q'.tun # 0
  <2>1. PICK a \in Answers(q.at) :
            \/ a > q.tun /\ Forwards(a, IF q.tun # 0 THEN "serve" ELSE "hold")
            \/ a =< q.tun /\ Goes(IF q.tun # 0 THEN "serve" ELSE "hold")
    BY DEF Look
  <2>2. CASE Goes(IF q.tun # 0 THEN "serve" ELSE "hold")
    BY <2>2 DEF TunnelInv, TypeOK, Requests, Goes
  <2>3. CASE a > q.tun /\ Forwards(a, IF q.tun # 0 THEN "serve" ELSE "hold")
    <3>1. a \in Tunnel /\ tun[a].relay \in Relays
        BY <2>3, AnswerType DEF TunnelInv, TypeOK, Requests, Tunnel, Tunnels
    <3>2. CASE Goes(IF q.tun # 0 THEN "serve" ELSE "hold")
        BY <2>2, <3>2
    <3>3. CASE q' = [q EXCEPT !.pc = "route", !.at = tun[a].relay, !.tun = 0, !.retried = FALSE]
      <4>1. q \in Requests /\ 0 \in 0..MaxTunnels
        BY Bounds DEF TunnelInv, TypeOK
      <4>2. q' \in Requests
        BY <3>1, <3>3, <4>1 DEF Requests
      <4>3. q'.pc = "route" /\ q'.tun = 0
        BY <3>3, <4>1 DEF Requests
      <4>. QED
        BY <4>2, <4>3
    <3>. QED
        BY <2>3, <3>2, <3>3 DEF Forwards
  <2>. QED
    BY <2>1, <2>2, <2>3
<1>b. cache' \in [Relays -> SUBSET (0..MaxTunnels)]
  <2>1. \A a \in Answers(q.at) : {a} \subseteq 0..MaxTunnels
    BY AnswerType DEF TunnelInv
  <2>2. \/ cache' = cache
        \/ \E S \in SUBSET (0..MaxTunnels) : cache' = [cache EXCEPT ![q.at] = S]
    BY <2>1 DEF Look, Hold, Forwards
  <2>. QED
    BY <2>2 DEF TunnelInv, TypeOK
<1>. QED
    BY <1>0, <1>a, <1>b, RequestKept DEF Carried

LEMMA HoldKeeps ==
    ASSUME TunnelInv, Hold
    PROVE  TunnelInv'
<1>0. UNCHANGED <<tun, conns, row, online, relay, home, modern, ghosts>>
    BY DEF Hold
<1>a. /\ q' \in Requests
      /\ q'.tun # 0 => q'.tun = q.tun \/ q'.tun = conns[q.at]
      /\ q'.pc \in {"route", "serve", "hold"}
      /\ q'.pc = "serve" => q'.tun # 0
  <2>1. CASE conns[q.at] # 0 /\ q' = [q EXCEPT !.pc = "serve", !.tun = conns[q.at],
                                                !.retried = TRUE]
    BY <2>1 DEF TunnelInv, TypeOK, Requests
  <2>2. ASSUME NEW a \in Answers(q.at) \ {0}, Forwards(a, "hold")
        PROVE  /\ q' \in Requests /\ q'.pc \in {"route", "hold"}
               /\ q'.tun # 0 => q'.tun = q.tun
    <3>1. a \in Tunnel /\ tun[a].relay \in Relays
        BY <2>2, AnswerType DEF TunnelInv, TypeOK, Tunnel, Tunnels
    <3>2. CASE Goes("hold")
        BY <3>2 DEF TunnelInv, TypeOK, Requests, Goes
    <3>3. CASE q' = [q EXCEPT !.pc = "route", !.at = tun[a].relay, !.tun = 0, !.retried = FALSE]
      <4>1. q \in Requests /\ 0 \in 0..MaxTunnels
        BY Bounds DEF TunnelInv, TypeOK
      <4>2. q' \in Requests
        BY <3>1, <3>3, <4>1 DEF Requests
      <4>3. q'.pc = "route" /\ q'.tun = 0
        BY <3>3, <4>1 DEF Requests
      <4>. QED
        BY <4>2, <4>3
    <3>. QED
        BY <2>2, <3>2, <3>3 DEF Forwards
  <2>. QED
    BY <2>1, <2>2 DEF Hold
<1>b. cache' \in [Relays -> SUBSET (0..MaxTunnels)]
  <2>1. \A a \in Answers(q.at) : {a} \subseteq 0..MaxTunnels
    BY AnswerType DEF TunnelInv
  <2>2. \/ cache' = cache
        \/ \E S \in SUBSET (0..MaxTunnels) : cache' = [cache EXCEPT ![q.at] = S]
    BY <2>1 DEF Look, Hold, Forwards
  <2>. QED
    BY <2>2 DEF TunnelInv, TypeOK
<1>. QED
    BY <1>0, <1>a, <1>b, RequestKept DEF Carried

LEMMA HoldEndsKeeps ==
    ASSUME TunnelInv, HoldEnds
    PROVE  TunnelInv'
<1>1. UNCHANGED <<tun, conns, row, cache, online, relay, home, modern, ghosts>>
    BY DEF HoldEnds, Goes, routing
<1>2. q \in Requests /\ cache \in [Relays -> SUBSET (0..MaxTunnels)]
    BY DEF TunnelInv, TypeOK
<1>3. q' \in Requests /\ q'.tun = q.tun /\ q'.pc \in {"refused"}
    BY <1>2 DEF HoldEnds, Goes, Requests, Carried, Ended
<1>. QED
    BY <1>1, <1>2, <1>3, RequestKept DEF Carried

LEMMA ServeKeeps ==
    ASSUME TunnelInv, Serve
    PROVE  TunnelInv'
<1>1. UNCHANGED <<tun, conns, row, cache, online, relay, home, modern, ghosts>>
    BY DEF Serve, Goes, routing
<1>2. q \in Requests /\ cache \in [Relays -> SUBSET (0..MaxTunnels)]
    BY DEF TunnelInv, TypeOK
<1>3. q' \in Requests /\ q'.tun = q.tun /\ q'.pc \in {"sent", "failed"}
    BY <1>2 DEF Serve, Goes, Requests, Carried, Ended
<1>4. q.tun # 0
    BY DEF TunnelInv, Known, Carried, Serve, Goes
<1>. QED
    BY <1>1, <1>2, <1>3, <1>4, RequestKept DEF Carried

LEMMA TunnelGoneKeeps ==
    ASSUME TunnelInv, TunnelGone
    PROVE  TunnelInv'
<1>1. UNCHANGED <<tun, conns, row, cache, online, relay, home, modern, ghosts>>
    BY DEF TunnelGone, routing
<1>2. q \in Requests /\ cache \in [Relays -> SUBSET (0..MaxTunnels)]
    BY DEF TunnelInv, TypeOK
<1>3. q' \in Requests /\ q'.tun = q.tun /\ q'.pc \in {"failed", "empty", "route"}
    BY <1>2 DEF TunnelGone, Requests, Carried, Ended
<1>. QED
    BY <1>1, <1>2, <1>3, RequestKept DEF Carried

LEMMA ReachKeeps ==
    ASSUME TunnelInv, Reach
    PROVE  TunnelInv'
<1>1. UNCHANGED <<tun, conns, row, cache, online, relay, home, modern, ghosts>>
    BY DEF Reach, Carry, Goes, routing
<1>2. q \in Requests /\ cache \in [Relays -> SUBSET (0..MaxTunnels)]
    BY DEF TunnelInv, TypeOK
<1>3. q' \in Requests /\ q'.tun = q.tun /\ q'.pc \in {"handled"}
    BY <1>2 DEF Reach, Carry, Goes, Requests, Carried, Ended
<1>4. q.tun # 0 /\ tun[q.tun].open /\ tun[q.tun].hopen
    BY DEF TunnelInv, Known, Carried, Reach, Carry, Goes
<1>. QED
    BY <1>1, <1>2, <1>3, <1>4, RequestKept DEF Carried

LEMMA HeadBackKeeps ==
    ASSUME TunnelInv, HeadBack
    PROVE  TunnelInv'
<1>1. UNCHANGED <<tun, conns, row, cache, online, relay, home, modern, ghosts>>
    BY DEF HeadBack, Carry, Goes, routing
<1>2. q \in Requests /\ cache \in [Relays -> SUBSET (0..MaxTunnels)]
    BY DEF TunnelInv, TypeOK
<1>3. q' \in Requests /\ q'.tun = q.tun /\ q'.pc \in {"body"}
    BY <1>2 DEF HeadBack, Carry, Goes, Requests, Carried, Ended
<1>4. q.tun # 0 /\ tun[q.tun].open /\ tun[q.tun].hopen
    BY DEF TunnelInv, Known, Carried, HeadBack, Carry, Goes
<1>. QED
    BY <1>1, <1>2, <1>3, <1>4, RequestKept DEF Carried

LEMMA FinishKeeps ==
    ASSUME TunnelInv, Finish
    PROVE  TunnelInv'
<1>1. UNCHANGED <<tun, conns, row, cache, online, relay, home, modern, ghosts>>
    BY DEF Finish, Carry, Goes, routing
<1>2. q \in Requests /\ cache \in [Relays -> SUBSET (0..MaxTunnels)]
    BY DEF TunnelInv, TypeOK
<1>3. q' \in Requests /\ q'.tun = q.tun /\ q'.pc \in {"done"}
    BY <1>2 DEF Finish, Carry, Goes, Requests, Carried, Ended
<1>. QED
    BY <1>1, <1>2, <1>3, RequestKept DEF Carried

LEMMA CutKeeps ==
    ASSUME TunnelInv, Cut
    PROVE  TunnelInv'
<1>1. UNCHANGED <<tun, conns, row, cache, online, relay, home, modern, ghosts>>
    BY DEF Cut, Goes, routing
<1>2. q \in Requests /\ cache \in [Relays -> SUBSET (0..MaxTunnels)]
    BY DEF TunnelInv, TypeOK
<1>3. q' \in Requests /\ q'.tun = q.tun /\ q'.pc \in {"cut"}
    BY <1>2 DEF Cut, Goes, Requests, Carried, Ended
<1>. QED
    BY <1>1, <1>2, <1>3, RequestKept DEF Carried

--------------------------------------------------------------------------------

LEMMA InitGood == Init => TunnelInv
<1>. SUFFICES ASSUME Init PROVE TunnelInv
    OBVIOUS
<1>1. PICK r \in Relays :
        /\ tun = [t \in Tunnel |-> [relay |-> r, stage |-> IF t = 1 THEN "up" ELSE "none",
                                    open |-> t = 1, hopen |-> t = 1, drain |-> "no"]]
        /\ conns = [p \in Relays |-> IF p = r THEN 1 ELSE 0]
        /\ row = 1 /\ online = TRUE
        /\ cache = [p \in Relays |-> {}]
        /\ proc = [p \in Relays |-> "running"]
        /\ todo = [p \in Relays |-> {}]
        /\ beats = [p \in Relays |-> TRUE]
        /\ home = [cur |-> 1, old |-> {}, moving |-> FALSE]
        /\ modern \in BOOLEAN
        /\ q = [pc |-> "idle", at |-> r, from |-> r, tun |-> 0, retried |-> FALSE, get |-> FALSE]
        /\ calm = TRUE /\ missed = FALSE /\ faults = 0 /\ moves = 0
    BY DEF Init
<1>a. 1 \in Tunnel /\ 1 \in 0..MaxTunnels /\ 0 \in 0..MaxTunnels /\ 0 \in 0..MaxFaults /\ 0 \in 0..MaxMoves
    BY Bounds DEF Tunnel
<1>2. TypeOK
  <2>1. tun \in [Tunnel -> Tunnels]
    BY <1>1 DEF Tunnels, Stages
  <2>2. q \in Requests
    BY <1>1, <1>a DEF Requests
  <2>. QED
    BY <1>1, <1>a, <2>1, <2>2 DEF TypeOK
<1>b. \A t \in Tunnel : /\ tun[t].relay = r /\ tun[t].open = (t = 1) /\ tun[t].hopen = (t = 1)
                        /\ tun[t].stage = (IF t = 1 THEN "up" ELSE "none") /\ tun[t].drain = "no"
    BY <1>1
<1>c. Made = {1}
    BY <1>a, <1>b DEF Made
<1>3. Ordered
    BY <1>1, <1>c, Bounds DEF Ordered, Tunnel
<1>4. Known
    BY <1>1, <1>a, <1>b, <1>c DEF Known, Installed, Carried
<1>5. Turns
    BY <1>b DEF Turns
<1>6. Closes
    BY <1>1, <1>b DEF Closes
<1>7. Working
    BY <1>1, <1>b DEF Working, Draining
<1>8. Recorded
    BY <1>1 DEF Recorded
<1>. QED
    BY <1>2, <1>3, <1>4, <1>5, <1>6, <1>7, <1>8 DEF TunnelInv

LEMMA NextKeeps == TunnelInv /\ [Next]_vars => TunnelInv'
<1>. SUFFICES ASSUME TunnelInv, [Next]_vars PROVE TunnelInv'
    OBVIOUS
<1>1. CASE HomeNext
    BY <1>1, DialKeeps, DialLostKeeps, HearDrainKeeps, HomeSeesKeeps, FinishDrainedKeeps, 
       HomeDeadlineKeeps DEF HomeNext
<1>2. CASE RelayNext
    BY <1>2, StaleKeeps, EnterKeeps, ListKeeps, InstallKeeps, UnlistKeeps, LeaveKeeps, 
       RecordOfflineKeeps, RelaySeesKeeps, ShutdownKeeps, DrainKeeps, GraceEndsKeeps, 
       ExitKeeps, StartKeeps, IdleKeeps, CloseIdleKeeps, DrainDeadlineKeeps DEF RelayNext
<1>3. CASE Faulty
    BY <1>3, CrashKeeps, SilentKeeps, SweepKeeps, HeartbeatKeeps, BreaksKeeps DEF Faulty
<1>4. CASE RequestNext
    BY <1>4, ArriveKeeps, RouteKeeps, LookKeeps, HoldKeeps, HoldEndsKeeps, ServeKeeps, 
       TunnelGoneKeeps, ReachKeeps, HeadBackKeeps, FinishKeeps, CutKeeps DEF RequestNext
<1>5. CASE UNCHANGED vars
    BY <1>5 DEF vars, routing, relay, ghosts, TunnelInv, TypeOK, Ordered, Known, Turns, Closes, Working,
                Recorded, Made, Installed, Draining
<1>. QED
    BY <1>1, <1>2, <1>3, <1>4, <1>5 DEF Next

(* The inductive invariant: Up and Down take turns, what goes down closed      *)
(* before, and a home that can move has one tunnel that is not draining.       *)
THEOREM Inductive == Spec => []TunnelInv
<1>. QED
    BY InitGood, NextKeeps, PTL DEF Spec

\* Every variable keeps its type.
THEOREM TypeSafety == Spec => []TypeOK
<1>1. TunnelInv => TypeOK
    BY DEF TunnelInv
<1>. QED
    BY <1>1, Inductive, PTL

\* A home on one relay is never shown offline while the relay routes to it
\* (Registry.Up and Down, markOnline).
THEOREM OnlineShown == Spec => []ShownOnline
<1>1. TunnelInv => ShownOnline
    BY DEF TunnelInv, Recorded, ShownOnline
<1>. QED
    BY <1>1, Inductive, PTL

\* A relay replaces the tunnel it routes to only by a newer one, and drops it
\* only once it is closed (Registry.Up, Register, Unregister).
THEOREM NewestKept == Spec => NewestStays
<1>1. TunnelInv /\ [Next]_vars =>
        [\A r \in Relays :
            conns[r] # 0 /\ conns'[r] < conns[r] => conns'[r] = 0 /\ ~tun'[conns[r]].open]_vars
  <2>. SUFFICES ASSUME TunnelInv, Next, NEW r \in Relays, conns[r] # 0, conns'[r] < conns[r]
                PROVE  conns'[r] = 0 /\ ~tun'[conns[r]].open
    OBVIOUS
  <2>1. conns[r] \in Tunnel /\ tun[conns[r]].relay = r /\ tun[conns[r]].stage # "none"
    BY DEF TunnelInv, Known, Made
  <2>2. conns' # conns
    BY <2>1, Bounds DEF Tunnel
  <2>3. CASE HomeNext
    BY <2>2, <2>3 DEF HomeNext, Dial, DialLost, NewTunnel, HearDrain, HomeSees, FinishDrained, HomeDeadline,
                      routing
  <2>4. CASE RelayNext
    <3>1. ASSUME NEW t \in Tunnel, Install(t) PROVE FALSE
      <4>1. tun[t].relay \in Relays /\ conns[tun[t].relay] < t
        BY <3>1 DEF TunnelInv, TypeOK, Tunnels, Turns, Install
      <4>2. conns'[r] = (IF r = tun[t].relay THEN t ELSE conns[r])
        BY <3>1 DEF TunnelInv, TypeOK, Install
      <4>. QED
        BY <2>1, <4>1, <4>2, Bounds DEF Tunnel
    <3>2. ASSUME NEW t \in Tunnel, Leave(t) PROVE conns'[r] = 0 /\ ~tun'[conns[r]].open
      <4>1. tun[t].stage = "unlisted" /\ conns' = [conns EXCEPT ![tun[t].relay] = 0] /\ Stage(t, "left")
            /\ conns[tun[t].relay] = t
        BY <2>2, <3>2 DEF Leave
      <4>2. r = tun[t].relay /\ conns'[r] = 0
        BY <2>1, <4>1, Bounds DEF TunnelInv, TypeOK, Tunnel
      <4>3. ~tun[t].open
        BY <4>1 DEF TunnelInv, Closes
      <4>. QED
        BY <4>1, <4>2, <4>3 DEF TunnelInv, TypeOK, Stage
    <3>3. ASSUME NEW p \in Relays, Exit(p) PROVE conns'[r] = 0 /\ ~tun'[conns[r]].open
      <4>1. Dies(p)
        BY <3>3 DEF Exit
      <4>. QED
        BY <2>1, <4>1, DiesKeeps, Bounds DEF Tunnel
    <3>. QED
        BY <2>2, <2>4, <3>1, <3>2, <3>3
           DEF RelayNext, Stale, Enter, List, Unlist, RecordOffline, RelaySees, Shutdown, Drain, GraceEnds,
               Start, Idle, CloseIdle, DrainDeadline, routing
  <2>5. CASE Faulty
    <3>1. ASSUME NEW p \in Relays, Crash(p) PROVE conns'[r] = 0 /\ ~tun'[conns[r]].open
      <4>1. Dies(p)
        BY <3>1 DEF Crash
      <4>. QED
        BY <2>1, <4>1, DiesKeeps, Bounds DEF Tunnel
    <3>. QED
        BY <2>2, <2>5, <3>1 DEF Faulty, Silent, Sweep, Heartbeat, Breaks, routing
  <2>6. CASE RequestNext
    BY <2>2, <2>6 DEF RequestNext, Arrive, Route, Look, Hold, HoldEnds, Serve, TunnelGone, Reach, HeadBack,
                      Finish, Cut, Carry, routing
  <2>. QED
    BY <2>3, <2>4, <2>5, <2>6 DEF Next
<1>. QED
    BY <1>1, Inductive, PTL DEF Spec, NewestStays

\* The directory's row moves to newer tunnels, and goes only with a tunnel that
\* closed or a relay not heard of (PGDirectory.Up, Down, Start, Sweep).
THEOREM RowsForward == Spec => RowForward
<1>1. TunnelInv /\ [Next]_vars =>
        [row # 0 /\ row' < row => row' = 0 /\ (~tun[row].open \/ ~beats[tun[row].relay])]_vars
  <2>. SUFFICES ASSUME TunnelInv, Next, row # 0, row' < row
                PROVE  row' = 0 /\ (~tun[row].open \/ ~beats[tun[row].relay])
    OBVIOUS
  <2>1. row \in Tunnel /\ tun[row].relay \in Relays
    BY DEF TunnelInv, TypeOK, Tunnels, Known, Made
  <2>2. row' # row
    BY <2>1, Bounds DEF Tunnel
  <2>3. CASE HomeNext
    BY <2>2, <2>3 DEF HomeNext, Dial, DialLost, NewTunnel, HearDrain, HomeSees, FinishDrained, HomeDeadline,
                      routing
  <2>4. CASE RelayNext
    <3>1. ASSUME NEW t \in Tunnel, List(t) PROVE FALSE
      <4>1. row' = (IF row < t THEN t ELSE row)
        BY <2>2, <3>1 DEF List
      <4>. QED
        BY <2>1, <4>1, Bounds DEF Tunnel
    <3>2. ASSUME NEW t \in Tunnel, Unlist(t) PROVE row' = 0 /\ ~tun[row].open
        BY <2>2, <3>2 DEF Unlist
    <3>3. ASSUME NEW p \in Relays, Start(p) PROVE row' = 0 /\ ~tun[row].open
      <4>1. row' = 0 /\ tun[row].relay = p /\ proc[p] = "down"
        BY <2>2, <3>3 DEF Start
      <4>. QED
        BY <2>1, <4>1 DEF TunnelInv, Closes
    <3>4. ASSUME NEW p \in Relays, Exit(p) PROVE FALSE
        BY <2>2, <3>4 DEF Exit, Dies
    <3>. QED
        BY <2>2, <2>4, <3>1, <3>2, <3>3, <3>4
           DEF RelayNext, Stale, Enter, Install, Leave, RecordOffline, RelaySees, Shutdown, Drain, GraceEnds,
               Idle, CloseIdle, DrainDeadline, routing
  <2>5. CASE Faulty
    BY <2>2, <2>5 DEF Faulty, Crash, Dies, Silent, Sweep, Heartbeat, Breaks, routing
  <2>6. CASE RequestNext
    BY <2>2, <2>6 DEF RequestNext, Arrive, Route, Look, Hold, HoldEnds, Serve, TunnelGone, Reach, HeadBack,
                      Finish, Cut, Carry, routing
  <2>. QED
    BY <2>3, <2>4, <2>5, <2>6 DEF Next
<1>. QED
    BY <1>1, Inductive, PTL DEF Spec, RowForward

\* While nothing breaks and no deadline passes, what a home that can move was
\* asked goes on to its end (Register, drainWatch, finishDrained).
THEOREM WorkKept == Spec => MovesKeepWork
<1>1. TunnelInv /\ [Next]_vars =>
        [calm' /\ modern /\ q.pc \in {"handled", "body"} => q' = q \/ q'.pc \in {"body", "done"}]_vars
  <2>. SUFFICES ASSUME TunnelInv, Next, calm', modern, q.pc \in {"handled", "body"}, q' # q
                PROVE  q'.pc \in {"body", "done"}
    OBVIOUS
  <2>1. q \in Requests
    BY DEF TunnelInv, TypeOK
  <2>2. CASE HomeNext
    BY <2>2 DEF HomeNext, Dial, DialLost, NewTunnel, HearDrain, HomeSees, FinishDrained, HomeDeadline
  <2>3. CASE RelayNext
    BY <2>3 DEF RelayNext, Stale, Enter, List, Install, Unlist, Leave, RecordOffline, RelaySees, Shutdown,
                Drain, GraceEnds, Exit, Start, Idle, CloseIdle, DrainDeadline
  <2>4. CASE Faulty
    BY <2>4 DEF Faulty, Crash, Silent, Sweep, Heartbeat, Breaks
  <2>5. CASE RequestNext
    <3>1. calm /\ tun[q.tun].open
      <4>1. calm
        BY <2>5 DEF RequestNext, Arrive, Route, Look, Hold, HoldEnds, Serve, TunnelGone, Reach, HeadBack,
                    Finish, Cut, Carry, ghosts
      <4>. QED
        BY <4>1 DEF TunnelInv, Working
    <3>2. CASE HeadBack
        BY <2>1, <3>2 DEF HeadBack, Carry, Goes, Requests
    <3>3. CASE Finish
        BY <2>1, <3>3 DEF Finish, Carry, Goes, Requests
    <3>. QED
        BY <2>5, <3>1, <3>2, <3>3 DEF RequestNext, Arrive, Route, Look, Hold, HoldEnds, Serve, TunnelGone,
                                      Reach, Cut, Carry
  <2>. QED
    BY <2>2, <2>3, <2>4, <2>5 DEF Next
<1>. QED
    BY <1>1, Inductive, PTL DEF Spec, MovesKeepWork

================================================================================
