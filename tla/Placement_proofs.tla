------------------------- MODULE Placement_proofs --------------------------
(***************************************************************************)
(* Proofs about Placement, for every set of channels and hosts, every      *)
(* capacity and every value of the bounds: its types, the fence            *)
(* (OneHostPerGeneration), the capacity of a host, and that it implements  *)
(* EncodeOnce.                                                             *)
(***************************************************************************)
EXTENDS Placement, FiniteSetTheorems, TLAPS

-----------------------------------------------------------------------------
(* What the operators return.                                              *)

LEMMA NoRowType == NoRow \in Row /\ ~Active(NoRow)
BY DEF NoRow, Row, ActiveStates, Active

\* A place is chosen among the hosts with room.
LEMMA ChoicesAreHosts ==
    ASSUME NEW c, NEW x
    PROVE  /\ Choices(c, x) \subseteq Room(c) /\ Room(c) \subseteq Hosts
           /\ \A h \in Room(c) : Used(c, h) < Capacity[h]
BY DEF Choices, Room

-----------------------------------------------------------------------------
(* How a step changes the rows: not at all, a new generation for one row,  *)
(* an owner less, or another state of the same placement.                  *)

GrantStep(c, h) ==
    /\ Used(c, h) < Capacity[h]
    /\ \E p \in Row : /\ p.host = h /\ p.gen = seq + 1 /\ Active(p)
                     /\ row' = [row EXCEPT ![c] = p] /\ seq' = seq + 1

ReturnStep(c) ==
    \E p \in Row : /\ p.host = row[c].host /\ Active(row[c]) /\ ~Active(p)
                  /\ row' = [row EXCEPT ![c] = p]
                  /\ \/ p.gen = row[c].gen /\ seq' = seq
                     \/ p.gen = seq + 1 /\ seq' = seq + 1

SameStep(c) ==
    \E p \in Row : /\ p.host = row[c].host /\ p.gen = row[c].gen /\ Active(p) /\ Active(row[c])
                  /\ row' = [row EXCEPT ![c] = p] /\ seq' = seq

RowStep ==
    \/ UNCHANGED rows
    \/ \E c \in Channels : SameStep(c)
    \/ /\ UNCHANGED <<st, gens>>
       /\ \E c \in Channels : ReturnStep(c) \/ \E h \in Hosts : GrantStep(c, h)

\* The service's own copies of a placement are the row it just read or wrote, or gone.
Copied ==
    /\ cache' \in Placements /\ req' \in Placements
    /\ \A d \in Channels : cache'[d] \in {cache[d], row'[d], NoRow}
                          /\ req'[d] \in {req[d], cache[d], row'[d], NoRow}

LEMMA RowKeepsType ==
    ASSUME RowsOK, RowStep, Copied
    PROVE  RowsOK'
<1>1. CASE UNCHANGED rows
  BY <1>1 DEF RowsOK, rows, Copied
<1>2. ASSUME NEW c \in Channels, NEW p \in Row, row' = [row EXCEPT ![c] = p],
             p.gen <= seq', seq' \in Nat, seq <= seq', p.host # None
      PROVE  RowsOK'
  BY <1>2 DEF RowsOK, Placements, Row, Copied
<1>3. \A c \in Channels : Active(row[c]) => row[c].host # None
  BY NoRowType DEF RowsOK
<1>0. seq \in Nat /\ \A c \in Channels : row[c].gen \in Nat /\ row[c].gen <= seq
  BY DEF RowsOK, Placements, Row
<1>4. ASSUME NEW c \in Channels, SameStep(c) PROVE RowsOK'
  <2>1. PICK p \in Row : /\ p.host = row[c].host /\ p.gen = row[c].gen /\ Active(row[c])
                        /\ row' = [row EXCEPT ![c] = p] /\ seq' = seq
    BY <1>4 DEF SameStep
  <2>2. p.gen <= seq' /\ seq' \in Nat /\ seq <= seq' /\ p.host # None
    BY <1>0, <1>3, <2>1
  <2> QED
    BY <1>2, <2>1, <2>2
<1>5. ASSUME NEW c \in Channels, ReturnStep(c) PROVE RowsOK'
  <2>1. PICK p \in Row : /\ p.host = row[c].host /\ Active(row[c])
                        /\ row' = [row EXCEPT ![c] = p]
                        /\ \/ p.gen = row[c].gen /\ seq' = seq
                           \/ p.gen = seq + 1 /\ seq' = seq + 1
    BY <1>5 DEF ReturnStep
  <2>2. p.gen <= seq' /\ seq' \in Nat /\ seq <= seq' /\ p.host # None
    BY <1>0, <1>3, <2>1
  <2> QED
    BY <1>2, <2>1, <2>2
<1>6. ASSUME NEW c \in Channels, NEW h \in Hosts, GrantStep(c, h) PROVE RowsOK'
  <2>1. PICK p \in Row : /\ p.host = h /\ p.gen = seq + 1
                        /\ row' = [row EXCEPT ![c] = p] /\ seq' = seq + 1
    BY <1>6 DEF GrantStep
  <2>2. p.gen <= seq' /\ seq' \in Nat /\ seq <= seq' /\ p.host # None
    BY <1>0, <2>1, PlacementAssumption DEF PlacementAssumption
  <2> QED
    BY <1>2, <2>1, <2>2
<1> QED
  BY <1>1, <1>4, <1>5, <1>6 DEF RowStep

LEMMA PutRowStep ==
    ASSUME RowsOK, NEW c \in Channels, NEW h \in Room(c), NEW s \in ActiveStates, PutRow(c, h, s)
    PROVE  GrantStep(c, h) /\ row'[c] \in Row
<1> DEFINE p == [host |-> h, gen |-> seq + 1, state |-> s, aged |-> FALSE]
<1>1. p \in Row /\ Active(p)
  BY ChoicesAreHosts DEF RowsOK, Row, Active
<1>2. row' = [row EXCEPT ![c] = p] /\ seq' = seq + 1 /\ p.host = h /\ p.gen = seq + 1
  BY DEF PutRow
<1> QED
  BY <1>1, <1>2, ChoicesAreHosts DEF GrantStep, RowsOK, Placements

\* PlaceUnlessValid keeps the row or grants a new generation.
LEMMA PlaceStep ==
    ASSUME RowsOK, NEW c \in Channels, PlaceUnlessValid(c)
    PROVE  /\ UNCHANGED rows \/ \E h \in Hosts : GrantStep(c, h)
           /\ row' \in Placements
<1>1. CASE UNCHANGED rows
  BY <1>1 DEF rows, RowsOK
<1>2. ASSUME NEW h \in Choices(c, None), PutRow(c, h, "placing")
      PROVE  (\E k \in Hosts : GrantStep(c, k)) /\ row' \in Placements
  <2>1. h \in Room(c) /\ h \in Hosts /\ "placing" \in ActiveStates
    BY ChoicesAreHosts DEF ActiveStates
  <2>2. GrantStep(c, h)
    BY <1>2, <2>1, PutRowStep
  <2> QED
    BY <2>1, <2>2 DEF GrantStep, RowsOK, Placements
<1> QED
  BY <1>1, <1>2 DEF PlaceUnlessValid

\* tv_placement_release returns an active placement or changes nothing.
LEMMA ReleaseStep ==
    ASSUME RowsOK, NEW c \in Channels, NEW g, row' = Released(c, g), UNCHANGED seq
    PROVE  (UNCHANGED rows \/ ReturnStep(c)) /\ row' \in Placements
<1> DEFINE p == [row[c] EXCEPT !.state = "released"]
<1>1. CASE Releasable(c, g)
  <2>1. row' = [row EXCEPT ![c] = p]
    BY <1>1 DEF Released
  <2>2. p \in Row /\ ~Active(p) /\ p.host = row[c].host /\ p.gen = row[c].gen
    BY DEF RowsOK, Placements, Row, Active, ActiveStates
  <2>3. Active(row[c])
    BY <1>1 DEF Releasable
  <2> QED
    BY <2>1, <2>2, <2>3 DEF ReturnStep, RowsOK, Placements
<1>2. CASE ~Releasable(c, g)
  BY <1>2 DEF Released, rows, RowsOK
<1> QED
  BY <1>1, <1>2


-----------------------------------------------------------------------------
(* The engines keep their types, and count what runs.                      *)

\* What an engine holds it held before, or takes from a placement that names it.
EngineClaims ==
    \A d \in Channels, k \in Hosts :
       /\ gens'[k][d] \in {gens[k][d], start[k][d], check[k][d].new, 0}
       /\ \/ start'[k][d] \in {start[k][d], 0}
          \/ start'[k][d] = row'[d].gen /\ row'[d].host = k
          \/ start'[k][d] = cache[d].gen /\ cache[d].host = k
       /\ \/ check'[k][d].new \in {check[k][d].new, 0}
          \/ check'[k][d].new = row'[d].gen /\ row'[d].host = k

LEMMA EnginesIdle ==
    ASSUME EnginesOK, UNCHANGED engines
    PROVE  EnginesOK' /\ EngineClaims
BY DEF EnginesOK, engines, EngineClaims

LEMMA RowsIdle ==
    ASSUME RowsOK, UNCHANGED rows, UNCHANGED service
    PROVE  RowStep /\ Copied
BY DEF RowsOK, rows, service, RowStep, Copied, Placements

\* What one step does to the rows, the copies and the engines.
Stepped == RowStep /\ Copied /\ EnginesOK' /\ EngineClaims

LEMMA StartStationStep ==
    ASSUME RowsOK, EnginesOK, NEW h \in Hosts, NEW c \in Channels, StartStation(h, c)
    PROVE  Stepped
<1>1. RowStep /\ Copied
  BY RowsIdle DEF StartStation
<1>2. start' = [start EXCEPT ![h][c] = 0] /\ UNCHANGED check
  BY DEF StartStation
<1>3. CASE Started(h, c)
  BY <1>1, <1>2, <1>3 DEF EnginesOK, Started, EngineClaims, Stepped
<1>4. ASSUME NEW v \in reg[h], StartedEvicting(h, c, v) PROVE Stepped
  <2>1. /\ st' \in [Hosts -> [Channels -> {"off", "on", "stopping"}]]
        /\ \A k \in Hosts, d \in Channels : st'[k][d] = "on" => d \in reg'[k]
    BY <1>4 DEF EnginesOK, StartedEvicting, Stopping
  <2>2. gens' \in [Hosts -> [Channels -> Nat]] /\ start' \in [Hosts -> [Channels -> Nat]]
    BY <1>2, <1>4 DEF EnginesOK, StartedEvicting
  <2>3. reg' \in [Hosts -> SUBSET Channels] /\ acks' \subseteq Hosts \X Channels \X Nat
    BY <1>4 DEF EnginesOK, StartedEvicting
  <2>4. giveBack' \subseteq Hosts \X Channels \X Nat
    BY <1>4 DEF EnginesOK, StartedEvicting, Taken
  <2>5. EngineClaims
    BY <1>2, <1>4 DEF EnginesOK, StartedEvicting, EngineClaims
  <2> QED
    BY <1>1, <1>2, <2>1, <2>2, <2>3, <2>4, <2>5 DEF EnginesOK, Stepped
<1> QED
  BY <1>3, <1>4 DEF StartStation

LEMMA StartFailsStep ==
    ASSUME RowsOK, EnginesOK, NEW h \in Hosts, NEW c \in Channels, StartFails(h, c)
    PROVE  Stepped
<1>1. RowStep /\ Copied
  BY RowsIdle DEF StartFails
<1>2. start' = [start EXCEPT ![h][c] = 0] /\ UNCHANGED <<acks, check>>
  BY DEF StartFails
<1>3. ASSUME UNCHANGED <<st, gens, reg, giveBack>> PROVE EnginesOK' /\ EngineClaims
  BY <1>2, <1>3 DEF EnginesOK, EngineClaims
<1>4. ASSUME NEW v \in reg[h], Evicted(h, v) PROVE EnginesOK' /\ EngineClaims
  BY <1>2, <1>4 DEF EnginesOK, Evicted, EngineClaims, Taken, Stopping
<1>5. EnginesOK' /\ EngineClaims
  BY <1>3, <1>4 DEF StartFails
<1> QED
  BY <1>1, <1>5 DEF Stepped

LEMMA ReapIdleStep ==
    ASSUME RowsOK, EnginesOK, NEW h \in Hosts, NEW c \in Channels, ReapIdle(h, c)
    PROVE  Stepped
<1>1. RowStep /\ Copied
  BY RowsIdle DEF ReapIdle
<1>2. EnginesOK' /\ EngineClaims
  BY DEF EnginesOK, ReapIdle, EngineClaims, Taken, Stopping
<1> QED
  BY <1>1, <1>2 DEF Stepped

LEMMA StationDoneStep ==
    ASSUME RowsOK, EnginesOK, NEW h \in Hosts, NEW c \in Channels, StationDone(h, c)
    PROVE  Stepped
<1>1. RowStep /\ Copied
  BY RowsIdle DEF StationDone
<1> DEFINE k == [check[h][c] EXCEPT !.same = FALSE]
<1>3. check[h][c] \in CheckRow
  BY DEF EnginesOK
<1>4. k \in CheckRow /\ k.new = check[h][c].new
  BY <1>3 DEF CheckRow
<1>5. check' = [check EXCEPT ![h][c] = k]
  BY DEF StationDone
<1> HIDE DEF k
<1>6. check' \in [Hosts -> [Channels -> CheckRow]]
  BY <1>4, <1>5 DEF EnginesOK
<1>7. \A d \in Channels, j \in Hosts : check'[j][d].new = check[j][d].new
  BY <1>4, <1>5 DEF EnginesOK
<1>2. EnginesOK' /\ EngineClaims
  BY <1>6, <1>7 DEF EnginesOK, StationDone, EngineClaims
<1> QED
  BY <1>1, <1>2 DEF Stepped

LEMMA StopAllStep ==
    ASSUME RowsOK, EnginesOK, NEW h \in Hosts, StopAll(h)
    PROVE  Stepped
<1>1. RowStep /\ Copied
  BY RowsIdle DEF StopAll
<1>2. EnginesOK' /\ EngineClaims
  BY DEF EnginesOK, StopAll, EngineClaims, Stopping
<1> QED
  BY <1>1, <1>2 DEF Stepped

LEMMA CheckReadStep ==
    ASSUME RowsOK, EnginesOK, NEW h \in Hosts, NEW c \in Channels, CheckRead(h, c)
    PROVE  Stepped
<1>1. RowStep /\ Copied
  BY RowsIdle DEF CheckRead
<1>2. EnginesOK' /\ EngineClaims
  BY DEF EnginesOK, CheckRead, EngineClaims, CheckRow, Mine, RowsOK, Placements, Row, rows
<1> QED
  BY <1>1, <1>2 DEF Stepped

LEMMA AdoptStep ==
    ASSUME RowsOK, EnginesOK, NEW h \in Hosts, NEW c \in Channels, Adopt(h, c)
    PROVE  Stepped
<1>1. RowStep /\ Copied
  BY RowsIdle DEF Adopt
<1>2. EnginesOK' /\ EngineClaims
  BY DEF EnginesOK, Adopt, EngineClaims, CheckRow, NoCheck
<1> QED
  BY <1>1, <1>2 DEF Stepped

LEMMA FencedStep ==
    ASSUME RowsOK, EnginesOK, NEW h \in Hosts, NEW c \in Channels, Fenced(h, c)
    PROVE  Stepped
<1>1. RowStep /\ Copied
  BY RowsIdle DEF Fenced
<1>2. EnginesOK' /\ EngineClaims
  BY DEF EnginesOK, Fenced, EngineClaims, CheckRow, NoCheck, Stopping
<1> QED
  BY <1>1, <1>2 DEF Stepped

LEMMA CrashStep ==
    ASSUME RowsOK, EnginesOK, NEW h \in Hosts, Crash(h)
    PROVE  Stepped
<1>1. RowStep /\ Copied
  BY RowsIdle DEF Crash
<1>2. EnginesOK' /\ EngineClaims
  BY DEF EnginesOK, Crash, EngineClaims, Of, NoCheck, CheckRow
<1> QED
  BY <1>1, <1>2 DEF Stepped

-----------------------------------------------------------------------------
(* The front door and the writes of the engines.                           *)

LEMMA ResolveCachedStep ==
    ASSUME RowsOK, EnginesOK, NEW c \in Channels, ResolveCached(c)
    PROVE  Stepped
<1>1. UNCHANGED rows /\ UNCHANGED engines
  BY DEF ResolveCached
<1>2. Copied
  BY NoRowType DEF ResolveCached, Answered, Copied, RowsOK, Placements, rows
<1> QED
  BY <1>1, <1>2, EnginesIdle DEF RowStep, Stepped

LEMMA InvalidateStep ==
    ASSUME RowsOK, EnginesOK, NEW c \in Channels, Invalidate(c)
    PROVE  Stepped
<1>1. UNCHANGED rows /\ UNCHANGED engines
  BY DEF Invalidate
<1>2. Copied
  BY NoRowType DEF Invalidate, Answered, Copied, RowsOK, Placements, rows
<1> QED
  BY <1>1, <1>2, EnginesIdle DEF RowStep, Stepped

LEMMA ServeStep ==
    ASSUME RowsOK, EnginesOK, NEW c \in Channels, Serve(c)
    PROVE  Stepped
<1>1. UNCHANGED rows /\ UNCHANGED engines
  BY DEF Serve
<1>2. Copied
  BY NoRowType DEF Serve, Answered, Copied, RowsOK, Placements, rows
<1> QED
  BY <1>1, <1>2, EnginesIdle DEF RowStep, Stepped

LEMMA RefuseHomeStep ==
    ASSUME RowsOK, EnginesOK, NEW c \in Channels, RefuseHome(c)
    PROVE  Stepped
<1>1. UNCHANGED rows /\ UNCHANGED engines
  BY DEF RefuseHome
<1>2. Copied
  BY NoRowType DEF RefuseHome, Answered, Copied, RowsOK, Placements, rows
<1> QED
  BY <1>1, <1>2, EnginesIdle DEF RowStep, Stepped

LEMMA RefuseNodeStep ==
    ASSUME RowsOK, EnginesOK, NEW c \in Channels, RefuseNode(c)
    PROVE  Stepped
<1>1. UNCHANGED rows /\ UNCHANGED engines
  BY DEF RefuseNode
<1>2. Copied
  BY NoRowType DEF RefuseNode, Answered, Copied, RowsOK, Placements, rows
<1> QED
  BY <1>1, <1>2, EnginesIdle DEF RowStep, Stepped

LEMMA UnreadableNodeStep ==
    ASSUME RowsOK, EnginesOK, NEW c \in Channels, UnreadableNode(c)
    PROVE  Stepped
<1>1. UNCHANGED rows /\ UNCHANGED engines
  BY DEF UnreadableNode
<1>2. Copied
  BY NoRowType DEF UnreadableNode, Answered, Copied, RowsOK, Placements, rows
<1> QED
  BY <1>1, <1>2, EnginesIdle DEF RowStep, Stepped

LEMMA ForwardFailsStep ==
    ASSUME RowsOK, EnginesOK, NEW c \in Channels, ForwardFails(c)
    PROVE  Stepped
<1>1. UNCHANGED rows /\ UNCHANGED engines
  BY DEF ForwardFails
<1>2. Copied
  BY NoRowType DEF ForwardFails, Answered, Copied, RowsOK, Placements, rows
<1> QED
  BY <1>1, <1>2, EnginesIdle DEF RowStep, Stepped

LEMMA ResolveRowStep ==
    ASSUME RowsOK, EnginesOK, NEW c \in Channels, ResolveRow(c)
    PROVE  Stepped
<1>1. UNCHANGED engines
  BY DEF ResolveRow
<1>2. (UNCHANGED rows \/ \E h \in Hosts : GrantStep(c, h)) /\ row' \in Placements
  BY PlaceStep DEF ResolveRow
<1>3. Copied
  BY <1>2 DEF ResolveRow, Copied, RowsOK, Placements
<1> QED
  BY <1>1, <1>2, <1>3, EnginesIdle DEF RowStep, Stepped, engines

LEMMA AllowHomeStep ==
    ASSUME RowsOK, EnginesOK, NEW c \in Channels, AllowHome(c)
    PROVE  Stepped
<1>1. /\ UNCHANGED <<st, gens, reg, acks, giveBack, check>>
      /\ start' = [start EXCEPT ![Home][c] = IF cache'[c].host = Home THEN cache'[c].gen ELSE 0]
  BY DEF AllowHome
<1>2. (UNCHANGED rows \/ \E h \in Hosts : GrantStep(c, h)) /\ row' \in Placements
  <2>1. CASE CachedAlive(c)
    BY <2>1 DEF AllowHome, RowsOK, rows
  <2>2. CASE ~CachedAlive(c)
    BY <2>2, PlaceStep DEF AllowHome
  <2> QED
    BY <2>1, <2>2
<1>3. cache' \in Placements /\ \A d \in Channels : cache'[d] \in {cache[d], row'[d]}
  BY <1>2 DEF AllowHome, RowsOK, Placements
<1>4. Copied
  BY <1>3, NoRowType DEF AllowHome, Answered, Copied, RowsOK, Placements
<1>5. cache'[c].gen \in Nat /\ Home \in Hosts
  BY <1>3, PlacementAssumption DEF Placements, Row, PlacementAssumption
<1>6. EnginesOK' /\ EngineClaims
  BY <1>1, <1>3, <1>5 DEF EnginesOK, EngineClaims
<1> QED
  BY <1>1, <1>2, <1>4, <1>6 DEF RowStep, Stepped

LEMMA AllowNodeStep ==
    ASSUME RowsOK, EnginesOK, NEW c \in Channels, req[c].host \in Hosts, AllowNode(c)
    PROVE  Stepped
<1>1. UNCHANGED rows
  BY DEF AllowNode
<1>2. Copied
  BY NoRowType DEF AllowNode, Answered, Copied, RowsOK, Placements, rows
<1>3. EnginesOK' /\ EngineClaims
  BY DEF AllowNode, NodeAllows, EnginesOK, EngineClaims, RowsOK, Placements, Row, rows
<1> QED
  BY <1>1, <1>2, <1>3 DEF RowStep, Stepped

LEMMA AckStep ==
    ASSUME RowsOK, EnginesOK, NEW x \in acks, Ack(x[1], x[2], x[3])
    PROVE  Stepped
<1> DEFINE c == x[2]
           p == [row[c] EXCEPT !.state = "live"]
<1>1. c \in Channels /\ UNCHANGED <<st, gens, start, giveBack, check, reg, seq, cache, req>>
  BY DEF EnginesOK, Ack, service
<1>2. EnginesOK' /\ EngineClaims
  BY <1>1 DEF EnginesOK, Ack, EngineClaims
<1>3. RowStep /\ row' \in Placements
  <2>1. CASE row' = row
    BY <1>1, <2>1 DEF RowStep, rows, RowsOK
  <2>2. CASE row' = [row EXCEPT ![c].state = "live"] /\ Active(row[c])
    <3>1. row' = [row EXCEPT ![c] = p]
      BY <2>2
    <3>2. p \in Row /\ Active(p) /\ p.host = row[c].host /\ p.gen = row[c].gen
      <4>1. row[c] \in Row
        BY <1>1 DEF RowsOK, Placements
      <4>2. p \in Row /\ p.state = "live" /\ p.host = row[c].host /\ p.gen = row[c].gen
        BY <4>1 DEF Row, ActiveStates
      <4> HIDE DEF p
      <4> QED
        BY <4>2 DEF Active, ActiveStates
    <3> QED
      BY <1>1, <2>2, <3>1, <3>2 DEF RowStep, SameStep, RowsOK, Placements
  <2> QED
    BY <2>1, <2>2 DEF Ack
<1>4. Copied
  BY <1>1 DEF Copied, RowsOK, Placements
<1> QED
  BY <1>2, <1>3, <1>4 DEF Stepped

LEMMA GiveBackStep ==
    ASSUME RowsOK, EnginesOK, NEW x \in giveBack, GiveBack(x[1], x[2], x[3])
    PROVE  Stepped
<1>1. x[2] \in Channels /\ UNCHANGED <<st, gens, start, acks, check, reg, seq, cache, req>>
  BY DEF EnginesOK, GiveBack, service
<1>2. EnginesOK' /\ EngineClaims
  BY <1>1 DEF EnginesOK, GiveBack, EngineClaims
<1>3. UNCHANGED rows \/ ReturnStep(x[2])
  BY <1>1, ReleaseStep DEF GiveBack, rows
<1>4. Copied
  BY <1>1 DEF Copied, RowsOK, Placements
<1> QED
  BY <1>1, <1>2, <1>3, <1>4 DEF Stepped, RowStep

-----------------------------------------------------------------------------
(* The sweeper, time and the commands.                                     *)

LEMMA FailoverStep ==
    ASSUME RowsOK, EnginesOK, HealthOK, NEW item \in todo, Failover(item)
    PROVE  Stepped
<1>1. item.c \in Channels /\ UNCHANGED engines /\ UNCHANGED req
  BY DEF HealthOK, Failover
<1>2. /\ row' \in Placements
      /\ \/ UNCHANGED rows
         \/ ReturnStep(item.c) \/ \E h \in Hosts : GrantStep(item.c, h)
  <2>1. CASE ~item.watched
    BY <1>1, <2>1, ReleaseStep DEF Failover
  <2>2. CASE item.watched /\ Room(item.c) = {}
    BY <2>2 DEF Failover, rows, RowsOK
  <2>3. CASE item.watched /\ Room(item.c) # {}
    BY <1>1, <2>3, PlaceStep DEF Failover
  <2> QED
    BY <2>1, <2>2, <2>3
<1>3. Copied
  BY <1>1, <1>2, NoRowType DEF Failover, Copied, RowsOK, Placements
<1> QED
  BY <1>1, <1>2, <1>3, EnginesIdle DEF Stepped, RowStep, engines

LEMMA MoveStep ==
    ASSUME RowsOK, EnginesOK, NEW c \in Channels, Move(c)
    PROVE  Stepped
<1>1. UNCHANGED engines /\ UNCHANGED req
  BY DEF Move
<1>2. PICK h \in Room(c) : PutRow(c, h, "moving")
  BY DEF Move
<1>3. h \in Room(c) /\ h \in Hosts /\ "moving" \in ActiveStates
  BY ChoicesAreHosts DEF ActiveStates
<1>4. GrantStep(c, h)
  BY <1>2, <1>3, PutRowStep
<1>5. row' \in Placements
  BY <1>4 DEF GrantStep, RowsOK, Placements
<1>6. Copied
  BY <1>1, <1>5 DEF Move, Copied, RowsOK, Placements
<1> QED
  BY <1>1, <1>3, <1>4, <1>6, EnginesIdle DEF Stepped, RowStep, engines

LEMMA DrainMoveStep ==
    ASSUME RowsOK, EnginesOK, NEW c \in Channels, DrainMove(c)
    PROVE  Stepped
<1> DEFINE leaving == IF Active(row[c]) THEN row[c].host ELSE None
<1>1. UNCHANGED engines /\ UNCHANGED req
  BY DEF DrainMove
<1>2. CASE UNCHANGED <<rows, cache>>
  BY <1>1, <1>2, EnginesIdle, RowsIdle DEF Stepped, service
<1>3. CASE (\E h \in Choices(c, leaving) : PutRow(c, h, "moving")) /\ cache' = [cache EXCEPT ![c] = row'[c]]
  <2>1. PICK h \in Choices(c, leaving) : PutRow(c, h, "moving")
    BY <1>3
  <2>2. h \in Room(c) /\ h \in Hosts /\ "moving" \in ActiveStates
    BY ChoicesAreHosts DEF ActiveStates
  <2>3. GrantStep(c, h)
    BY <2>1, <2>2, PutRowStep
  <2>4. row' \in Placements
    BY <2>3 DEF GrantStep, RowsOK, Placements
  <2>5. Copied
    BY <1>1, <1>3, <2>4 DEF Copied, RowsOK, Placements
  <2> QED
    BY <1>1, <2>2, <2>3, <2>5, EnginesIdle DEF Stepped, RowStep, engines
<1> QED
  BY <1>2, <1>3 DEF DrainMove

LEMMA StopChannelStep ==
    ASSUME RowsOK, EnginesOK, NEW c \in Channels, StopChannel(c)
    PROVE  Stepped
<1> DEFINE p == [row[c] EXCEPT !.state = "released", !.gen = seq + 1]
<1>1. UNCHANGED engines /\ UNCHANGED req /\ Active(row[c])
  BY DEF StopChannel
<1>2. row' = [row EXCEPT ![c] = p] /\ seq' = seq + 1
  BY DEF StopChannel
<1>3. p \in Row /\ ~Active(p) /\ p.host = row[c].host /\ p.gen = seq + 1
  <2>1. row[c] \in Row /\ seq + 1 \in Nat
    BY DEF RowsOK, Placements
  <2>2. p.host = row[c].host /\ p.gen = seq + 1 /\ p.state = "released"
    BY <2>1 DEF Row
  <2>3. [row[c] EXCEPT !.state = "released"] \in Row
    BY <2>1 DEF Row
  <2>4. \A x \in Row : [x EXCEPT !.gen = seq + 1] \in Row
    BY <2>1 DEF Row
  <2>5. p = [[row[c] EXCEPT !.state = "released"] EXCEPT !.gen = seq + 1]
    BY Zenon
  <2> HIDE DEF p
  <2> QED
    BY <2>2, <2>3, <2>4, <2>5 DEF Active, ActiveStates
<1>4. ReturnStep(c)
  BY <1>1, <1>2, <1>3 DEF ReturnStep
<1>5. Copied
  BY <1>1, <1>2, <1>3, NoRowType DEF StopChannel, Copied, RowsOK, Placements
<1> QED
  BY <1>1, <1>4, <1>5, EnginesIdle DEF Stepped, RowStep, engines

LEMMA AgeStep ==
    ASSUME RowsOK, EnginesOK, NEW c \in Channels, Age(c)
    PROVE  Stepped
<1> DEFINE p == [row[c] EXCEPT !.aged = TRUE]
<1>1. UNCHANGED engines /\ UNCHANGED <<cache, req>> /\ Active(row[c])
  BY DEF Age, service
<1>2. row' = [row EXCEPT ![c] = p] /\ seq' = seq
  BY DEF Age
<1>3. p \in Row /\ Active(p) /\ p.host = row[c].host /\ p.gen = row[c].gen
  BY <1>1 DEF RowsOK, Placements, Row, Active, ActiveStates
<1>4. SameStep(c)
  BY <1>1, <1>2, <1>3 DEF SameStep
<1>5. Copied
  BY <1>1 DEF Copied, RowsOK, Placements
<1> QED
  BY <1>1, <1>4, <1>5, EnginesIdle DEF Stepped, RowStep
LEMMA QuietStep ==
    ASSUME RowsOK, EnginesOK, UNCHANGED <<rows, service, engines>>
    PROVE  Stepped
BY EnginesIdle, RowsIdle DEF Stepped

LEMMA FrontDoorStep ==
    ASSUME RowsOK, EnginesOK, NEW c \in Channels, FrontDoor(c)
    PROVE  Stepped
<1>1. CASE AllowNode(c)
  <2>1. req[c].host \in Hosts
    BY <1>1, NoRowType DEF AllowNode, NodeAllows, RowsOK, Placements, Row
  <2> QED
    BY <1>1, <2>1, AllowNodeStep
<1>2. CASE ResolveCached(c) \/ ResolveRow(c) \/ Invalidate(c) \/ Serve(c)
  BY <1>2, ResolveCachedStep, ResolveRowStep, InvalidateStep, ServeStep
<1>3. CASE AllowHome(c) \/ RefuseHome(c) \/ RefuseNode(c) \/ UnreadableNode(c) \/ ForwardFails(c)
  BY <1>3, AllowHomeStep, RefuseHomeStep, RefuseNodeStep, UnreadableNodeStep, ForwardFailsStep
<1> QED
  BY <1>1, <1>2, <1>3 DEF FrontDoor

LEMMA StationStep ==
    ASSUME RowsOK, EnginesOK, NEW h \in Hosts, NEW c \in Channels, Station(h, c)
    PROVE  Stepped
BY StartStationStep, StartFailsStep, ReapIdleStep, StationDoneStep, CheckReadStep,
   AdoptStep, FencedStep DEF Station

LEMMA NextStep ==
    ASSUME RowsOK, EnginesOK, HealthOK, [Next]_vars
    PROVE  Stepped
<1>1. ASSUME NEW c \in Channels, TuneIn(c) \/ TuneOut(c) PROVE Stepped
  BY <1>1, QuietStep DEF TuneIn, TuneOut
<1>2. ASSUME NEW c \in Channels, Age(c) \/ Move(c) \/ StopChannel(c) \/ DrainMove(c) PROVE Stepped
  BY <1>2, AgeStep, MoveStep, StopChannelStep, DrainMoveStep
<1>3. CASE Sweep
  BY <1>3, QuietStep DEF Sweep
<1>4. ASSUME NEW h \in Hosts, Beat(h) \/ Lapse(h) \/ Drain(h) \/ Cut(h) \/ Recover(h) PROVE Stepped
  BY <1>4, QuietStep DEF Beat, Lapse, Drain, Cut, Recover
<1>5. CASE UNCHANGED vars
  BY <1>5, QuietStep DEF vars
<1> QED
  BY <1>1, <1>2, <1>3, <1>4, <1>5, FrontDoorStep, StationStep, AckStep, GiveBackStep, FailoverStep,
     CrashStep, StopAllStep
     DEF Next

-----------------------------------------------------------------------------
(* The types.                                                               *)

OthersOK ==
    /\ HealthOK
    /\ barred \subseteq Hosts /\ moves \subseteq Channels /\ watch \subseteq Channels
    /\ link \in [Hosts -> {"up", "cut", "down"}]
    /\ left \in [{"views", "events"} -> Nat]

LEMMA HealthIdle ==
    ASSUME HealthOK, UNCHANGED health
    PROVE  HealthOK'
BY DEF HealthOK, health

\* What the bounds leave stays a number.
LEMMA SpendType ==
    ASSUME OthersOK, NEW k \in {"views", "events"}, Spend(k)
    PROVE  left' \in [{"views", "events"} -> Nat]
<1>1. left[k] \in Nat /\ left[k] > 0
  BY DEF OthersOK, Spend
<1>2. left[k] - 1 \in Nat
  BY <1>1
<1> QED
  BY <1>2 DEF OthersOK, Spend

LEMMA FrontDoorOthers ==
    ASSUME RowsOK, OthersOK, NEW c \in Channels, FrontDoor(c)
    PROVE  OthersOK'
<1>1. UNCHANGED <<barred, moves, link, watch, left, was, todo>>
  BY DEF FrontDoor, ResolveCached, ResolveRow, Invalidate, Serve, AllowHome, RefuseHome, AllowNode,
         RefuseNode, UnreadableNode, ForwardFails, health
<1>2. CASE UNCHANGED health
  BY <1>1, <1>2, HealthIdle DEF OthersOK
<1>3. CASE Serve(c) \/ UnreadableNode(c)
  BY <1>1, <1>3 DEF OthersOK, HealthOK, Serve, UnreadableNode
<1>4. CASE ForwardFails(c)
  <2> DEFINE h == req[c].host
  <2>1. fails' \in [Hosts -> Nat]
    <3>1. \A k \in Hosts : fails[k] + 1 \in Nat
      BY DEF OthersOK, HealthOK
    <3> QED
      BY <1>4, <3>1 DEF OthersOK, HealthOK, ForwardFails
  <2>2. marked' \in [Hosts -> BOOLEAN]
    BY <1>4 DEF OthersOK, HealthOK, ForwardFails
  <2>3. beat' \in [Hosts -> {"stale", "fresh", "newer"}]
    BY <1>4 DEF OthersOK, HealthOK, ForwardFails
  <2> QED
    BY <1>1, <1>4, <2>1, <2>2, <2>3 DEF OthersOK, HealthOK, ForwardFails
<1> QED
  BY <1>2, <1>3, <1>4 DEF FrontDoor, ResolveCached, ResolveRow, Invalidate, AllowHome, RefuseHome,
     AllowNode, RefuseNode

LEMMA StationOthers ==
    ASSUME OthersOK, NEW h \in Hosts, NEW c \in Channels, Station(h, c)
    PROVE  OthersOK'
<1>1. UNCHANGED <<health, barred, moves, link, watch>>
  BY DEF Station, StartStation, StartFails, ReapIdle, StationDone, CheckRead, Adopt, Fenced
<1>2. UNCHANGED left \/ Spend("events")
  BY DEF Station, StartStation, StartFails, ReapIdle, StationDone, CheckRead, Adopt, Fenced
<1> QED
  BY <1>1, <1>2, HealthIdle, SpendType DEF OthersOK

LEMMA SweepOthers ==
    ASSUME RowsOK, OthersOK, Sweep
    PROVE  OthersOK'
<1>1. seen' \in [Hosts -> BOOLEAN] /\ marked' \in [Hosts -> BOOLEAN] /\ fails' \in [Hosts -> Nat]
  BY DEF OthersOK, HealthOK, Sweep, Load
<1>2. was' \in [Hosts -> BOOLEAN]
  BY <1>1 DEF Sweep
<1>3. todo' \subseteq [c : Channels, gen : Nat, watched : BOOLEAN]
  <2> SUFFICES ASSUME NEW x \in todo' PROVE x \in [c : Channels, gen : Nat, watched : BOOLEAN]
    OBVIOUS
  <2>1. PICK c \in Channels : x = [c |-> c, gen |-> row[c].gen, watched |-> c \in watch]
    BY DEF Sweep
  <2>2. row[c].gen \in Nat
    BY DEF RowsOK, Placements, Row
  <2> QED
    BY <2>1, <2>2
<1> QED
  BY <1>1, <1>2, <1>3 DEF OthersOK, HealthOK, Sweep

LEMMA CommandOthers ==
    ASSUME OthersOK, NEW c \in Channels,
           TuneIn(c) \/ TuneOut(c) \/ Age(c) \/ Move(c) \/ StopChannel(c) \/ DrainMove(c)
    PROVE  OthersOK'
<1>1. CASE TuneIn(c) \/ TuneOut(c)
  BY <1>1, HealthIdle, SpendType DEF OthersOK, TuneIn, TuneOut
<1>2. CASE Age(c) \/ Move(c) \/ StopChannel(c)
  BY <1>2, HealthIdle, SpendType DEF OthersOK, Age, Move, StopChannel
<1>3. CASE DrainMove(c)
  BY <1>3, HealthIdle DEF OthersOK, DrainMove
<1> QED
  BY <1>1, <1>2, <1>3

LEMMA HostOthers ==
    ASSUME OthersOK, NEW h \in Hosts,
           Beat(h) \/ Lapse(h) \/ StopAll(h) \/ Drain(h) \/ Crash(h) \/ Cut(h) \/ Recover(h)
    PROVE  OthersOK'
<1>1. CASE Beat(h) \/ Lapse(h)
  BY <1>1 DEF OthersOK, HealthOK, Beat, Lapse
<1>2. CASE Drain(h)
  BY <1>2, HealthIdle, SpendType DEF OthersOK, Drain
<1>3. CASE Crash(h) \/ Cut(h) \/ StopAll(h)
  BY <1>3, HealthIdle, SpendType DEF OthersOK, Crash, Cut, StopAll
<1>4. CASE Recover(h)
  BY <1>4, HealthIdle DEF OthersOK, Recover
<1> QED
  BY <1>1, <1>2, <1>3, <1>4

LEMMA NextOthers ==
    ASSUME RowsOK, OthersOK, [Next]_vars
    PROVE  OthersOK'
<1>1. ASSUME NEW x \in acks, Ack(x[1], x[2], x[3]) PROVE OthersOK'
  BY <1>1, HealthIdle DEF OthersOK, Ack
<1>2. ASSUME NEW x \in giveBack, GiveBack(x[1], x[2], x[3]) PROVE OthersOK'
  BY <1>2, HealthIdle DEF OthersOK, GiveBack
<1>3. ASSUME NEW item \in todo, Failover(item) PROVE OthersOK'
  BY <1>3 DEF OthersOK, HealthOK, Failover
<1>4. CASE UNCHANGED vars
  BY <1>4, HealthIdle DEF OthersOK, vars
<1> QED
  BY <1>1, <1>2, <1>3, <1>4, FrontDoorOthers, StationOthers, SweepOthers, CommandOthers, HostOthers DEF Next

LEMMA TypeInit == Init => TypeOK
<1> SUFFICES ASSUME Init PROVE TypeOK
  OBVIOUS
<1>1. RowsOK
  <2>1. row \in Placements /\ cache \in Placements /\ req \in Placements
    BY NoRowType DEF Init, Placements
  <2>2. \A c \in Channels : row[c] = NoRow /\ row[c].gen = 0
    BY DEF Init, NoRow
  <2> QED
    BY <2>1, <2>2 DEF Init, RowsOK
<1>2. HealthOK
  BY DEF Init, HealthOK
<1>3. EnginesOK
  BY DEF Init, EnginesOK, PerHostAndChannel, CheckRow, NoCheck
<1>4. left \in [{"views", "events"} -> Nat]
  BY PlacementAssumption DEF Init, PlacementAssumption
<1> QED
  BY <1>1, <1>2, <1>3, <1>4 DEF Init, TypeOK

LEMMA TypeStep ==
    ASSUME TypeOK, [Next]_vars
    PROVE  TypeOK' /\ Stepped
<1>1. RowsOK /\ EnginesOK /\ OthersOK /\ HealthOK
  BY DEF TypeOK, OthersOK
<1>2. Stepped
  BY <1>1, NextStep
<1>3. RowsOK' /\ EnginesOK'
  BY <1>1, <1>2, RowKeepsType DEF Stepped
<1>4. OthersOK'
  BY <1>1, NextOthers
<1> QED
  BY <1>2, <1>3, <1>4 DEF TypeOK, OthersOK

\* Every variable keeps its type, no row is ahead of the generation sequence, and a
\* station that runs is counted against its host's cap (registry.go).
THEOREM TypeCorrect == Spec => []TypeOK
<1>1. TypeOK /\ [Next]_vars => TypeOK'
  BY TypeStep
<1> QED
  BY TypeInit, <1>1, PTL DEF Spec

-----------------------------------------------------------------------------
(* The fence.                                                               *)

\* Nothing claims a generation the sequence has not given.
Fresh ==
    /\ \A c \in Channels, h \in Hosts \union {None}, g \in Nat : Claim(c, h, g) => g <= seq
    /\ \A c \in Channels : Active(row[c]) => row[c].gen > 0

FenceInv == TypeOK /\ Fresh /\ OneHostPerGeneration

\* A row keeps its host and generation, or takes the next one.
RowMoves ==
    \A c \in Channels :
        \/ row'[c].host = row[c].host /\ row'[c].gen = row[c].gen
        \/ row'[c].gen = seq + 1 /\ seq' = seq + 1

LEMMA RowMovesStep ==
    ASSUME RowsOK, RowStep
    PROVE  RowMoves /\ (seq' = seq \/ seq' = seq + 1)
<1>1. CASE UNCHANGED rows
  BY <1>1 DEF rows, RowMoves
<1>2. ASSUME NEW c \in Channels, SameStep(c) \/ ReturnStep(c) \/ \E h \in Hosts : GrantStep(c, h)
      PROVE  RowMoves /\ (seq' = seq \/ seq' = seq + 1)
  <2>1. PICK p \in Row : /\ row' = [row EXCEPT ![c] = p]
                        /\ \/ p.gen = row[c].gen /\ p.host = row[c].host /\ seq' = seq
                           \/ p.gen = seq + 1 /\ seq' = seq + 1
    BY <1>2 DEF SameStep, ReturnStep, GrantStep
  <2> QED
    BY <2>1 DEF RowMoves, RowsOK, Placements
<1> QED
  BY <1>1, <1>2 DEF RowStep

\* A claim is an old one, or that of the row that just took the next generation.
LEMMA ClaimStep ==
    ASSUME TypeOK, Stepped, NEW c \in Channels, NEW h \in Hosts \union {None}, NEW g \in Nat,
           g # 0, Claim(c, h, g)'
    PROVE  \/ Claim(c, h, g)
           \/ g = seq + 1 /\ seq' = seq + 1 /\ row'[c].gen = g /\ row'[c].host = h
<1> DEFINE New == g = seq + 1 /\ seq' = seq + 1 /\ row'[c].gen = g /\ row'[c].host = h
<1>1. RowMoves
  BY RowMovesStep DEF TypeOK, Stepped
<1>2. row'[c].host = h /\ row'[c].gen = g => Claim(c, h, g) \/ New
  BY <1>1 DEF RowMoves, Claim
<1>3. cache'[c].host = h /\ cache'[c].gen = g => Claim(c, h, g) \/ New
  BY <1>2 DEF Stepped, Copied, NoRow, Claim
<1>4. req'[c].host = h /\ req'[c].gen = g => Claim(c, h, g) \/ New
  BY <1>2 DEF Stepped, Copied, NoRow, Claim
<1>5. h \in Hosts /\ g = gens'[h][c] => Claim(c, h, g) \/ New
  BY DEF Stepped, EngineClaims, Claim
<1>6. h \in Hosts /\ g = start'[h][c] => Claim(c, h, g) \/ New
  BY <1>2 DEF Stepped, EngineClaims, Claim
<1>7. h \in Hosts /\ g = check'[h][c].new => Claim(c, h, g) \/ New
  BY <1>2 DEF Stepped, EngineClaims, Claim
<1> HIDE DEF New
<1>8. Claim(c, h, g) \/ New
  BY <1>2, <1>3, <1>4, <1>5, <1>6, <1>7 DEF Claim
<1> QED
  BY <1>8 DEF New

LEMMA FenceInit == Init => FenceInv
<1> SUFFICES ASSUME Init PROVE FenceInv
  OBVIOUS
<1>1. TypeOK
  BY TypeInit
<1>2. Fresh
  BY NoRowType DEF Init, Fresh, Claim, NoRow, NoCheck, PerHostAndChannel
<1>3. OneHostPerGeneration
  BY DEF Init, OneHostPerGeneration
<1> QED
  BY <1>1, <1>2, <1>3 DEF FenceInv

LEMMA FenceStep ==
    ASSUME FenceInv, [Next]_vars
    PROVE  FenceInv' /\ Stepped
<1>1. TypeOK /\ Fresh /\ OneHostPerGeneration /\ TypeOK' /\ Stepped
  BY TypeStep DEF FenceInv
<1>2. seq \in Nat /\ (seq' = seq \/ seq' = seq + 1) /\ RowMoves
  BY <1>1, RowMovesStep DEF TypeOK, RowsOK, Stepped
<1>3. ASSUME NEW c \in Channels, NEW h \in Hosts \union {None}, NEW g \in Nat, Claim(c, h, g)'
      PROVE  g <= seq'
  <2>1. CASE g = 0
    BY <1>2, <2>1
  <2>2. CASE g # 0
    <3>1. Claim(c, h, g) \/ (g = seq + 1 /\ seq' = seq + 1)
      BY <1>1, <1>3, <2>2, ClaimStep
    <3>2. Claim(c, h, g) => g <= seq
      BY <1>1 DEF Fresh
    <3> QED
      BY <1>2, <3>1, <3>2
  <2> QED
    BY <2>1, <2>2
<1>4. ASSUME NEW c \in Channels, Active(row[c])' PROVE row'[c].gen > 0
  <2>1. \A d \in Channels : Active(row[d]) => row[d].gen > 0
    BY <1>1 DEF Fresh
  <2>2. CASE UNCHANGED rows
    BY <1>4, <2>1, <2>2 DEF rows, Active
  <2>3. ASSUME NEW d \in Channels, SameStep(d) \/ ReturnStep(d) \/ \E h \in Hosts : GrantStep(d, h)
        PROVE  row'[c].gen > 0
    <3>1. PICK p \in Row : /\ row' = [row EXCEPT ![d] = p]
                          /\ ((p.gen = row[d].gen /\ Active(row[d])) \/ p.gen = seq + 1)
      BY <2>3 DEF SameStep, ReturnStep, GrantStep
    <3>2. p.gen > 0
      BY <1>2, <2>1, <3>1
    <3>3. CASE c = d
      BY <1>1, <3>1, <3>2, <3>3 DEF TypeOK, RowsOK, Placements
    <3>4. CASE c # d
      BY <1>1, <1>4, <2>1, <3>1, <3>4 DEF Active
    <3> QED
      BY <3>3, <3>4
  <2> QED
    BY <1>1, <2>2, <2>3 DEF Stepped, RowStep
<1>5. ASSUME NEW c \in Channels, NEW h1 \in Hosts \union {None}, NEW h2 \in Hosts \union {None},
             NEW g \in 1..seq', Claim(c, h1, g)', Claim(c, h2, g)'
      PROVE  h1 = h2
  <2>1. g \in Nat /\ g # 0
    BY <1>2
  <2>2. Claim(c, h1, g) \/ (g = seq + 1 /\ row'[c].host = h1)
    BY <1>1, <1>5, <2>1, ClaimStep
  <2>3. Claim(c, h2, g) \/ (g = seq + 1 /\ row'[c].host = h2)
    BY <1>1, <1>5, <2>1, ClaimStep
  <2>4. CASE g = seq + 1
    <3>1. ~Claim(c, h1, g) /\ ~Claim(c, h2, g)
      BY <1>1, <1>2, <2>1, <2>4 DEF Fresh
    <3> QED
      BY <2>2, <2>3, <3>1
  <2>5. CASE g # seq + 1
    <3>1. g \in 1..seq
      BY <1>2, <2>5
    <3> QED
      BY <1>1, <2>2, <2>3, <2>5, <3>1 DEF OneHostPerGeneration
  <2> QED
    BY <2>4, <2>5
<1>6. Fresh'
  BY <1>3, <1>4 DEF Fresh
<1>7. OneHostPerGeneration'
  BY <1>5 DEF OneHostPerGeneration
<1> QED
  BY <1>1, <1>6, <1>7 DEF FenceInv

LEMMA FenceInvariant == Spec => []FenceInv
<1>1. FenceInv /\ [Next]_vars => FenceInv'
  BY FenceStep
<1> QED
  BY FenceInit, <1>1, PTL DEF Spec

\* The fence (placement.go, HomeFence and NodeFence; engine.go): whatever is cached,
\* forwarded, starting, running or being checked, a generation belongs to one host.
THEOREM OneHostEver == Spec => []OneHostPerGeneration
<1>1. FenceInv => OneHostPerGeneration
  BY DEF FenceInv
<1> QED
  BY FenceInvariant, <1>1, PTL

-----------------------------------------------------------------------------
(* The capacity of a host.                                                  *)

On(h) == {c \in Channels : Active(row[c]) /\ row[c].host = h}

CapacityInv == TypeOK /\ WithinCapacity

\* A placement only goes to a host with room, counted without the channel itself.
LEMMA GrantFits ==
    ASSUME CapacityInv, NEW c \in Channels, NEW h \in Hosts, GrantStep(c, h), NEW k \in Hosts
    PROVE  Cardinality(On(k)') <= Capacity[k]
<1> DEFINE Others == {d \in Channels \ {c} : Active(row[d]) /\ row[d].host = k}
<1>1. IsFiniteSet(Others) /\ IsFiniteSet(On(k)) /\ Cardinality(Others) \in Nat /\ c \notin Others
  BY PlacementAssumption, FS_Subset, FS_CardinalityType DEF PlacementAssumption, On
<1>2. PICK p \in Row : p.host = h /\ Active(p) /\ row' = [row EXCEPT ![c] = p]
  BY DEF GrantStep
<1>3. row'[c] = p /\ \A d \in Channels \ {c} : row'[d] = row[d]
  BY <1>2 DEF CapacityInv, TypeOK, RowsOK, Placements
<1>4. Capacity[k] \in Nat
  BY PlacementAssumption DEF PlacementAssumption
<1>5. CASE k = h
  <2>1. On(k)' = Others \union {c}
    BY <1>2, <1>3, <1>5 DEF On
  <2>2. Cardinality(On(k)') = Cardinality(Others) + 1
    BY <1>1, <2>1, FS_AddElement
  <2>3. Cardinality(Others) < Capacity[k]
    BY <1>5 DEF GrantStep, Used
  <2> QED
    BY <1>1, <1>4, <2>2, <2>3
<1>6. CASE k # h
  <2>1. On(k)' \subseteq On(k)
    BY <1>2, <1>3, <1>6 DEF On
  <2>2. Cardinality(On(k)') <= Cardinality(On(k))
    BY <1>1, <2>1, FS_Subset
  <2>3. Cardinality(On(k)) \in Nat /\ Cardinality(On(k)') \in Nat /\ Cardinality(On(k)) <= Capacity[k]
    BY <1>1, <2>1, FS_Subset, FS_CardinalityType DEF CapacityInv, WithinCapacity, On
  <2> QED
    BY <1>4, <2>2, <2>3
<1> QED
  BY <1>5, <1>6

LEMMA CapacityStep ==
    ASSUME CapacityInv, [Next]_vars
    PROVE  CapacityInv'
<1>1. TypeOK' /\ Stepped
  BY TypeStep DEF CapacityInv
<1> SUFFICES ASSUME NEW k \in Hosts PROVE Cardinality(On(k)') <= Capacity[k]
  BY <1>1 DEF CapacityInv, WithinCapacity, On
<1>2. ASSUME On(k)' \subseteq On(k) PROVE Cardinality(On(k)') <= Capacity[k]
  <2>1. IsFiniteSet(On(k)) /\ IsFiniteSet(On(k)')
    BY PlacementAssumption, FS_Subset DEF PlacementAssumption, On
  <2>2. Cardinality(On(k)') <= Cardinality(On(k)) /\ Cardinality(On(k)) \in Nat /\ Cardinality(On(k)') \in Nat
    BY <1>2, <2>1, FS_Subset, FS_CardinalityType
  <2>3. Cardinality(On(k)) <= Capacity[k] /\ Capacity[k] \in Nat
    BY PlacementAssumption DEF CapacityInv, WithinCapacity, On, PlacementAssumption
  <2> QED
    BY <2>2, <2>3
<1>3. CASE UNCHANGED rows
  BY <1>2, <1>3 DEF rows, On, Active
<1>4. ASSUME NEW c \in Channels, SameStep(c) \/ ReturnStep(c) PROVE On(k)' \subseteq On(k)
  <2>1. PICK p \in Row : p.host = row[c].host /\ Active(row[c]) /\ row' = [row EXCEPT ![c] = p]
    BY <1>4 DEF SameStep, ReturnStep
  <2> QED
    BY <2>1 DEF On, CapacityInv, TypeOK, RowsOK, Placements
<1> QED
  BY <1>1, <1>2, <1>3, <1>4, GrantFits DEF Stepped, RowStep

\* Store.Place counts a host's channels in the transaction that writes the row: however
\* first requests, failovers, moves and drains overlap, a host gets no more than it may.
THEOREM CapacityKept == Spec => []WithinCapacity
<1>1. Init => CapacityInv
  <2> SUFFICES ASSUME Init PROVE CapacityInv
    OBVIOUS
  <2>1. \A h \in Hosts : {c \in Channels : Active(row[c]) /\ row[c].host = h} = {}
    BY NoRowType DEF Init
  <2>2. \A h \in Hosts : Capacity[h] \in Nat
    BY PlacementAssumption DEF PlacementAssumption
  <2> QED
    <3>1. Cardinality({}) = 0
      BY FS_EmptySet
    <3>2. \A h \in Hosts : 0 <= Capacity[h]
      BY <2>2
    <3>3. WithinCapacity
      BY <2>1, <3>1, <3>2 DEF WithinCapacity
    <3> QED
      BY <3>3, TypeInit DEF CapacityInv
<1>2. CapacityInv /\ [Next]_vars => CapacityInv'
  BY CapacityStep
<1>3. CapacityInv => WithinCapacity
  BY DEF CapacityInv
<1> QED
  BY <1>1, <1>2, <1>3, PTL DEF Spec

-----------------------------------------------------------------------------
(* The placement implements EncodeOnce.                                     *)

Owner(c)   == IF Active(row[c]) THEN row[c].host ELSE None
Holders(c) == {h \in Hosts : Active(row[c]) /\ st[h][c] = "on" /\ gens[h][c] = row[c].gen}

\* Only the owner encodes under the channel's current generation.
LEMMA HoldersOwn == FenceInv => \A c \in Channels : Holders(c) \subseteq {Owner(c)}
<1> SUFFICES ASSUME FenceInv, NEW c \in Channels, NEW h \in Hosts, Active(row[c]),
                    gens[h][c] = row[c].gen
             PROVE  h = row[c].host
  BY DEF Holders, Owner
<1>1. row[c].gen \in 1..seq /\ row[c].host \in Hosts \union {None}
  BY DEF FenceInv, Fresh, TypeOK, RowsOK, Placements, Row
<1>2. Claim(c, h, row[c].gen) /\ Claim(c, row[c].host, row[c].gen)
  BY DEF Claim
<1> QED
  BY <1>1, <1>2 DEF FenceInv, OneHostPerGeneration

LEMMA LeaseInit == Init => Lease!Init
<1> SUFFICES ASSUME Init PROVE Lease!Init
  OBVIOUS
<1>1. \A c \in Channels : row[c] = NoRow /\ ~Active(row[c]) /\ row[c].gen = 0
  BY NoRowType DEF Init, NoRow
<1> QED
  BY <1>1 DEF Lease!Init

\* A step that leaves every owner and generation alone.
LEMMA LeaseEncode ==
    ASSUME FenceInv, FenceInv',
           \A c \in Channels : Owner(c)' = Owner(c) /\ row'[c].gen = row[c].gen
    PROVE  Lease!Encode
<1>1. FenceInv' => (\A c \in Channels : Holders(c) \subseteq {Owner(c)})'
  BY HoldersOwn, PTL
<1>2. \A c \in Channels : Holders(c)' \subseteq {Owner(c)}
  BY <1>1
<1> QED
  BY <1>2 DEF Lease!Encode, Owner, Holders

\* A new generation for one channel: a token above all others, which nobody holds yet.
LEMMA LeaseGrant ==
    ASSUME FenceInv, NEW c \in Channels, NEW h \in Hosts, GrantStep(c, h), UNCHANGED <<st, gens>>
    PROVE  Lease!Grant(c, h)
<1>1. PICK p \in Row : /\ p.host = h /\ p.gen = seq + 1 /\ Active(p)
                      /\ row' = [row EXCEPT ![c] = p]
  BY DEF GrantStep
<1>2. row'[c] = p /\ \A d \in Channels \ {c} : row'[d] = row[d]
  BY <1>1 DEF FenceInv, TypeOK, RowsOK, Placements
<1>3. \A d \in Channels : row[d].gen \in Nat /\ row'[c].gen > row[d].gen
  BY <1>1, <1>2 DEF FenceInv, TypeOK, RowsOK, Placements, Row
<1>4. \A k \in Hosts : gens[k][c] # seq + 1
  <2> SUFFICES ASSUME NEW k \in Hosts, gens[k][c] = seq + 1 PROVE FALSE
    OBVIOUS
  <2>1. Claim(c, k, seq + 1) /\ seq + 1 \in Nat /\ seq \in Nat
    BY DEF Claim, FenceInv, TypeOK, RowsOK
  <2> QED
    BY <2>1 DEF FenceInv, Fresh
<1>5. Owner(c)' = h /\ Holders(c)' = {}
  <2>1. Owner(c)' = h
    BY <1>1, <1>2 DEF Owner, Active
  <2>2. \A k \in Hosts : gens'[k][c] # row'[c].gen
    BY <1>1, <1>2, <1>4
  <2> QED
    BY <2>1, <2>2 DEF Holders
<1>6. \A d \in Channels \ {c} : Owner(d)' = Owner(d) /\ Holders(d)' = Holders(d)
  BY <1>2 DEF Owner, Holders
<1>7. /\ [d \in Channels |-> Owner(d)]' = [[d \in Channels |-> Owner(d)] EXCEPT ![c] = h]
      /\ [d \in Channels |-> Holders(d)]' = [[d \in Channels |-> Holders(d)] EXCEPT ![c] = {}]
  BY <1>5, <1>6
<1>8. [d \in Channels |-> row[d].gen]' = [[d \in Channels |-> row[d].gen] EXCEPT ![c] = row'[c].gen]
  BY <1>2
<1> QED
  BY <1>3, <1>7, <1>8 DEF Lease!Grant, Owner, Holders

\* A placement given back or stopped: no owner, and a token that is no smaller.
LEMMA LeaseReturn ==
    ASSUME FenceInv, NEW c \in Channels, ReturnStep(c), UNCHANGED <<st, gens>>
    PROVE  Lease!Return(c)
<1>1. PICK p \in Row : /\ ~Active(p) /\ Active(row[c])
                      /\ row' = [row EXCEPT ![c] = p]
                      /\ (p.gen = row[c].gen \/ p.gen = seq + 1)
  BY DEF ReturnStep
<1>2. row'[c] = p /\ \A d \in Channels \ {c} : row'[d] = row[d]
  BY <1>1 DEF FenceInv, TypeOK, RowsOK, Placements
<1>3. row'[c].gen >= row[c].gen
  BY <1>1, <1>2 DEF FenceInv, TypeOK, RowsOK, Placements, Row
<1>4. Owner(c) # None
  BY <1>1, NoRowType DEF Owner, FenceInv, TypeOK, RowsOK
<1>5. Owner(c)' = None /\ Holders(c)' = {}
  BY <1>1, <1>2 DEF Owner, Holders
<1>6. \A d \in Channels \ {c} : Owner(d)' = Owner(d) /\ Holders(d)' = Holders(d)
  BY <1>2 DEF Owner, Holders
<1>7. /\ [d \in Channels |-> Owner(d)]' = [[d \in Channels |-> Owner(d)] EXCEPT ![c] = None]
      /\ [d \in Channels |-> Holders(d)]' = [[d \in Channels |-> Holders(d)] EXCEPT ![c] = {}]
  BY <1>5, <1>6
<1>8. [d \in Channels |-> row[d].gen]' = [[d \in Channels |-> row[d].gen] EXCEPT ![c] = row'[c].gen]
  BY <1>2
<1> QED
  BY <1>3, <1>4, <1>7, <1>8 DEF Lease!Return, Owner, Holders

LEMMA LeaseStep ==
    ASSUME FenceInv, [Next]_vars
    PROVE  Lease!Next
<1>1. FenceInv' /\ Stepped
  BY FenceStep
<1>2. CASE UNCHANGED rows
  <2>1. \A c \in Channels : Owner(c)' = Owner(c) /\ row'[c].gen = row[c].gen
    BY <1>2 DEF rows, Owner, Active
  <2> QED
    BY <1>1, <2>1, LeaseEncode DEF Lease!Next
<1>3. ASSUME NEW c \in Channels, SameStep(c) PROVE Lease!Next
  <2>1. \A d \in Channels : Owner(d)' = Owner(d) /\ row'[d].gen = row[d].gen
    BY <1>3 DEF SameStep, FenceInv, TypeOK, RowsOK, Placements, Owner
  <2> QED
    BY <1>1, <2>1, LeaseEncode DEF Lease!Next
<1>4. ASSUME NEW c \in Channels, UNCHANGED <<st, gens>>,
             ReturnStep(c) \/ \E h \in Hosts : GrantStep(c, h)
      PROVE  Lease!Next
  BY <1>4, LeaseReturn, LeaseGrant DEF Lease!Next
<1> QED
  BY <1>1, <1>2, <1>3, <1>4 DEF Stepped, RowStep

\* The placement of channels implements its abstract specification: one owner a
\* channel, a new token at every change, and only the owner encodes under the token.
THEOREM PlacementImplementsLease == Spec => EncodesOnce
<1>1. FenceInv /\ [Next]_vars => [Lease!Next]_Lease!vars
  BY LeaseStep
<1> QED
  BY LeaseInit, <1>1, FenceInvariant, PTL DEF Spec, EncodesOnce, Lease!Spec

=============================================================================
