------------------------- MODULE Switchover_proofs -------------------------
(***************************************************************************)
(* Proofs about Switchover, for any switches, machines and bounds. The     *)
(* argument: once its promotion is asked a switch is the latest, its run   *)
(* waits (a restart reads that from the record, which was on disk before   *)
(* the promotion left), and every thaw for another switch is superseded.   *)
(* So the home stays frozen until the machine marks the switch called off  *)
(* or an admin forces it, and the copy that had the marker has every write.*)
(***************************************************************************)
EXTENDS Switchover, TLAPS

\* Where a run is while its home is frozen and nothing is asked yet.
Frozen == {"marker", "kit", "relay", "record"}
\* Where a run is once the promotion may have begun.
Doubting == {"asking", "waiting", "asked", "looking", "after"}

\* No switch began a term past that of s.
Latest(s) == row[s] # "none" /\ \A t \in Switch \ {s} : term[t] < term[s]
\* The promotion was asked, and nothing says that it will not happen.
InDoubt(s) == ask[s] # "none" /\ s \notin offed /\ s \notin forced

\* A switch under way, recorded or asked has a row, and a row names a machine.
Named == \A s \in Switch :
    /\ ask[s] # "none" \/ pc[s] # "off" \/ rec[s] # "none" \/ s \in owed => row[s] # "none"
    /\ row[s] # "none" => to[s] \in Machine
\* What an answer in flight says stays true.
Answering == \A c \in calls : (c.at = "called_off" => c.s \in offed) /\ (c.at = "promoted" => c.s \in promoted)
\* A thaw is owed only by a switch that ended.
Owing == \A s \in Switch : s \in owed => pc[s] \in {"closing", "over"}
\* A copy is never ahead of the rows.
Copies == \A s \in Switch, m \in Machine :
    /\ row[s] = "none" => copy[m][s] = "none"
    /\ row[s] = "open" => copy[m][s] \in {"none", "open"}
\* Until the promotion is asked, the run is of the latest switch.
Early == \A s \in Switch :
    /\ pc[s] \in Before \cup {"record"} => Latest(s)
    /\ pc[s] \in {"new", "check", "freeze"} => row[s] = "open"
    /\ pc[s] = "record" => s \in sent
\* From the freeze on nothing is written, so a copy that has the marker has it all.
Still == \A s \in Switch : pc[s] \in Frozen =>
    /\ ~ rights /\ ~ access
    /\ \A m \in Machine : copy[m][s] \in {"marked", "ended"} => copied[m] = data
    /\ pc[s] # "marker" => copy[to[s]][s] \in {"marked", "ended"}
\* A machine that may have begun its term has every write.
Whole == \A s \in Switch : InDoubt(s) => copied[to[s]] = data
\* The strengthening of FrozenInDoubt: such a home is frozen for its latest switch, whose
\* run waits, and whose record would have a restart wait again.
Waiting == \A s \in Switch : home /\ InDoubt(s) =>
    /\ ~ rights /\ ~ access
    /\ Latest(s) /\ pc[s] \in Doubting
    /\ s \in sent /\ s \in promised /\ rec[s] \in {"running", "home"}

\* The inductive invariant.
SwitchInv == TypeOK /\ Named /\ Answering /\ Owing /\ Copies /\ Early /\ Still /\ Whole /\ Waiting

-----------------------------------------------------------------------------
(* Types *)

\* TypeOK by the component that keeps the variables.
DbType ==
    /\ row \in [Switch -> Rows] /\ term \in [Switch -> Nat] /\ to \in [Switch -> Machine \cup {None}]
    /\ {rights, access} \subseteq BOOLEAN /\ data \in Nat
    /\ \A s \in Switch : row[s] = "none" => term[s] = 0 /\ to[s] = None
SupType ==
    rec \in [Switch -> Records] /\ promised \subseteq Switch /\ busy \in Switch \cup {None} /\ home \in BOOLEAN
ApiType ==
    /\ pc \in [Switch -> Pcs] /\ sent \subseteq Switch /\ owed \subseteq Switch
    /\ cancel \in [Switch -> {"no", "asked", "forced"}]
NodeType ==
    /\ copy \in [Machine -> [Switch -> Rows]] /\ copied \in [Machine -> Nat]
    /\ promoting \in [Machine -> Switch \cup {None}] /\ claimed \in [Machine -> Switch \cup {None}]
    /\ promoted \subseteq Switch /\ offed \subseteq Switch /\ newHome \subseteq promoted
AskType ==
    /\ ask \in [Switch -> {"none", "sent", "running", "home", "error"}]
    /\ \A s \in promoted : ask[s] # "none"
CallType == calls \subseteq Calls /\ forced \subseteq Switch /\ left \in [Bounds -> Nat]

\* TypeOK is its parts, now and after a step.
LEMMA TypeParts == TypeOK <=> DbType /\ SupType /\ ApiType /\ NodeType /\ AskType /\ CallType
  BY DEF TypeOK, DbType, SupType, ApiType, NodeType, AskType, CallType

\* The same of the next state.
LEMMA TypePartsNext == TypeOK' <=> DbType' /\ SupType' /\ ApiType' /\ NodeType' /\ AskType' /\ CallType'
  BY DEF TypeOK, DbType, SupType, ApiType, NodeType, AskType, CallType

\* What a bounded event and an answer do to the bounds and the calls.
LEMMA SpendType ==
    \A k \in Bounds : left \in [Bounds -> Nat] /\ Spend(k) => left' \in [Bounds -> Nat]
  BY DEF Bounds, Spend

\* A call that moves on is a call.
LEMMA MovedType ==
    \A c \in Calls, at \in Handled \cup Answers : [c EXCEPT !.at = at] \in Calls /\ Adrift(c) \in Calls
  BY DEF Calls, Adrift, Handled, Answers

\* So is one that is answered.
LEMMA ReplyType ==
    \A c \in calls, at \in Handled \cup Answers :
        calls \subseteq Calls /\ Reply(c, at) => calls' \subseteq Calls
<1>. SUFFICES ASSUME NEW c \in calls, NEW at \in Handled \cup Answers, calls \subseteq Calls, Reply(c, at)
              PROVE  calls' \subseteq Calls
  OBVIOUS
<1>1. [c EXCEPT !.at = at] \in Calls
  BY MovedType
<1>. QED
  BY <1>1 DEF Reply

\* Every step keeps the types.
LEMMA TypeStep == ASSUME TypeOK, Answering, [Next]_vars PROVE TypeOK'
<1>. USE DEF Rows, Records, Pcs, Before, Asked, Handled, Answers, Bounds
<1>1. ASSUME NEW s \in Switch, NEW m \in Machine, Start(s, m) PROVE TypeOK'
  BY <1>1
     DEF TypeOK, Calls, Start, Go, Following, sup, node, net
<1>2. ASSUME NEW s \in Switch, Step(s) PROVE TypeOK'
  <2>1. DbType'
    BY <1>2
       DEF TypeOK, DbType, Step, Go, Keep, db, node, net, Spend, Kept
  <2>2. SupType'
    BY <1>2
       DEF TypeOK, SupType, Step, Go, Keep, db, node, net, Spend, Kept
  <2>3. ApiType'
    BY <1>2
       DEF TypeOK, ApiType, Step, Go, Keep, db, node, net, Spend, Kept
  <2>4. NodeType'
    BY <1>2
       DEF TypeOK, NodeType, Step, Go, Keep, db, node, net, Spend, Kept
  <2>5. AskType'
    BY <1>2
       DEF TypeOK, AskType, Step, Go, Keep, db, node, net, Spend, Kept
  <2>6. CallType'
    BY <1>2
       DEF TypeOK, CallType, Step, Go, Keep, db, node, net, Spend, Kept
  <2>. QED BY <2>1, <2>2, <2>3, <2>4, <2>5, <2>6, TypePartsNext
<1>3. ASSUME NEW s \in Switch, CheckFails(s) PROVE TypeOK'
  BY <1>3
     DEF TypeOK, Calls, CheckFails, Go, Spend, db, sup, node, net
<1>4. ASSUME NEW s \in Switch, Freeze(s) PROVE TypeOK'
  <2>1. DbType'
    BY <1>4
       DEF TypeOK, DbType, Freeze, Go, Keep, node, net, Spend, Kept
  <2>2. SupType'
    BY <1>4
       DEF TypeOK, SupType, Freeze, Go, Keep, node, net, Spend, Kept
  <2>3. ApiType'
    BY <1>4
       DEF TypeOK, ApiType, Freeze, Go, Keep, node, net, Spend, Kept
  <2>4. NodeType'
    BY <1>4
       DEF TypeOK, NodeType, Freeze, Go, Keep, node, net, Spend, Kept
  <2>5. AskType'
    BY <1>4
       DEF TypeOK, AskType, Freeze, Go, Keep, node, net, Spend, Kept
  <2>6. CallType'
    BY <1>4
       DEF TypeOK, CallType, Freeze, Go, Keep, node, net, Spend, Kept
  <2>. QED BY <2>1, <2>2, <2>3, <2>4, <2>5, <2>6, TypePartsNext
<1>5. ASSUME NEW s \in Switch, FreezeFails(s) PROVE TypeOK'
  <2>1. DbType'
    BY <1>5
       DEF TypeOK, DbType, FreezeFails, Go, Spend, sup, node, net
  <2>2. SupType'
    BY <1>5
       DEF TypeOK, SupType, FreezeFails, Go, Spend, sup, node, net
  <2>3. ApiType'
    BY <1>5
       DEF TypeOK, ApiType, FreezeFails, Go, Spend, sup, node, net
  <2>4. NodeType'
    BY <1>5
       DEF TypeOK, NodeType, FreezeFails, Go, Spend, sup, node, net
  <2>5. AskType'
    BY <1>5
       DEF TypeOK, AskType, FreezeFails, Go, Spend, sup, node, net
  <2>6. CallType'
    BY <1>5
       DEF TypeOK, CallType, FreezeFails, Go, Spend, sup, node, net
  <2>. QED BY <2>1, <2>2, <2>3, <2>4, <2>5, <2>6, TypePartsNext
<1>6. ASSUME NEW s \in Switch, Marker(s) PROVE TypeOK'
  <2>1. DbType'
    BY <1>6
       DEF TypeOK, DbType, Marker, Go, Keep, db, node, net, Spend, Kept
  <2>2. SupType'
    BY <1>6
       DEF TypeOK, SupType, Marker, Go, Keep, db, node, net, Spend, Kept
  <2>3. ApiType'
    BY <1>6
       DEF TypeOK, ApiType, Marker, Go, Keep, db, node, net, Spend, Kept
  <2>4. NodeType'
    BY <1>6
       DEF TypeOK, NodeType, Marker, Go, Keep, db, node, net, Spend, Kept
  <2>5. AskType'
    BY <1>6
       DEF TypeOK, AskType, Marker, Go, Keep, db, node, net, Spend, Kept
  <2>6. CallType'
    BY <1>6
       DEF TypeOK, CallType, Marker, Go, Keep, db, node, net, Spend, Kept
  <2>. QED BY <2>1, <2>2, <2>3, <2>4, <2>5, <2>6, TypePartsNext
<1>7. ASSUME NEW s \in Switch, MarkerMissing(s) PROVE TypeOK'
  BY <1>7
     DEF TypeOK, Calls, MarkerMissing, Go, db, sup, node, net
<1>8. ASSUME NEW s \in Switch, Kit(s) PROVE TypeOK'
  <2>1. DbType'
    BY <1>8
       DEF TypeOK, DbType, Kit, Go, Keep, db, node, net, Spend, Kept
  <2>2. SupType'
    BY <1>8
       DEF TypeOK, SupType, Kit, Go, Keep, db, node, net, Spend, Kept
  <2>3. ApiType'
    BY <1>8
       DEF TypeOK, ApiType, Kit, Go, Keep, db, node, net, Spend, Kept
  <2>4. NodeType'
    BY <1>8
       DEF TypeOK, NodeType, Kit, Go, Keep, db, node, net, Spend, Kept
  <2>5. AskType'
    BY <1>8
       DEF TypeOK, AskType, Kit, Go, Keep, db, node, net, Spend, Kept
  <2>6. CallType'
    BY <1>8
       DEF TypeOK, CallType, Kit, Go, Keep, db, node, net, Spend, Kept
  <2>. QED BY <2>1, <2>2, <2>3, <2>4, <2>5, <2>6, TypePartsNext
<1>9. ASSUME NEW s \in Switch, KitRefused(s) PROVE TypeOK'
  BY <1>9
     DEF TypeOK, Calls, KitRefused, Go, db, sup, node, net
<1>10. ASSUME NEW s \in Switch, StepFails(s) PROVE TypeOK'
  BY <1>10
     DEF TypeOK, Calls, StepFails, Go, Spend, db, node, net
<1>11. ASSUME NEW s \in Switch, Stopped(s) PROVE TypeOK'
  BY <1>11
     DEF TypeOK, Calls, Stopped, Go, Before, db, sup, node, net
<1>12. ASSUME NEW s \in Switch, Promise(s) PROVE TypeOK'
  BY <1>12
     DEF TypeOK, Calls, Promise, Go, db, sup, node, net
<1>13. ASSUME NEW s \in Switch, RecordPromise(s) PROVE TypeOK'
  BY <1>13
     DEF TypeOK, Calls, RecordPromise, Go, Kept, db, node
<1>14. ASSUME NEW s \in Switch, RecordFails(s) PROVE TypeOK'
  BY <1>14
     DEF TypeOK, Calls, RecordFails, Go, Spend, db, node, net
<1>15. ASSUME NEW s \in Switch, Answered(s) PROVE TypeOK'
  <2>1. DbType'
    BY <1>15
       DEF TypeOK, DbType, Answered, Go, Keep, db, node, net, Spend, Kept
  <2>2. SupType'
    BY <1>15
       DEF TypeOK, SupType, Answered, Go, Keep, db, node, net, Spend, Kept
  <2>3. ApiType'
    BY <1>15
       DEF TypeOK, ApiType, Answered, Go, Keep, db, node, net, Spend, Kept
  <2>4. NodeType'
    BY <1>15
       DEF TypeOK, NodeType, Answered, Go, Keep, db, node, net, Spend, Kept
  <2>5. AskType'
    BY <1>15
       DEF TypeOK, AskType, Answered, Go, Keep, db, node, net, Spend, Kept
  <2>6. CallType'
    BY <1>15
       DEF TypeOK, CallType, Answered, Go, Keep, db, node, net, Spend, Kept
  <2>. QED BY <2>1, <2>2, <2>3, <2>4, <2>5, <2>6, TypePartsNext
<1>16. ASSUME NEW s \in Switch, GivesUp(s) PROVE TypeOK'
  <2>1. DbType'
    BY <1>16
       DEF TypeOK, DbType, GivesUp, Go, Spend, db, sup, node, net
  <2>2. SupType'
    BY <1>16
       DEF TypeOK, SupType, GivesUp, Go, Spend, db, sup, node, net
  <2>3. ApiType'
    BY <1>16
       DEF TypeOK, ApiType, GivesUp, Go, Spend, db, sup, node, net
  <2>4. NodeType'
    BY <1>16
       DEF TypeOK, NodeType, GivesUp, Go, Spend, db, sup, node, net
  <2>5. AskType'
    BY <1>16
       DEF TypeOK, AskType, GivesUp, Go, Spend, db, sup, node, net
  <2>6. CallType'
    BY <1>16
       DEF TypeOK, CallType, GivesUp, Go, Spend, db, sup, node, net
  <2>. QED BY <2>1, <2>2, <2>3, <2>4, <2>5, <2>6, TypePartsNext
<1>17. ASSUME NEW s \in Switch, Ask(s) PROVE TypeOK'
  BY <1>17
     DEF TypeOK, Calls, Ask, Go, db, sup, node
<1>18. ASSUME NEW s \in Switch, Look(s) PROVE TypeOK'
  <2>1. DbType'
    BY <1>18
       DEF TypeOK, DbType, Look, Go, Spend, Keep, db, node, net, Kept
  <2>2. SupType'
    BY <1>18
       DEF TypeOK, SupType, Look, Go, Spend, Keep, db, node, net, Kept
  <2>3. ApiType'
    BY <1>18
       DEF TypeOK, ApiType, Look, Go, Spend, Keep, db, node, net, Kept
  <2>4. NodeType'
    BY <1>18
       DEF TypeOK, NodeType, Look, Go, Spend, Keep, db, node, net, Kept
  <2>5. AskType'
    BY <1>18
       DEF TypeOK, AskType, Look, Go, Spend, Keep, db, node, net, Kept
  <2>6. CallType'
    BY <1>18
       DEF TypeOK, CallType, Look, Go, Spend, Keep, db, node, net, Kept
  <2>. QED BY <2>1, <2>2, <2>3, <2>4, <2>5, <2>6, TypePartsNext
<1>19. ASSUME NEW s \in Switch, Demote(s) PROVE TypeOK'
  BY <1>19
     DEF TypeOK, Calls, Demote, Go, db, node, net
<1>20. ASSUME NEW s \in Switch, Undo(s) PROVE TypeOK'
  <2>1. DbType'
    BY <1>20
       DEF TypeOK, DbType, Undo, Go, Kept, Keep, Thaw, ThawFails, node, Spend,
         Superseded
  <2>2. SupType'
    BY <1>20
       DEF TypeOK, SupType, Undo, Go, Kept, Keep, Thaw, ThawFails, node, Spend,
         Superseded
  <2>3. ApiType'
    BY <1>20
       DEF TypeOK, ApiType, Undo, Go, Kept, Keep, Thaw, ThawFails, node, Spend,
         Superseded
  <2>4. NodeType'
    BY <1>20
       DEF TypeOK, NodeType, Undo, Go, Kept, Keep, Thaw, ThawFails, node, Spend,
         Superseded
  <2>5. AskType'
    BY <1>20
       DEF TypeOK, AskType, Undo, Go, Kept, Keep, Thaw, ThawFails, node, Spend,
         Superseded
  <2>6. CallType'
    <3>1. calls' \subseteq Calls
      BY <1>20 DEF Undo, TypeOK, Calls
    <3>2. left' \in [Bounds -> Nat]
      BY <1>20, SpendType DEF Undo, TypeOK, Keep, ThawFails
    <3>. QED
      BY <1>20, <3>1, <3>2 DEF Undo, CallType, TypeOK
  <2>. QED BY <2>1, <2>2, <2>3, <2>4, <2>5, <2>6, TypePartsNext
<1>21. ASSUME NEW s \in Switch, Close(s) PROVE TypeOK'
  <2>1. DbType'
    BY <1>21
       DEF TypeOK, DbType, Close, Go, Spend, Kept, Keep, Ended, node, net
  <2>2. SupType'
    BY <1>21
       DEF TypeOK, SupType, Close, Go, Spend, Kept, Keep, Ended, node, net
  <2>3. ApiType'
    BY <1>21
       DEF TypeOK, ApiType, Close, Go, Spend, Kept, Keep, Ended, node, net
  <2>4. NodeType'
    BY <1>21
       DEF TypeOK, NodeType, Close, Go, Spend, Kept, Keep, Ended, node, net
  <2>5. AskType'
    BY <1>21
       DEF TypeOK, AskType, Close, Go, Spend, Kept, Keep, Ended, node, net
  <2>6. CallType'
    BY <1>21
       DEF TypeOK, CallType, Close, Go, Spend, Kept, Keep, Ended, node, net
  <2>. QED BY <2>1, <2>2, <2>3, <2>4, <2>5, <2>6, TypePartsNext
<1>22. ASSUME NEW s \in Switch, NEW c \in calls, Told(s, c) PROVE TypeOK'
  <2>1. DbType'
    BY <1>22
       DEF TypeOK, DbType, Told, Go, Spend, Kept, Keep, Answers, db, node
  <2>2. SupType'
    BY <1>22
       DEF TypeOK, SupType, Told, Go, Spend, Kept, Keep, Answers, db, node
  <2>3. ApiType'
    <3>1. \E p \in {"after", "undo", "looking"} : pc' = [pc EXCEPT ![s] = p]
      BY <1>22 DEF Told, Go
    <3>2. pc' \in [Switch -> Pcs]
      BY <3>1 DEF TypeOK
    <3>. QED BY <1>22, <3>2 DEF TypeOK, ApiType, Told
  <2>4. NodeType'
    BY <1>22
       DEF TypeOK, NodeType, Told, Go, Spend, Kept, Keep, Answers, db, node
  <2>5. AskType'
    BY <1>22
       DEF TypeOK, AskType, Told, Go, Spend, Kept, Keep, Answers, db, node
  <2>6. CallType'
    BY <1>22
       DEF TypeOK, CallType, Told, Go, Spend, Kept, Keep, Answers, db, node
  <2>. QED BY <2>1, <2>2, <2>3, <2>4, <2>5, <2>6, TypePartsNext
<1>23. ASSUME NEW s \in Switch, RetryThaw(s) PROVE TypeOK'
  <2>1. DbType'
    BY <1>23
       DEF TypeOK, DbType, RetryThaw, Keep, Thaw, node, net, Spend, Kept, Superseded
  <2>2. SupType'
    BY <1>23
       DEF TypeOK, SupType, RetryThaw, Keep, Thaw, node, net, Spend, Kept, Superseded
  <2>3. ApiType'
    BY <1>23
       DEF TypeOK, ApiType, RetryThaw, Keep, Thaw, node, net, Spend, Kept, Superseded
  <2>4. NodeType'
    BY <1>23
       DEF TypeOK, NodeType, RetryThaw, Keep, Thaw, node, net, Spend, Kept,
         Superseded
  <2>5. AskType'
    BY <1>23
       DEF TypeOK, AskType, RetryThaw, Keep, Thaw, node, net, Spend, Kept, Superseded
  <2>6. CallType'
    BY <1>23
       DEF TypeOK, CallType, RetryThaw, Keep, Thaw, node, net, Spend, Kept,
         Superseded
  <2>. QED BY <2>1, <2>2, <2>3, <2>4, <2>5, <2>6, TypePartsNext
<1>24. ASSUME NEW s \in Switch, FollowUp(s) PROVE TypeOK'
  BY <1>24
     DEF TypeOK, Calls, FollowUp, db, sup, api, node
<1>25. ASSUME NEW s \in Switch, Cancel(s) PROVE TypeOK'
  BY <1>25
     DEF TypeOK, Calls, Cancel, Before, db, sup, node, net
<1>26. ASSUME NEW s \in Switch, CancelAsks(s) PROVE TypeOK'
  BY <1>26
     DEF TypeOK, Calls, CancelAsks, Asked, db, sup, api, node
<1>27. ASSUME NEW s \in Switch, StepDown(s) PROVE TypeOK'
  BY <1>27
     DEF TypeOK, Calls, StepDown, api, node, net
<1>28. ASSUME NEW s \in Switch, TakePromote(s) PROVE TypeOK'
  <2>1. DbType'
    BY <1>28
       DEF TypeOK, DbType, TakePromote, db, sup, api
  <2>2. SupType'
    BY <1>28
       DEF TypeOK, SupType, TakePromote, db, sup, api
  <2>3. ApiType'
    BY <1>28
       DEF TypeOK, ApiType, TakePromote, db, sup, api
  <2>4. NodeType'
    <3>1. /\ claimed' \in {claimed, [claimed EXCEPT ![to[s]] = s]}
          /\ promoting' \in {promoting, [promoting EXCEPT ![to[s]] = s]}
          /\ UNCHANGED <<copy, copied, promoted, newHome, offed>>
      BY <1>28 DEF TakePromote
    <3>. QED
      BY <3>1 DEF TypeOK, NodeType
  <2>5. AskType'
    BY <1>28
       DEF TypeOK, AskType, TakePromote, db, sup, api
  <2>6. CallType'
    BY <1>28
       DEF TypeOK, CallType, TakePromote, db, sup, api
  <2>. QED BY <2>1, <2>2, <2>3, <2>4, <2>5, <2>6, TypePartsNext
<1>29. ASSUME NEW s \in Switch, AskLost(s) PROVE TypeOK'
  BY <1>29
     DEF TypeOK, Calls, AskLost, Spend, db, sup, api, node
<1>30. ASSUME NEW m \in Machine, Replicate(m) PROVE TypeOK'
  <2>1. DbType'
    BY <1>30 DEF TypeOK, DbType, Replicate, db
  <2>2. SupType'
    BY <1>30 DEF TypeOK, SupType, Replicate, sup
  <2>3. ApiType'
    BY <1>30 DEF TypeOK, ApiType, Replicate, api
  <2>4. NodeType'
    <3>1. /\ row \in [Switch -> Rows] /\ data \in Nat
          /\ copy' = [copy EXCEPT ![m] = row] /\ copied' = [copied EXCEPT ![m] = data]
          /\ UNCHANGED <<promoting, claimed, promoted, newHome, offed>>
      BY <1>30 DEF TypeOK, DbType, Replicate, db
    <3>. QED
      BY <3>1 DEF TypeOK, NodeType
  <2>5. AskType'
    BY <1>30 DEF TypeOK, AskType, Replicate, net
  <2>6. CallType'
    BY <1>30 DEF TypeOK, CallType, Replicate, net
  <2>. QED BY <2>1, <2>2, <2>3, <2>4, <2>5, <2>6, TypePartsNext
<1>31. ASSUME NEW m \in Machine, PromoteFails(m) PROVE TypeOK'
  <2>1. DbType'
    BY <1>31 DEF TypeOK, DbType, PromoteFails, db
  <2>2. SupType'
    BY <1>31 DEF TypeOK, SupType, PromoteFails, sup
  <2>3. ApiType'
    BY <1>31 DEF TypeOK, ApiType, PromoteFails, api
  <2>4. NodeType'
    BY <1>31 DEF TypeOK, NodeType, PromoteFails
  <2>5. AskType'
    BY <1>31 DEF TypeOK, AskType, PromoteFails
  <2>6. CallType'
    <3>1. UNCHANGED <<calls, forced>> /\ (UNCHANGED left \/ Spend("fault"))
      BY <1>31 DEF PromoteFails
    <3>. QED
      BY <3>1, SpendType DEF TypeOK, CallType, Bounds
  <2>. QED BY <2>1, <2>2, <2>3, <2>4, <2>5, <2>6, TypePartsNext
<1>32. ASSUME NEW m \in Machine, PromoteCommits(m) PROVE TypeOK'
  BY <1>32
     DEF TypeOK, Calls, PromoteCommits, db, sup, api, net
<1>33. ASSUME NEW m \in Machine, BecomesHome(m) PROVE TypeOK'
  <2>1. DbType'
    BY <1>33
       DEF TypeOK, DbType, BecomesHome, Spend, db, sup, api
  <2>2. SupType'
    BY <1>33
       DEF TypeOK, SupType, BecomesHome, Spend, db, sup, api
  <2>3. ApiType'
    BY <1>33
       DEF TypeOK, ApiType, BecomesHome, Spend, db, sup, api
  <2>4. NodeType'
    BY <1>33
       DEF TypeOK, NodeType, BecomesHome, Spend, db, sup, api
  <2>5. AskType'
    <3>1. PICK x \in {"home", "error"} : ask' = [ask EXCEPT ![promoting[m]] = x]
      BY <1>33 DEF BecomesHome
    <3>2. AskType /\ promoted \subseteq Switch /\ UNCHANGED promoted
      BY <1>33, TypeParts DEF BecomesHome, NodeType
    <3>3. \A s \in DOMAIN ask : ask'[s] \in {ask[s], x}
      BY <3>1
    <3>. QED
      BY <3>1, <3>2, <3>3 DEF AskType
  <2>6. CallType'
    BY <1>33
       DEF TypeOK, CallType, BecomesHome, Spend, db, sup, api
  <2>. QED BY <2>1, <2>2, <2>3, <2>4, <2>5, <2>6, TypePartsNext
<1>34. ASSUME NEW m \in Machine, MachineRestarts(m) PROVE TypeOK'
  <2>1. DbType'
    BY <1>34
       DEF TypeOK, DbType, MachineRestarts, Spend, Handled, db, sup, api
  <2>2. SupType'
    BY <1>34
       DEF TypeOK, SupType, MachineRestarts, Spend, Handled, db, sup, api
  <2>3. ApiType'
    BY <1>34
       DEF TypeOK, ApiType, MachineRestarts, Spend, Handled, db, sup, api
  <2>4. NodeType'
    BY <1>34
       DEF TypeOK, NodeType, MachineRestarts, Spend, Handled, db, sup, api
  <2>5. AskType'
    BY <1>34
       DEF TypeOK, AskType, MachineRestarts, Spend, Handled, db, sup, api
  <2>6. CallType'
    <3>1. calls' \subseteq Calls
      <4>1. \A c \in calls : [c EXCEPT !.at = "none"] \in Calls
        BY MovedType DEF TypeOK
      <4>. QED
        BY <1>34, <4>1 DEF MachineRestarts, TypeOK
    <3>2. left' \in [Bounds -> Nat]
      BY <1>34, SpendType DEF MachineRestarts, TypeOK
    <3>. QED
      BY <1>34, <3>1, <3>2 DEF MachineRestarts, CallType, TypeOK
  <2>. QED BY <2>1, <2>2, <2>3, <2>4, <2>5, <2>6, TypePartsNext
<1>35. ASSUME NEW c \in calls, CancelTold(c) PROVE TypeOK'
  BY <1>35
     DEF TypeOK, Calls, CancelTold, Answers, Asked, db, sup, node
<1>36. ASSUME NEW c \in calls, ReadStatus(c) PROVE TypeOK'
  <2>1. DbType'
    BY <1>36
       DEF TypeOK, DbType, ReadStatus, Spend, Reply, db, sup, api, node, Answers
  <2>2. SupType'
    BY <1>36
       DEF TypeOK, SupType, ReadStatus, Spend, Reply, db, sup, api, node, Answers
  <2>3. ApiType'
    BY <1>36
       DEF TypeOK, ApiType, ReadStatus, Spend, Reply, db, sup, api, node, Answers
  <2>4. NodeType'
    BY <1>36
       DEF TypeOK, NodeType, ReadStatus, Spend, Reply, db, sup, api, node, Answers
  <2>5. AskType'
    BY <1>36
       DEF TypeOK, AskType, ReadStatus, Spend, Reply, db, sup, api, node, Answers
  <2>6. CallType'
    BY <1>36, SpendType, ReplyType
       DEF TypeOK, CallType, ReadStatus, db, sup, api, node, Answers
  <2>. QED BY <2>1, <2>2, <2>3, <2>4, <2>5, <2>6, TypePartsNext
<1>37. ASSUME NEW c \in calls, FinishStatus(c) PROVE TypeOK'
  <2>1. DbType'
    BY <1>37
       DEF TypeOK, DbType, FinishStatus, Spend, Reply, db, sup, api, Answers
  <2>2. SupType'
    BY <1>37
       DEF TypeOK, SupType, FinishStatus, Spend, Reply, db, sup, api, Answers
  <2>3. ApiType'
    BY <1>37
       DEF TypeOK, ApiType, FinishStatus, Spend, Reply, db, sup, api, Answers
  <2>4. NodeType'
    <3>1. c.s \in Switch
      BY DEF TypeOK, Calls
    <3>. QED
      BY <1>37, <3>1 DEF FinishStatus, TypeOK, NodeType, Answering
  <2>5. AskType'
    BY <1>37
       DEF TypeOK, AskType, FinishStatus, Spend, Reply, db, sup, api, Answers
  <2>6. CallType'
    BY <1>37, SpendType, ReplyType
       DEF TypeOK, CallType, FinishStatus, db, sup, api, Answers
  <2>. QED BY <2>1, <2>2, <2>3, <2>4, <2>5, <2>6, TypePartsNext
<1>38. ASSUME NEW c \in calls, AbortStatus(c) PROVE TypeOK'
  <2>1. DbType'
    BY <1>38
       DEF TypeOK, DbType, AbortStatus, Reply, db, sup, api, Answers
  <2>2. SupType'
    BY <1>38
       DEF TypeOK, SupType, AbortStatus, Reply, db, sup, api, Answers
  <2>3. ApiType'
    BY <1>38
       DEF TypeOK, ApiType, AbortStatus, Reply, db, sup, api, Answers
  <2>4. NodeType'
    <3>1. c.s \in Switch
      BY DEF TypeOK, Calls
    <3>. QED
      BY <1>38, <3>1 DEF AbortStatus, TypeOK, NodeType
  <2>5. AskType'
    BY <1>38
       DEF TypeOK, AskType, AbortStatus, Reply, db, sup, api, Answers
  <2>6. CallType'
    BY <1>38, SpendType, ReplyType
       DEF TypeOK, CallType, AbortStatus, db, sup, api, Answers
  <2>. QED BY <2>1, <2>2, <2>3, <2>4, <2>5, <2>6, TypePartsNext
<1>39. ASSUME NEW c \in calls, Unanswered(c) PROVE TypeOK'
  <2>1. DbType'
    BY <1>39
       DEF TypeOK, DbType, Unanswered, Spend, Adrift, Reply, Handled, db, sup, api,
         node, Answers
  <2>2. SupType'
    BY <1>39
       DEF TypeOK, SupType, Unanswered, Spend, Adrift, Reply, Handled, db, sup, api,
         node, Answers
  <2>3. ApiType'
    BY <1>39
       DEF TypeOK, ApiType, Unanswered, Spend, Adrift, Reply, Handled, db, sup, api,
         node, Answers
  <2>4. NodeType'
    BY <1>39
       DEF TypeOK, NodeType, Unanswered, Spend, Adrift, Reply, Handled, db, sup, api,
         node, Answers
  <2>5. AskType'
    BY <1>39
       DEF TypeOK, AskType, Unanswered, Spend, Adrift, Reply, Handled, db, sup, api,
         node, Answers
  <2>6. CallType'
    <3>1. calls' \subseteq Calls
      <4>1. CASE Reply(c, "none")
        BY <4>1, ReplyType DEF TypeOK
      <4>2. CASE calls' = (calls \ {c}) \cup {Adrift(c), [c EXCEPT !.at = "none"]}
        <5>1. Adrift(c) \in Calls /\ [c EXCEPT !.at = "none"] \in Calls
          BY MovedType DEF TypeOK
        <5>. QED
          BY <4>2, <5>1 DEF TypeOK
      <4>. QED
        BY <1>39, <4>1, <4>2 DEF Unanswered
    <3>2. left' \in [Bounds -> Nat]
      BY <1>39, SpendType DEF Unanswered, TypeOK
    <3>. QED
      BY <1>39, <3>1, <3>2 DEF Unanswered, CallType, TypeOK
  <2>. QED BY <2>1, <2>2, <2>3, <2>4, <2>5, <2>6, TypePartsNext
<1>40. ASSUME Write PROVE TypeOK'
  BY <1>40
     DEF TypeOK, Calls, Write, sup, api, node, net
<1>41. ASSUME HomeRestarts PROVE TypeOK'
  <2>1. DbType'
    BY <1>41
       DEF TypeOK, DbType, HomeRestarts, Spend, Adrift, Resumed, Handled, db, node
  <2>2. SupType'
    BY <1>41
       DEF TypeOK, SupType, HomeRestarts, Spend, Adrift, Resumed, Handled, db, node
  <2>3. ApiType'
    BY <1>41
       DEF TypeOK, ApiType, HomeRestarts, Spend, Adrift, Resumed, Handled, db, node
  <2>4. NodeType'
    BY <1>41
       DEF TypeOK, NodeType, HomeRestarts, Spend, Adrift, Resumed, Handled, db, node
  <2>5. AskType'
    BY <1>41
       DEF TypeOK, AskType, HomeRestarts, Spend, Adrift, Resumed, Handled, db, node
  <2>6. CallType'
    <3>1. calls' \subseteq Calls
      <4>1. \A c \in calls : Adrift(c) \in Calls
        BY MovedType DEF TypeOK
      <4>. QED
        BY <1>41, <4>1 DEF HomeRestarts
    <3>2. left' \in [Bounds -> Nat]
      BY <1>41, SpendType DEF HomeRestarts, TypeOK
    <3>. QED
      BY <1>41, <3>1, <3>2 DEF HomeRestarts, CallType, TypeOK
  <2>. QED BY <2>1, <2>2, <2>3, <2>4, <2>5, <2>6, TypePartsNext
<1>x. CASE UNCHANGED vars BY <1>x DEF vars, TypeOK
<1>. QED
  BY <1>1, <1>2, <1>3, <1>4, <1>5, <1>6, <1>7, <1>8, <1>9, <1>10, <1>11, <1>12,
    <1>13, <1>14, <1>15, <1>16, <1>17, <1>18, <1>19, <1>20, <1>21, <1>22, <1>23,
    <1>24, <1>25, <1>26, <1>27, <1>28, <1>29, <1>30, <1>31, <1>32, <1>33, <1>34,
    <1>35, <1>36, <1>37, <1>38, <1>39, <1>40, <1>41, <1>x
     DEF Next, Running

-----------------------------------------------------------------------------
(* The other parts of the invariant *)

\* All of the invariant but the types and the answers.
Rest == Named /\ Owing /\ Copies /\ Early /\ Still /\ Whole /\ Waiting

\* A step of the machine, the channel or an admin: the home's state is as it was.
Elsewhere ==
    /\ UNCHANGED <<row, term, to, rights, access, data, rec, promised, home, pc, sent, owed,
                   copy, copied, forced>>
    /\ offed \subseteq offed'
    /\ \A s \in Switch : ask'[s] = "none" <=> ask[s] = "none"

\* A step of the run of s that leaves the database alone and does not go back.
Onward(s) ==
    /\ home
    /\ UNCHANGED <<row, term, to, rights, access, data, home, sent, owed, copy, copied, ask, offed>>
    /\ forced \subseteq forced'
    /\ \A t \in Switch :
         /\ t # s => pc'[t] = pc[t] /\ rec'[t] = rec[t]
         /\ rec[t] \in {"running", "home"} => rec'[t] \in {"running", "home"}
         /\ t \in sent /\ t \in promised => t \in promised'
    /\ pc[s] \notin {"off", "closing", "over"}
    /\ pc'[s] \in Before => pc[s] \in Before
    /\ pc'[s] # "record"
    /\ pc'[s] \in {"new", "check", "freeze"} => pc[s] \in {"new", "check", "freeze"}
    /\ pc'[s] \in Frozen => pc[s] \in Frozen
    /\ pc[s] = "marker" /\ pc'[s] \in Frozen \ {"marker"} => copy[to[s]][s] \in {"marked", "ended"}
    /\ pc[s] \in Doubting => pc'[s] \in Doubting \/ s \in offed \/ s \in forced'

\* A thaw for a switch another one came after changes neither right.
LEMMA ThawOther ==
    ASSUME NEW s \in Switch, NEW t \in Switch, s # t, Latest(s), Thaw(t) \/ ThawFails(t)
    PROVE  UNCHANGED <<rights, access>>
<1>1. Superseded(t)
  BY DEF Latest, Superseded
<1>. QED
  BY <1>1 DEF Thaw, ThawFails

\* Steps away from the home keep the rest.
LEMMA ElsewhereKeeps == ASSUME Rest, Elsewhere PROVE Rest'
<1>. USE DEF Rest, Elsewhere, InDoubt, Latest
<1>1. Named'
  BY DEF Named
<1>2. Owing'
  BY DEF Owing
<1>3. Copies'
  BY DEF Copies
<1>4. Early'
  BY DEF Early
<1>5. Still'
  BY DEF Still
<1>6. Whole'
  BY DEF Whole
<1>7. Waiting'
  BY DEF Waiting
<1>. QED
  BY <1>1, <1>2, <1>3, <1>4, <1>5, <1>6, <1>7

\* Steps of a run that leave the database alone keep the rest.
LEMMA OnwardKeeps == ASSUME Rest, NEW s \in Switch, Onward(s) PROVE Rest'
<1>. USE DEF Rest, Onward, InDoubt, Latest
<1>1. Named'
  BY DEF Named
<1>2. Owing'
  BY DEF Owing
<1>3. Copies'
  BY DEF Copies
<1>4. Early'
  BY DEF Early, Before
<1>5. Still'
  BY DEF Still, Frozen
<1>6. Whole'
  BY DEF Whole
<1>7. Waiting'
  BY DEF Waiting, Doubting
<1>. QED
  BY <1>1, <1>2, <1>3, <1>4, <1>5, <1>6, <1>7

\* Start keeps the rest.
LEMMA StartKeeps == ASSUME SwitchInv, NEW s \in Switch, NEW m \in Machine, Start(s, m) PROVE Rest'
<1>. USE DEF SwitchInv, TypeOK, InDoubt, Latest
<1>1. Named'
  BY DEF Named, Start, Go, Following, sup, node, net
<1>2. Owing'
  BY DEF Owing, Named, Start, Go, Following, sup, node, net
<1>3. Copies'
  BY DEF Copies, Start, Go, Following, sup, node, net
<1>4. Early'
  BY DEF Early, Start, Go, Following, sup, node, net, Before
<1>5. Still'
  BY DEF Still, Frozen, Start, Go, Following, sup, node, net
<1>6. Whole'
  BY DEF Whole, Named, Start, Go, Following, sup, node, net
<1>7. Waiting'
  BY DEF Waiting, Doubting, Start, Go, Following, sup, node, net
<1>. QED
  BY <1>1, <1>2, <1>3, <1>4, <1>5, <1>6, <1>7 DEF Rest

\* Freeze keeps the rest.
LEMMA FreezeKeeps == ASSUME SwitchInv, NEW s \in Switch, Freeze(s) PROVE Rest'
<1>. USE DEF SwitchInv, TypeOK, InDoubt, Latest
<1>1. Named'
  BY DEF Named, Early, Freeze, Go, Keep, node, net, Spend, Kept
<1>2. Owing'
  BY DEF Owing, Freeze, Go, Keep, node, net, Spend, Kept
<1>3. Copies'
  BY DEF Copies, Freeze, Go, Keep, node, net, Spend, Kept
<1>4. Early'
  BY DEF Early, Freeze, Go, Keep, node, net, Spend, Kept, Before
<1>5. Still'
  BY DEF Still, Frozen, Early, Copies, Freeze, Go, Keep, node, net, Spend, Kept
<1>6. Whole'
  BY DEF Whole, Freeze, Go, Keep, node, net, Spend, Kept
<1>7. Waiting'
  BY DEF Waiting, Doubting, Freeze, Go, Keep, node, net, Spend, Kept
<1>. QED
  BY <1>1, <1>2, <1>3, <1>4, <1>5, <1>6, <1>7 DEF Rest

\* FreezeFails keeps the rest.
LEMMA FreezeFailsKeeps == ASSUME SwitchInv, NEW s \in Switch, FreezeFails(s) PROVE Rest'
<1>. USE DEF SwitchInv, TypeOK, InDoubt, Latest
<1>1. Named'
  BY DEF Named, Early, FreezeFails, Go, Spend, sup, node, net
<1>2. Owing'
  BY DEF Owing, FreezeFails, Go, Spend, sup, node, net
<1>3. Copies'
  BY DEF Copies, FreezeFails, Go, Spend, sup, node, net
<1>4. Early'
  BY DEF Early, FreezeFails, Go, Spend, sup, node, net, Before
<1>5. Still'
  BY DEF Still, Frozen, FreezeFails, Go, Spend, sup, node, net
<1>6. Whole'
  BY DEF Whole, FreezeFails, Go, Spend, sup, node, net
<1>7. Waiting'
  BY DEF Waiting, Doubting, FreezeFails, Go, Spend, sup, node, net
<1>. QED
  BY <1>1, <1>2, <1>3, <1>4, <1>5, <1>6, <1>7 DEF Rest

\* Promise keeps the rest.
LEMMA PromiseKeeps == ASSUME SwitchInv, NEW s \in Switch, Promise(s) PROVE Rest'
<1>. USE DEF SwitchInv, TypeOK, InDoubt, Latest
<1>1. Named'
  BY DEF Named, Promise, Go, db, sup, node, net
<1>2. Owing'
  BY DEF Owing, Promise, Go, db, sup, node, net
<1>3. Copies'
  BY DEF Copies, Promise, Go, db, sup, node, net
<1>4. Early'
  BY DEF Early, Promise, Go, db, sup, node, net, Before
<1>5. Still'
  BY DEF Still, Frozen, Promise, Go, db, sup, node, net
<1>6. Whole'
  BY DEF Whole, Promise, Go, db, sup, node, net
<1>7. Waiting'
  BY DEF Waiting, Doubting, Promise, Go, db, sup, node, net
<1>. QED
  BY <1>1, <1>2, <1>3, <1>4, <1>5, <1>6, <1>7 DEF Rest

\* RecordPromise keeps the rest.
LEMMA RecordPromiseKeeps == ASSUME SwitchInv, NEW s \in Switch, RecordPromise(s) PROVE Rest'
<1>. USE DEF SwitchInv, TypeOK, InDoubt, Latest
<1>1. Named'
  BY DEF Named, Early, RecordPromise, Go, Kept, db, node
<1>2. Owing'
  BY DEF Owing, RecordPromise, Go, Kept, db, node
<1>3. Copies'
  BY DEF Copies, RecordPromise, Go, Kept, db, node
<1>4. Early'
  BY DEF Early, RecordPromise, Go, Kept, db, node, Before
<1>5. Still'
  BY DEF Still, Frozen, RecordPromise, Go, Kept, db, node
<1>6. Whole'
  BY DEF Whole, Still, Frozen, Early, Named, RecordPromise, Go, Kept, db, node
<1>7. Waiting'
  BY DEF Waiting, Doubting, Early, Still, Frozen, RecordPromise, Go, Kept, db, node
<1>. QED
  BY <1>1, <1>2, <1>3, <1>4, <1>5, <1>6, <1>7 DEF Rest

\* RecordFails keeps the rest.
LEMMA RecordFailsKeeps == ASSUME SwitchInv, NEW s \in Switch, RecordFails(s) PROVE Rest'
<1>. USE DEF SwitchInv, TypeOK, InDoubt, Latest
<1>1. Named'
  BY DEF Named, RecordFails, Go, Spend, db, node, net
<1>2. Owing'
  BY DEF Owing, RecordFails, Go, Spend, db, node, net
<1>3. Copies'
  BY DEF Copies, RecordFails, Go, Spend, db, node, net
<1>4. Early'
  BY DEF Early, RecordFails, Go, Spend, db, node, net, Before
<1>5. Still'
  BY DEF Still, Frozen, RecordFails, Go, Spend, db, node, net
<1>6. Whole'
  BY DEF Whole, RecordFails, Go, Spend, db, node, net
<1>7. Waiting'
  BY DEF Waiting, Doubting, RecordFails, Go, Spend, db, node, net
<1>. QED
  BY <1>1, <1>2, <1>3, <1>4, <1>5, <1>6, <1>7 DEF Rest

\* Demote keeps the rest.
LEMMA DemoteKeeps == ASSUME SwitchInv, NEW s \in Switch, Demote(s) PROVE Rest'
<1>. USE DEF SwitchInv, TypeOK, InDoubt, Latest
<1>1. Named'
  BY DEF Named, Demote, Go, db, node, net
<1>2. Owing'
  BY DEF Owing, Demote, Go, db, node, net
<1>3. Copies'
  BY DEF Copies, Demote, Go, db, node, net
<1>4. Early'
  BY DEF Early, Demote, Go, db, node, net, Before
<1>5. Still'
  BY DEF Still, Frozen, Demote, Go, db, node, net
<1>6. Whole'
  BY DEF Whole, Demote, Go, db, node, net
<1>7. Waiting'
  BY DEF Waiting, Doubting, Demote, Go, db, node, net
<1>. QED
  BY <1>1, <1>2, <1>3, <1>4, <1>5, <1>6, <1>7 DEF Rest

\* Undo keeps the rest.
LEMMA UndoKeeps == ASSUME SwitchInv, NEW s \in Switch, Undo(s) PROVE Rest'
<1>. USE DEF SwitchInv, TypeOK, InDoubt, Latest
<1>1. Named'
  <2>1. /\ pc[s] = "undo" /\ pc' = [pc EXCEPT ![s] = "closing"]
        /\ rec' = rec \/ rec' = [rec EXCEPT ![s] = "running"]
        /\ owed' = owed \/ owed' = owed \cup {s}
        /\ UNCHANGED <<row, to, ask>>
    BY DEF Undo, Go, Kept, Keep, node
  <2>2. Named /\ pc \in [Switch -> Pcs] /\ rec \in [Switch -> Records]
    OBVIOUS
  <2>. QED
    BY ONLY <2>1, <2>2, s \in Switch DEF Named
<1>2. Owing'
  BY DEF Owing, Undo, Go
<1>3. Copies'
  BY DEF Copies, Undo, Go, Kept, Keep, Thaw, ThawFails, node, Spend, Superseded
<1>4. Early'
  BY DEF Early, Undo, Go, Kept, Keep, Thaw, ThawFails, node, Spend, Superseded,
    Before
<1>5. Still'
  BY ThawOther DEF Still, Frozen, Early, Owing, Before, Undo, Go, Kept, Keep, node
<1>6. Whole'
  BY DEF Whole, Undo, Go, Kept, Keep, Thaw, ThawFails, node, Spend, Superseded
<1>7. Waiting'
  BY ThawOther DEF Waiting, Doubting, Owing, Named, Undo, Go, Kept, Keep, node
<1>. QED
  BY <1>1, <1>2, <1>3, <1>4, <1>5, <1>6, <1>7 DEF Rest

\* Close keeps the rest.
LEMMA CloseKeeps == ASSUME SwitchInv, NEW s \in Switch, Close(s) PROVE Rest'
<1>. USE DEF SwitchInv, TypeOK, InDoubt, Latest
<1>1. Named'
  BY DEF Named, Close, Go, Spend, Kept, Keep, Ended, node, net
<1>2. Owing'
  BY DEF Owing, Close, Go, Spend, Kept, Keep, Ended, node, net
<1>3. Copies'
  BY DEF Copies, Close, Go, Spend, Kept, Keep, Ended, node, net
<1>4. Early'
  BY DEF Early, Close, Go, Spend, Kept, Keep, Ended, node, net, Before
<1>5. Still'
  BY DEF Still, Frozen, Early, Owing, Before, Close, Go, Spend, Kept, Keep, Ended,
    node, net
<1>6. Whole'
  BY DEF Whole, Close, Go, Spend, Kept, Keep, Ended, node, net
<1>7. Waiting'
  BY DEF Waiting, Doubting, Close, Go, Spend, Kept, Keep, Ended, node, net
<1>. QED
  BY <1>1, <1>2, <1>3, <1>4, <1>5, <1>6, <1>7 DEF Rest

\* RetryThaw keeps the rest.
LEMMA RetryThawKeeps == ASSUME SwitchInv, NEW s \in Switch, RetryThaw(s) PROVE Rest'
<1>. USE DEF SwitchInv, TypeOK, InDoubt, Latest
<1>1. Named'
  BY DEF Named, RetryThaw, Keep, Thaw, node, net, Spend, Kept, Superseded
<1>2. Owing'
  BY DEF Owing, RetryThaw, Keep, Thaw, node, net, Spend, Kept, Superseded
<1>3. Copies'
  BY DEF Copies, RetryThaw, Keep, Thaw, node, net, Spend, Kept, Superseded
<1>4. Early'
  BY DEF Early, Owing, RetryThaw, Keep, Thaw, node, net, Spend, Kept, Superseded,
    Before
<1>5. Still'
  BY ThawOther DEF Still, Frozen, Early, Owing, Before, RetryThaw, Keep, node, net,
    Kept
<1>6. Whole'
  BY DEF Whole, RetryThaw, Keep, Thaw, node, net, Spend, Kept, Superseded
<1>7. Waiting'
  <2>. SUFFICES ASSUME NEW x \in Switch, home', InDoubt(x)'
                PROVE  /\ ~ rights' /\ ~ access'
                       /\ Latest(x)' /\ pc'[x] \in Doubting
                       /\ x \in sent' /\ x \in promised' /\ rec'[x] \in {"running", "home"}
    BY DEF Waiting
  <2>1. home /\ ask[x] # "none" /\ x \notin offed /\ x \notin forced
    BY DEF RetryThaw, node, net
  <2>2. /\ ~ rights /\ ~ access /\ Latest(x) /\ pc[x] \in Doubting
        /\ x \in sent /\ x \in promised /\ rec[x] \in {"running", "home"}
    BY <2>1 DEF Waiting
  <2>3. x # s
    BY <2>2 DEF Owing, RetryThaw, Doubting
  <2>4. rights' = rights /\ access' = access
    BY <2>2, <2>3, ThawOther DEF RetryThaw
  <2>5. rec'[x] = rec[x] /\ x \in promised'
    BY <2>2, <2>3 DEF RetryThaw, Keep, Kept
  <2>6. pc' = pc /\ sent' = sent /\ term' = term /\ row'[x] = row[x]
    BY <2>3 DEF RetryThaw
  <2>. QED
    BY <2>2, <2>4, <2>5, <2>6
<1>. QED
  BY <1>1, <1>2, <1>3, <1>4, <1>5, <1>6, <1>7 DEF Rest

\* Write keeps the rest.
LEMMA WriteKeeps == ASSUME SwitchInv, Write PROVE Rest'
<1>. USE DEF SwitchInv, TypeOK, InDoubt, Latest
<1>1. Named'
  BY DEF Named, Write, sup, api, node, net
<1>2. Owing'
  BY DEF Owing, Write, sup, api, node, net
<1>3. Copies'
  BY DEF Copies, Write, sup, api, node, net
<1>4. Early'
  BY DEF Early, Write, sup, api, node, net, Before
<1>5. Still'
  BY DEF Still, Frozen, Write, sup, api, node, net
<1>6. Whole'
  BY DEF Whole, Waiting, Write, sup, api, node, net
<1>7. Waiting'
  BY DEF Waiting, Doubting, Write, sup, api, node, net
<1>. QED
  BY <1>1, <1>2, <1>3, <1>4, <1>5, <1>6, <1>7 DEF Rest

\* StepDown keeps the rest.
LEMMA StepDownKeeps == ASSUME SwitchInv, NEW s \in Switch, StepDown(s) PROVE Rest'
<1>. USE DEF SwitchInv, TypeOK, InDoubt, Latest
<1>1. Named'
  BY DEF Named, StepDown, api, node, net
<1>2. Owing'
  BY DEF Owing, StepDown, api, node, net
<1>3. Copies'
  BY DEF Copies, StepDown, api, node, net
<1>4. Early'
  BY DEF Early, StepDown, api, node, net, Before
<1>5. Still'
  BY DEF Still, Frozen, StepDown, api, node, net
<1>6. Whole'
  BY DEF Whole, StepDown, api, node, net
<1>7. Waiting'
  BY DEF Waiting, Doubting, StepDown, api, node, net
<1>. QED
  BY <1>1, <1>2, <1>3, <1>4, <1>5, <1>6, <1>7 DEF Rest

\* HomeRestarts keeps the rest.
LEMMA HomeRestartsKeeps == ASSUME SwitchInv, HomeRestarts PROVE Rest'
<1>. USE DEF SwitchInv, TypeOK, InDoubt, Latest
<1>1. Named'
  BY DEF Named, HomeRestarts, Spend, Adrift, Resumed, db, node
<1>2. Owing'
  BY DEF Owing, HomeRestarts, Spend, Adrift, Resumed, db, node
<1>3. Copies'
  BY DEF Copies, HomeRestarts, Spend, Adrift, Resumed, db, node
<1>4. Early'
  BY DEF Early, HomeRestarts, Spend, Adrift, Resumed, db, node, Before
<1>5. Still'
  BY DEF Still, Frozen, HomeRestarts, Spend, Adrift, Resumed, db, node
<1>6. Whole'
  BY DEF Whole, HomeRestarts, Spend, Adrift, Resumed, db, node
<1>7. Waiting'
  BY DEF Waiting, Doubting, HomeRestarts, Spend, Adrift, Resumed, db, node
<1>. QED
  BY <1>1, <1>2, <1>3, <1>4, <1>5, <1>6, <1>7 DEF Rest

\* Replicate keeps the rest.
LEMMA ReplicateKeeps == ASSUME SwitchInv, NEW m \in Machine, Replicate(m) PROVE Rest'
<1>. USE DEF SwitchInv, TypeOK, InDoubt, Latest
<1>1. Named'
  BY DEF Named, Replicate, Following, db, sup, api, net
<1>2. Owing'
  BY DEF Owing, Replicate, Following, db, sup, api, net
<1>3. Copies'
  BY DEF Copies, Replicate, Following, db, sup, api, net
<1>4. Early'
  BY DEF Early, Replicate, Following, db, sup, api, net, Before
<1>5. Still'
  BY DEF Still, Frozen, Copies, Named, Early, Rows, Replicate, Following, db, sup,
    api, net
<1>6. Whole'
  BY DEF Whole, Named, Replicate, Following, db, sup, api, net
<1>7. Waiting'
  BY DEF Waiting, Doubting, Replicate, Following, db, sup, api, net
<1>. QED
  BY <1>1, <1>2, <1>3, <1>4, <1>5, <1>6, <1>7 DEF Rest

\* Every step keeps the rest.
LEMMA RestStep == ASSUME SwitchInv, [Next]_vars PROVE Rest'
<1>. USE DEF SwitchInv
<1>0. Rest
  BY DEF Rest
<1>1. ASSUME NEW s \in Switch, NEW m \in Machine, Start(s, m) PROVE Rest'
  BY <1>1, StartKeeps
<1>2. ASSUME NEW s \in Switch, Step(s) PROVE Rest'
  <2>1. Onward(s)
    BY <1>2
       DEF Onward, Frozen, Doubting, Before, Asked, TypeOK, Step, Go, Keep, db, node,
         net, Kept
  <2>. QED
    BY <1>0, <2>1, OnwardKeeps
<1>3. ASSUME NEW s \in Switch, CheckFails(s) PROVE Rest'
  <2>1. Onward(s)
    BY <1>3
       DEF Onward, Frozen, Doubting, Before, Asked, TypeOK, CheckFails, Go, db, sup,
         node, net
  <2>. QED
    BY <1>0, <2>1, OnwardKeeps
<1>4. ASSUME NEW s \in Switch, Freeze(s) PROVE Rest'
  BY <1>4, FreezeKeeps
<1>5. ASSUME NEW s \in Switch, FreezeFails(s) PROVE Rest'
  BY <1>5, FreezeFailsKeeps
<1>6. ASSUME NEW s \in Switch, Marker(s) PROVE Rest'
  <2>1. Onward(s)
    BY <1>6
       DEF Onward, Frozen, Doubting, Before, Asked, TypeOK, Marker, Go, Keep, db,
         node, net, Kept
  <2>. QED
    BY <1>0, <2>1, OnwardKeeps
<1>7. ASSUME NEW s \in Switch, MarkerMissing(s) PROVE Rest'
  <2>1. Onward(s)
    BY <1>7
       DEF Onward, Frozen, Doubting, Before, Asked, TypeOK, MarkerMissing, Go, db,
         sup, node, net
  <2>. QED
    BY <1>0, <2>1, OnwardKeeps
<1>8. ASSUME NEW s \in Switch, Kit(s) PROVE Rest'
  <2>1. Onward(s)
    BY <1>8
       DEF Onward, Frozen, Doubting, Before, Asked, TypeOK, Kit, Go, Keep, db, node,
         net, Kept
  <2>. QED
    BY <1>0, <2>1, OnwardKeeps
<1>9. ASSUME NEW s \in Switch, KitRefused(s) PROVE Rest'
  <2>1. Onward(s)
    BY <1>9
       DEF Onward, Frozen, Doubting, Before, Asked, TypeOK, KitRefused, Go, db, sup,
         node, net
  <2>. QED
    BY <1>0, <2>1, OnwardKeeps
<1>10. ASSUME NEW s \in Switch, StepFails(s) PROVE Rest'
  <2>1. Onward(s)
    BY <1>10
       DEF Onward, Frozen, Doubting, Before, Asked, TypeOK, StepFails, Go, db, node,
         net
  <2>. QED
    BY <1>0, <2>1, OnwardKeeps
<1>11. ASSUME NEW s \in Switch, Stopped(s) PROVE Rest'
  <2>1. Onward(s)
    BY <1>11
       DEF Onward, Frozen, Doubting, Before, Asked, TypeOK, Stopped, Go, db, sup,
         node, net
  <2>. QED
    BY <1>0, <2>1, OnwardKeeps
<1>12. ASSUME NEW s \in Switch, Promise(s) PROVE Rest'
  BY <1>12, PromiseKeeps
<1>13. ASSUME NEW s \in Switch, RecordPromise(s) PROVE Rest'
  BY <1>13, RecordPromiseKeeps
<1>14. ASSUME NEW s \in Switch, RecordFails(s) PROVE Rest'
  BY <1>14, RecordFailsKeeps
<1>15. ASSUME NEW s \in Switch, Answered(s) PROVE Rest'
  <2>1. Onward(s)
    BY <1>15
       DEF Onward, Frozen, Doubting, Before, Asked, TypeOK, Answered, Go, Keep, db,
         node, net, Kept
  <2>. QED
    BY <1>0, <2>1, OnwardKeeps
<1>16. ASSUME NEW s \in Switch, GivesUp(s) PROVE Rest'
  <2>1. Onward(s)
    BY <1>16
       DEF Onward, Frozen, Doubting, Before, Asked, TypeOK, GivesUp, Go, db, sup,
         node, net
  <2>. QED
    BY <1>0, <2>1, OnwardKeeps
<1>17. ASSUME NEW s \in Switch, Ask(s) PROVE Rest'
  <2>1. Onward(s)
    BY <1>17
       DEF Onward, Frozen, Doubting, Before, Asked, TypeOK, Ask, Go, db, sup, node
  <2>. QED
    BY <1>0, <2>1, OnwardKeeps
<1>18. ASSUME NEW s \in Switch, Look(s) PROVE Rest'
  <2>1. Onward(s)
    BY <1>18
       DEF Onward, Frozen, Doubting, Before, Asked, TypeOK, Look, Go, Keep, db, node,
         net, Kept
  <2>. QED
    BY <1>0, <2>1, OnwardKeeps
<1>19. ASSUME NEW s \in Switch, Demote(s) PROVE Rest'
  BY <1>19, DemoteKeeps
<1>20. ASSUME NEW s \in Switch, Undo(s) PROVE Rest'
  BY <1>20, UndoKeeps
<1>21. ASSUME NEW s \in Switch, Close(s) PROVE Rest'
  BY <1>21, CloseKeeps
<1>22. ASSUME NEW s \in Switch, NEW c \in calls, Told(s, c) PROVE Rest'
  <2>1. Onward(s)
    BY <1>22
       DEF Onward, Frozen, Doubting, Before, Asked, TypeOK, Told, Go, Keep, Answers,
         db, node, Kept, Answering
  <2>. QED
    BY <1>0, <2>1, OnwardKeeps
<1>23. ASSUME NEW s \in Switch, RetryThaw(s) PROVE Rest'
  BY <1>23, RetryThawKeeps
<1>24. ASSUME NEW s \in Switch, FollowUp(s) PROVE Rest'
  <2>1. Elsewhere
    BY <1>24
       DEF Elsewhere, TypeOK, FollowUp, db, sup, api, node
  <2>. QED
    BY <1>0, <2>1, ElsewhereKeeps
<1>25. ASSUME NEW s \in Switch, Cancel(s) PROVE Rest'
  <2>1. Elsewhere
    BY <1>25
       DEF Elsewhere, TypeOK, Cancel, Before, db, sup, node, net
  <2>. QED
    BY <1>0, <2>1, ElsewhereKeeps
<1>26. ASSUME NEW s \in Switch, CancelAsks(s) PROVE Rest'
  <2>1. Elsewhere
    BY <1>26
       DEF Elsewhere, TypeOK, CancelAsks, Asked, db, sup, api, node
  <2>. QED
    BY <1>0, <2>1, ElsewhereKeeps
<1>27. ASSUME NEW s \in Switch, StepDown(s) PROVE Rest'
  BY <1>27, StepDownKeeps
<1>28. ASSUME NEW s \in Switch, TakePromote(s) PROVE Rest'
  <2>1. Elsewhere
    BY <1>28
       DEF Elsewhere, TypeOK, TakePromote, db, sup, api
  <2>. QED
    BY <1>0, <2>1, ElsewhereKeeps
<1>29. ASSUME NEW s \in Switch, AskLost(s) PROVE Rest'
  <2>1. Elsewhere
    BY <1>29
       DEF Elsewhere, TypeOK, AskLost, db, sup, api, node
  <2>. QED
    BY <1>0, <2>1, ElsewhereKeeps
<1>30. ASSUME NEW m \in Machine, Replicate(m) PROVE Rest'
  BY <1>30, ReplicateKeeps
<1>31. ASSUME NEW m \in Machine, PromoteFails(m) PROVE Rest'
  <2>1. Elsewhere
    BY <1>31
       DEF Elsewhere, TypeOK, PromoteFails, db, sup, api
  <2>. QED
    BY <1>0, <2>1, ElsewhereKeeps
<1>32. ASSUME NEW m \in Machine, PromoteCommits(m) PROVE Rest'
  <2>1. Elsewhere
    BY <1>32
       DEF Elsewhere, TypeOK, PromoteCommits, db, sup, api, net
  <2>. QED
    BY <1>0, <2>1, ElsewhereKeeps
<1>33. ASSUME NEW m \in Machine, BecomesHome(m) PROVE Rest'
  <2>1. Elsewhere
    BY <1>33
       DEF Elsewhere, TypeOK, BecomesHome, db, sup, api
  <2>. QED
    BY <1>0, <2>1, ElsewhereKeeps
<1>34. ASSUME NEW m \in Machine, MachineRestarts(m) PROVE Rest'
  <2>1. Elsewhere
    BY <1>34
       DEF Elsewhere, TypeOK, MachineRestarts, db, sup, api
  <2>. QED
    BY <1>0, <2>1, ElsewhereKeeps
<1>35. ASSUME NEW c \in calls, CancelTold(c) PROVE Rest'
  <2>1. Elsewhere
    BY <1>35
       DEF Elsewhere, TypeOK, CancelTold, Answers, Asked, db, sup, node
  <2>. QED
    BY <1>0, <2>1, ElsewhereKeeps
<1>36. ASSUME NEW c \in calls, ReadStatus(c) PROVE Rest'
  <2>1. Elsewhere
    BY <1>36
       DEF Elsewhere, TypeOK, ReadStatus, Reply, db, sup, api, node, Answers
  <2>. QED
    BY <1>0, <2>1, ElsewhereKeeps
<1>37. ASSUME NEW c \in calls, FinishStatus(c) PROVE Rest'
  <2>1. Elsewhere
    BY <1>37
       DEF Elsewhere, TypeOK, FinishStatus, Reply, db, sup, api, Answers
  <2>. QED
    BY <1>0, <2>1, ElsewhereKeeps
<1>38. ASSUME NEW c \in calls, AbortStatus(c) PROVE Rest'
  <2>1. Elsewhere
    BY <1>38
       DEF Elsewhere, TypeOK, AbortStatus, Reply, db, sup, api, Answers
  <2>. QED
    BY <1>0, <2>1, ElsewhereKeeps
<1>39. ASSUME NEW c \in calls, Unanswered(c) PROVE Rest'
  <2>1. Elsewhere
    BY <1>39
       DEF Elsewhere, TypeOK, Unanswered, Adrift, Reply, db, sup, api, node, Answers
  <2>. QED
    BY <1>0, <2>1, ElsewhereKeeps
<1>40. ASSUME Write PROVE Rest'
  BY <1>40, WriteKeeps
<1>41. ASSUME HomeRestarts PROVE Rest'
  BY <1>41, HomeRestartsKeeps
<1>x. CASE UNCHANGED vars
  BY <1>x, <1>0, ElsewhereKeeps DEF vars, Elsewhere
<1>. QED
  BY <1>1, <1>2, <1>3, <1>4, <1>5, <1>6, <1>7, <1>8, <1>9, <1>10, <1>11, <1>12,
    <1>13, <1>14, <1>15, <1>16, <1>17, <1>18, <1>19, <1>20, <1>21, <1>22, <1>23,
    <1>24, <1>25, <1>26, <1>27, <1>28, <1>29, <1>30, <1>31, <1>32, <1>33, <1>34,
    <1>35, <1>36, <1>37, <1>38, <1>39, <1>40, <1>41, <1>x
     DEF Next, Running

\* Only the place of a call moves.
LEMMA MovedFields ==
    ASSUME TypeOK, NEW c \in calls, NEW at
    PROVE  /\ [c EXCEPT !.at = at].at = at /\ [c EXCEPT !.at = at].s = c.s
           /\ Adrift(c).at = c.at /\ Adrift(c).s = c.s
<1>1. c \in Calls
  BY DEF TypeOK
<1>. QED
  BY <1>1 DEF Calls, Adrift

\* A call answered, or on its way on, keeps what the answers say.
LEMMA ReplyKeeps ==
    ASSUME TypeOK, Answering, NEW c \in calls, NEW at, Reply(c, at),
           at = "called_off" => c.s \in offed', at = "promoted" => c.s \in promoted',
           offed \subseteq offed', promoted \subseteq promoted'
    PROVE  Answering'
<1>. SUFFICES ASSUME NEW d \in calls'
              PROVE  /\ d.at = "called_off" => d.s \in offed'
                     /\ d.at = "promoted" => d.s \in promoted'
  BY DEF Answering
<1>1. d \in calls \/ d = [c EXCEPT !.at = at]
  BY DEF Reply
<1>2. CASE d \in calls
  BY <1>2 DEF Answering
<1>3. CASE d = [c EXCEPT !.at = at]
  BY <1>3, MovedFields
<1>. QED
  BY <1>1, <1>2, <1>3

\* Every step keeps what the answers in flight say.
LEMMA AnsweringStep == ASSUME TypeOK, Answering, [Next]_vars PROVE Answering'
<1>. USE DEF Answering
<1>1. ASSUME NEW s \in Switch, NEW m \in Machine, Start(s, m) PROVE Answering'
  BY <1>1
     DEF Start, sup, node, net
<1>2. ASSUME NEW s \in Switch, Step(s) PROVE Answering'
  BY <1>2
     DEF Step, db, node, net
<1>3. ASSUME NEW s \in Switch, CheckFails(s) PROVE Answering'
  BY <1>3
     DEF CheckFails, db, sup, node, net
<1>4. ASSUME NEW s \in Switch, Freeze(s) PROVE Answering'
  BY <1>4
     DEF Freeze, node, net
<1>5. ASSUME NEW s \in Switch, FreezeFails(s) PROVE Answering'
  BY <1>5
     DEF FreezeFails, sup, node, net
<1>6. ASSUME NEW s \in Switch, Marker(s) PROVE Answering'
  BY <1>6
     DEF Marker, db, node, net
<1>7. ASSUME NEW s \in Switch, MarkerMissing(s) PROVE Answering'
  BY <1>7
     DEF MarkerMissing, db, sup, node, net
<1>8. ASSUME NEW s \in Switch, Kit(s) PROVE Answering'
  BY <1>8
     DEF Kit, db, node, net
<1>9. ASSUME NEW s \in Switch, KitRefused(s) PROVE Answering'
  BY <1>9
     DEF KitRefused, db, sup, node, net
<1>10. ASSUME NEW s \in Switch, StepFails(s) PROVE Answering'
  BY <1>10
     DEF StepFails, db, node, net
<1>11. ASSUME NEW s \in Switch, Stopped(s) PROVE Answering'
  BY <1>11
     DEF Stopped, db, sup, node, net
<1>12. ASSUME NEW s \in Switch, Promise(s) PROVE Answering'
  BY <1>12
     DEF Promise, db, sup, node, net
<1>13. ASSUME NEW s \in Switch, RecordPromise(s) PROVE Answering'
  BY <1>13
     DEF RecordPromise, db, node
<1>14. ASSUME NEW s \in Switch, RecordFails(s) PROVE Answering'
  BY <1>14
     DEF RecordFails, db, node, net
<1>15. ASSUME NEW s \in Switch, Answered(s) PROVE Answering'
  BY <1>15
     DEF Answered, db, node, net
<1>16. ASSUME NEW s \in Switch, GivesUp(s) PROVE Answering'
  BY <1>16
     DEF GivesUp, db, sup, node, net
<1>17. ASSUME NEW s \in Switch, Ask(s) PROVE Answering'
  BY <1>17
     DEF Ask, db, sup, node
<1>18. ASSUME NEW s \in Switch, Look(s) PROVE Answering'
  BY <1>18
     DEF Look, db, node, net
<1>19. ASSUME NEW s \in Switch, Demote(s) PROVE Answering'
  BY <1>19
     DEF Demote, db, node, net
<1>20. ASSUME NEW s \in Switch, Undo(s) PROVE Answering'
  BY <1>20
     DEF Undo, Thaw, ThawFails, node
<1>21. ASSUME NEW s \in Switch, Close(s) PROVE Answering'
  BY <1>21
     DEF Close, node, net
<1>22. ASSUME NEW s \in Switch, NEW c \in calls, Told(s, c) PROVE Answering'
  BY <1>22
     DEF Told, Answers, db, node
<1>23. ASSUME NEW s \in Switch, RetryThaw(s) PROVE Answering'
  BY <1>23
     DEF RetryThaw, Thaw, node, net
<1>24. ASSUME NEW s \in Switch, FollowUp(s) PROVE Answering'
  BY <1>24
     DEF FollowUp, db, sup, api, node
<1>25. ASSUME NEW s \in Switch, Cancel(s) PROVE Answering'
  BY <1>25
     DEF Cancel, db, sup, node, net
<1>26. ASSUME NEW s \in Switch, CancelAsks(s) PROVE Answering'
  BY <1>26
     DEF CancelAsks, db, sup, api, node
<1>27. ASSUME NEW s \in Switch, StepDown(s) PROVE Answering'
  BY <1>27
     DEF StepDown, api, node, net
<1>28. ASSUME NEW s \in Switch, TakePromote(s) PROVE Answering'
  BY <1>28
     DEF TakePromote, db, sup, api
<1>29. ASSUME NEW s \in Switch, AskLost(s) PROVE Answering'
  BY <1>29
     DEF AskLost, db, sup, api, node
<1>30. ASSUME NEW m \in Machine, Replicate(m) PROVE Answering'
  BY <1>30
     DEF Replicate, db, sup, api, net
<1>31. ASSUME NEW m \in Machine, PromoteFails(m) PROVE Answering'
  BY <1>31
     DEF PromoteFails, db, sup, api
<1>32. ASSUME NEW m \in Machine, PromoteCommits(m) PROVE Answering'
  BY <1>32
     DEF PromoteCommits, db, sup, api, net
<1>33. ASSUME NEW m \in Machine, BecomesHome(m) PROVE Answering'
  BY <1>33
     DEF BecomesHome, db, sup, api
<1>34. ASSUME NEW m \in Machine, MachineRestarts(m) PROVE Answering'
  <2>1. UNCHANGED <<offed, promoted>>
    BY <1>34 DEF MachineRestarts
  <2>. SUFFICES ASSUME NEW d \in calls'
                PROVE  /\ d.at = "called_off" => d.s \in offed
                       /\ d.at = "promoted" => d.s \in promoted
    BY <2>1
  <2>2. d \in calls \/ \E c \in calls : d = [c EXCEPT !.at = "none"]
    BY <1>34 DEF MachineRestarts
  <2>3. \A e \in calls : [e EXCEPT !.at = "none"].at = "none"
    BY MovedFields
  <2>. QED
    BY <2>2, <2>3, MovedFields
<1>35. ASSUME NEW c \in calls, CancelTold(c) PROVE Answering'
  BY <1>35
     DEF TypeOK, CancelTold, Answers, db, sup, node
<1>36. ASSUME NEW c \in calls, ReadStatus(c) PROVE Answering'
  <2>1. PICK at : Reply(c, at) /\ (at = "called_off" => c.s \in offed') /\ (at = "promoted" => c.s \in promoted)
    BY <1>36 DEF ReadStatus, Answers
  <2>2. offed \subseteq offed' /\ promoted \subseteq promoted'
    BY <1>36 DEF ReadStatus, node
  <2>. QED
    BY <2>1, <2>2, ReplyKeeps
<1>37. ASSUME NEW c \in calls, FinishStatus(c) PROVE Answering'
  <2>1. PICK at : Reply(c, at) /\ (at = "called_off" => c.s \in offed') /\ (at = "promoted" => c.s \in promoted)
    BY <1>37 DEF FinishStatus, Answers
  <2>2. offed \subseteq offed' /\ promoted \subseteq promoted'
    BY <1>37 DEF FinishStatus
  <2>. QED
    BY <2>1, <2>2, ReplyKeeps
<1>38. ASSUME NEW c \in calls, AbortStatus(c) PROVE Answering'
  <2>1. PICK at : Reply(c, at) /\ (at = "called_off" => c.s \in offed') /\ (at = "promoted" => c.s \in promoted)
    BY <1>38 DEF AbortStatus, Answers
  <2>2. offed \subseteq offed' /\ promoted \subseteq promoted'
    BY <1>38 DEF AbortStatus
  <2>. QED
    BY <2>1, <2>2, ReplyKeeps
<1>39. ASSUME NEW c \in calls, Unanswered(c) PROVE Answering'
  <2>1. UNCHANGED <<offed, promoted>>
    BY <1>39 DEF Unanswered, node
  <2>. SUFFICES ASSUME NEW d \in calls'
                PROVE  /\ d.at = "called_off" => d.s \in offed
                       /\ d.at = "promoted" => d.s \in promoted
    BY <2>1
  <2>2. d \in calls \/ d = [c EXCEPT !.at = "none"] \/ d = Adrift(c)
    BY <1>39 DEF Unanswered, Reply
  <2>3. \A e \in calls : [e EXCEPT !.at = "none"].at = "none"
    BY MovedFields
  <2>4. Adrift(c).at = c.at /\ Adrift(c).s = c.s
    BY MovedFields
  <2>. QED
    BY <2>2, <2>3, <2>4
<1>40. ASSUME Write PROVE Answering'
  BY <1>40
     DEF Write, sup, api, node, net
<1>41. ASSUME HomeRestarts PROVE Answering'
  <2>1. UNCHANGED <<offed, promoted>>
    BY <1>41 DEF HomeRestarts, node
  <2>. SUFFICES ASSUME NEW d \in calls'
                PROVE  /\ d.at = "called_off" => d.s \in offed
                       /\ d.at = "promoted" => d.s \in promoted
    BY <2>1
  <2>2. d \in calls \/ \E c \in calls : d = Adrift(c)
    BY <1>41 DEF HomeRestarts
  <2>. QED
    BY <2>2, MovedFields
<1>x. CASE UNCHANGED vars
  BY <1>x DEF vars
<1>. QED
  BY <1>1, <1>2, <1>3, <1>4, <1>5, <1>6, <1>7, <1>8, <1>9, <1>10, <1>11, <1>12,
    <1>13, <1>14, <1>15, <1>16, <1>17, <1>18, <1>19, <1>20, <1>21, <1>22, <1>23,
    <1>24, <1>25, <1>26, <1>27, <1>28, <1>29, <1>30, <1>31, <1>32, <1>33, <1>34,
    <1>35, <1>36, <1>37, <1>38, <1>39, <1>40, <1>41, <1>x
     DEF Next, Running

-----------------------------------------------------------------------------
(* The theorems *)

\* The initial states satisfy the invariant.
LEMMA Begins == Init => SwitchInv
<1>. SUFFICES ASSUME Init PROVE SwitchInv
  OBVIOUS
<1>1. TypeOK
  <2>1. DbType /\ SupType /\ ApiType /\ NodeType /\ AskType
    BY DEF Init, DbType, SupType, ApiType, NodeType, AskType, Rows, Records, Pcs, Before, Asked
  <2>2. CallType
    BY SwitchoverAssumption DEF Init, CallType, Bounds
  <2>. QED
    BY <2>1, <2>2, TypeParts
<1>2. Named /\ Answering /\ Owing /\ Copies
  BY DEF Init, Named, Answering, Owing, Copies
<1>3. Early /\ Still /\ Whole /\ Waiting
  BY DEF Init, Early, Still, Whole, Waiting, Before, Frozen, InDoubt
<1>. QED
  BY <1>1, <1>2, <1>3 DEF SwitchInv

\* The inductive invariant holds in every state.
THEOREM Inductive == Spec => []SwitchInv
<1>1. SwitchInv /\ [Next]_vars => SwitchInv'
  BY TypeStep, AnsweringStep, RestStep DEF SwitchInv, Rest
<1>. QED
  BY Begins, <1>1, PTL DEF Spec

\* Every variable keeps its type; an answer is kept only of a term that began.
THEOREM TypeCorrect == Spec => []TypeOK
<1>1. SwitchInv => TypeOK
  BY DEF SwitchInv
<1>. QED
  BY Inductive, <1>1, PTL

\* A home that asked a machine to take over stays frozen until it knows, for any number
\* of switches, machines, restarts, lost commands and failed calls.
THEOREM StaysFrozen == Spec => []FrozenInDoubt
<1>1. SwitchInv => FrozenInDoubt
  BY DEF SwitchInv, Waiting, InDoubt, FrozenInDoubt
<1>. QED
  BY Inductive, <1>1, PTL

\* Nothing the old home's app wrote is missing from a machine whose term began.
THEOREM NothingIsLost == Spec => []NothingLost
<1>1. SwitchInv => NothingLost
  BY DEF SwitchInv, TypeOK, Whole, InDoubt, NothingLost
<1>. QED
  BY Inductive, <1>1, PTL
=============================================================================
