----------------------------- MODULE Switchover -----------------------------
(***************************************************************************)
(* A planned switch of the home: the orchestrator in the home's API        *)
(* (api/internal/cluster/switchover), its supervisor's endpoints and the   *)
(* machine taking over (cmd/maktaba-server/serve_switchover.go), and the   *)
(* freeze, the thaw and the promotion of the two databases                 *)
(* (cmd/maktaba-server/internal/switchover).                               *)
(*                                                                         *)
(* The home keeps three memories of a switch: the row in its database      *)
(* (row), its supervisor's record on disk (rec, promised) and the API's    *)
(* own progress (pc, sent, cancel, owed), which a restart loses. The       *)
(* machine taking over keeps two marks on disk (offed, newHome) and the    *)
(* term in its database (promoted). Everything the properties say is about *)
(* how these are kept in step across commands that are lost or answered    *)
(* late, restarts at any point, and an admin who calls the switch off.     *)
(***************************************************************************)
EXTENDS Naturals, FiniteSets

CONSTANTS
    Switch,      \* the switches that may be started
    Machine,     \* the machines that may take over
    None,        \* no switch, no machine
    MaxWrites,   \* bound: writes of the home's own app
    MaxCrashes,  \* bound: restarts of the API, the supervisor or a machine
    MaxLost,     \* bound: commands lost, or not answered in time
    MaxFaults    \* bound: calls and writes that fail

ASSUME SwitchoverAssumption ==
    /\ IsFiniteSet(Switch)
    /\ None \notin Switch \cup Machine
    /\ {MaxWrites, MaxCrashes, MaxLost, MaxFaults} \subseteq Nat

VARIABLES
    row,        \* each switch's row: "none", "open", "marked" (the freeze's marker), "ended"
    term,       \* the term each row begins (0: no row)
    to,         \* the machine each row names (None: no row)
    rights,     \* the app's roles may write the home's database
    access,     \* the machines' roles are let into it
    data,       \* the app's last write
    rec,        \* the supervisor's record: "none", "running", "home", "owed", "over"
    promised,   \* the switches whose record says the promotion was asked
    busy,       \* the switch that holds the home's supervisor (claim)
    home,       \* this machine is still a home
    pc,         \* where the API's run of each switch is
    sent,       \* the switches whose promotion the API asked (PromoteSent)
    cancel,     \* what an admin asked: "no", "asked", "forced"
    owed,       \* the switches whose thaw failed (ThawPending)
    copy,       \* the rows as each machine's copy has them
    copied,     \* the app's last write each copy has
    promoting,  \* the switch whose promotion runs on each machine
    claimed,    \* the switch that holds each machine's supervisor
    promoted,   \* the switches whose term a machine's database began
    newHome,    \* the switches whose machine kept its answer (new-home.json)
    offed,      \* the switches marked called off on their machine (called-off)
    ask,        \* each promotion's command: "none", "sent", "running", "home", "error"
    calls,      \* the status commands under way
    forced,     \* the switches undone without their machine's word
    left        \* what is left of the bounds

db   == <<row, term, to, rights, access, data>>
sup  == <<rec, promised, busy, home>>
api  == <<pc, sent, cancel, owed>>
node == <<copy, copied, promoting, claimed, promoted, newHome, offed>>
net  == <<ask, calls>>
vars == <<row, term, to, rights, access, data, rec, promised, busy, home, pc, sent, cancel,
          owed, copy, copied, promoting, claimed, promoted, newHome, offed, ask, calls,
          forced, left>>

-----------------------------------------------------------------------------
(* Vocabulary *)

Rows == {"none", "open", "marked", "ended"}
Records == {"none", "running", "home", "owed", "over"}
Before == {"new", "check", "freeze", "marker", "kit", "relay"}
Asked == {"record", "asking", "waiting", "asked", "looking"}
Pcs == Before \cup Asked \cup {"off", "after", "undo", "closing", "over"}
Handled == {"sent", "unpromoted", "promoted"}
Answers == {"home", "called_off", "promoting", "unknown", "none"}
Calls == [s : Switch, who : {"run", "admin", "nobody"}, at : Handled \cup Answers]
Bounds == {"crash", "lost", "fault"}

(* One of the bounded events of kind k happens. *)
Spend(k) == left[k] > 0 /\ left' = [left EXCEPT ![k] = @ - 1]

Go(s, there) == pc' = [pc EXCEPT ![s] = there]

(* A switch the home's row shows another came after. *)
Superseded(s) == \E t \in Switch : row[t] # "none" /\ term[t] > term[s]

(* A machine whose copy still follows this home. *)
Following(m) == \A t \in promoted : to[t] # m

(* The supervisor's record of s written, and not. A record that cannot be   *)
(* written is only logged.                                                  *)
Kept(s, state) ==
    /\ rec' = [rec EXCEPT ![s] = state]
    /\ promised' = IF s \in sent THEN promised \cup {s} ELSE promised \ {s}
Keep(s, state) ==
    \/ Kept(s, state) /\ UNCHANGED left
    \/ Spend("fault") /\ UNCHANGED <<rec, promised>>

(* A call nobody waits for any more goes on at the machine. *)
Adrift(c) == [c EXCEPT !.who = "nobody"]

(* A call under way moves on, or is answered: to whoever waits for it. *)
Reply(c, at) ==
    calls' = (calls \ {c})
             \cup IF c.who = "nobody" /\ at \in Answers THEN {} ELSE {[c EXCEPT !.at = at]}

-----------------------------------------------------------------------------
(* The home's API: a switch before its promotion is asked *)

(* An admin starts a switch to m: no other is under way, here or in the     *)
(* rows, m's copy follows, and the row is inserted by the app's own role.   *)
(* The new term is past every term and every switch's.                      *)
Start(s, m) ==
    /\ home /\ rights
    /\ row[s] = "none"
    /\ \A t \in Switch : pc[t] \in {"off", "over"} /\ row[t] \in {"none", "ended"}
    /\ Following(m)
    /\ \E n \in 2..(Cardinality(Switch) + 1) :
         /\ \A t \in Switch : term[t] < n
         /\ n = 2 \/ \E t \in Switch : term[t] = n - 1
         /\ term' = [term EXCEPT ![s] = n]
    /\ row' = [row EXCEPT ![s] = "open"]
    /\ to' = [to EXCEPT ![s] = m]
    /\ Go(s, "new")
    /\ UNCHANGED <<rights, access, data, sup, sent, cancel, owed, node, net, forced, left>>

(* The first record of it, the checks and the drain. What an admin asked is *)
(* looked at after each step.                                               *)
Step(s) ==
    /\ home
    /\ \/ pc[s] = "new" /\ Go(s, "check")
       \/ pc[s] = "check" /\ Go(s, "freeze")
    /\ Keep(s, "running")
    /\ UNCHANGED <<db, busy, home, sent, cancel, owed, node, net, forced>>

(* The checks fail: nothing was changed, so nothing is undone. *)
CheckFails(s) ==
    /\ home /\ pc[s] = "check" /\ Spend("fault")
    /\ Go(s, "closing")
    /\ UNCHANGED <<db, sup, sent, cancel, owed, node, net, forced>>

(* The machines kept out, then the app's rights taken and its sessions      *)
(* ended, then the marker as the last write.                                *)
Freeze(s) ==
    /\ home /\ pc[s] = "freeze" /\ cancel[s] = "no"
    /\ access' = FALSE /\ rights' = FALSE
    /\ row' = [row EXCEPT ![s] = "marked"]
    /\ Go(s, "marker")
    /\ Keep(s, "running")
    /\ UNCHANGED <<term, to, data, busy, home, sent, cancel, owed, node, net, forced>>

(* A freeze that fails has gone any part of the way. *)
FreezeFails(s) ==
    /\ home /\ pc[s] = "freeze" /\ cancel[s] = "no" /\ Spend("fault")
    /\ \/ UNCHANGED <<access, rights, row>>
       \/ access' = FALSE /\ UNCHANGED <<rights, row>>
       \/ access' = FALSE /\ rights' = FALSE /\ UNCHANGED row
       \/ access' = FALSE /\ rights' = FALSE /\ row' = [row EXCEPT ![s] = "marked"]
    /\ Go(s, "undo")
    /\ UNCHANGED <<term, to, data, sup, sent, cancel, owed, node, net, forced>>

(* MUTANT: the machine taking over is not asked. *)
MarkerUnread(s) ==
    /\ home /\ pc[s] = "marker" /\ cancel[s] = "no"
    /\ Go(s, "kit")
    /\ Keep(s, "running")
    /\ UNCHANGED <<db, busy, home, sent, cancel, owed, node, net, forced>>

(* The machine taking over says its copy has the marker. *)
Marker(s) ==
    /\ home /\ pc[s] = "marker" /\ cancel[s] = "no"
    /\ copy[to[s]][s] \in {"marked", "ended"}
    /\ Go(s, "kit")
    /\ Keep(s, "running")
    /\ UNCHANGED <<db, busy, home, sent, cancel, owed, node, net, forced>>

(* It did not have it within the minute. *)
MarkerMissing(s) ==
    /\ home /\ pc[s] = "marker" /\ cancel[s] = "no"
    /\ copy[to[s]][s] \notin {"marked", "ended"}
    /\ Go(s, "undo")
    /\ UNCHANGED <<db, sup, sent, cancel, owed, node, net, forced, left>>

(* The kit is made by the supervisor, which this switch claims, and sent. *)
Kit(s) ==
    /\ home /\ pc[s] = "kit" /\ cancel[s] = "no"
    /\ busy \in {None, s}
    /\ busy' = s
    /\ Go(s, "relay")
    /\ Keep(s, "running")
    /\ UNCHANGED <<db, home, sent, cancel, owed, node, net, forced>>

(* Another switch holds the supervisor: the kit is refused. *)
KitRefused(s) ==
    /\ home /\ pc[s] = "kit" /\ cancel[s] = "no"
    /\ busy \notin {None, s}
    /\ Go(s, "undo")
    /\ UNCHANGED <<db, sup, sent, cancel, owed, node, net, forced, left>>

(* The drain, the marker, the kit or the relay's stop fails. *)
StepFails(s) ==
    /\ home /\ pc[s] \in {"check", "marker", "kit", "relay"}
    /\ pc[s] # "check" => cancel[s] = "no"
    /\ Spend("fault")
    /\ busy' \in IF pc[s] = "kit" /\ busy = None THEN {None, s} ELSE {busy}
    /\ Go(s, "undo")
    /\ UNCHANGED <<db, rec, promised, home, sent, cancel, owed, node, net, forced>>

(* An admin called it off: seen between two steps, and under the lock       *)
(* PromoteSent is set under.                                                *)
Stopped(s) ==
    /\ home /\ pc[s] \in Before \ {"new", "check"} /\ cancel[s] # "no"
    /\ Go(s, "undo")
    /\ UNCHANGED <<db, sup, sent, cancel, owed, node, net, forced, left>>

-----------------------------------------------------------------------------
(* The home's API: the promotion asked *)

(* The relay agent stopped; PromoteSent in memory, unless an admin came first. *)
Promise(s) ==
    /\ home /\ pc[s] = "relay" /\ cancel[s] = "no"
    /\ sent' = sent \cup {s}
    /\ Go(s, "record")
    /\ UNCHANGED <<db, sup, cancel, owed, node, net, forced, left>>

(* The record is on disk before the promotion leaves. *)
RecordPromise(s) ==
    /\ home /\ pc[s] = "record"
    /\ Kept(s, "running")
    /\ ask' = [ask EXCEPT ![s] = "sent"]
    /\ Go(s, "asking")
    /\ UNCHANGED <<sent, db, busy, home, cancel, owed, node, calls, forced, left>>

(* The record failed (it may be on disk all the same): the promotion is not asked. *)
RecordFails(s) ==
    /\ home /\ pc[s] = "record" /\ Spend("fault")
    /\ promised' \in {promised, promised \cup {s}}
    /\ sent' = sent \ {s}
    /\ Go(s, "undo")
    /\ UNCHANGED <<db, rec, busy, home, cancel, owed, node, net, forced>>

(* The promotion's answer. *)
Answered(s) ==
    /\ home /\ pc[s] = "asking"
    /\ \/ /\ ask[s] = "home"
          /\ Go(s, "after")
          /\ Keep(s, "home")
       \/ /\ ask[s] = "error"
          /\ Go(s, "waiting")
          /\ Keep(s, "running")
    /\ UNCHANGED <<sent, db, busy, home, cancel, owed, node, net, forced>>

(* Its answer did not come, or an admin ended the wait for it. *)
GivesUp(s) ==
    /\ home /\ pc[s] = "asking"
    /\ \/ Spend("lost")
       \/ cancel[s] # "no" /\ UNCHANGED left
    /\ Go(s, "waiting")
    /\ UNCHANGED <<db, sup, sent, cancel, owed, node, net, forced>>

(* waitNewHome: the machine is asked where the switch is, and to call it off. *)
Ask(s) ==
    /\ home /\ pc[s] = "waiting"
    /\ calls' = calls \cup {[s |-> s, who |-> "run", at |-> "sent"]}
    /\ Go(s, "asked")
    /\ UNCHANGED <<db, sup, sent, cancel, owed, node, ask, forced, left>>

(* ... it is the home, or it called the switch off, or neither is known. *)
Told(s, c) ==
    /\ home /\ pc[s] = "asked"
    /\ c.s = s /\ c.who = "run" /\ c.at \in Answers
    /\ calls' = calls \ {c}
    /\ \/ c.at = "home" /\ Go(s, "after") /\ Keep(s, "home")
       \/ /\ c.at = "called_off" /\ Go(s, "undo")
          /\ UNCHANGED <<rec, promised, left>>
       \/ /\ c.at \notin {"home", "called_off"} /\ Go(s, "looking")
          /\ UNCHANGED <<rec, promised, left>>
    /\ UNCHANGED <<sent, db, busy, home, cancel, owed, node, ask, forced>>

(* ... the notice the new home sealed to this one is looked for; without it *)
(* an admin's forced call undoes the switch, or the machine is asked again. *)
Look(s) ==
    /\ home /\ pc[s] = "looking"
    /\ \/ /\ s \in newHome
          /\ Go(s, "after") /\ Keep(s, "home")
          /\ UNCHANGED forced
       \/ /\ s \in newHome => Spend("lost")
          /\ s \notin newHome => UNCHANGED left
          /\ IF cancel[s] = "forced"
             THEN Go(s, "undo") /\ forced' = forced \cup {s}
             ELSE Go(s, "waiting") /\ UNCHANGED forced
          /\ UNCHANGED <<rec, promised>>
    /\ UNCHANGED <<sent, db, busy, home, cancel, owed, node, net>>

(* afterPromote: the machines told, then this home's demotion, asked again  *)
(* until it went through: from then it is one of the new home's machines.   *)
Demote(s) ==
    /\ home /\ pc[s] = "after"
    /\ busy \in {None, s} /\ busy' = s
    /\ s \in newHome
    /\ home' = FALSE
    /\ rec' = [rec EXCEPT ![s] = "over"]
    /\ Go(s, "over")
    /\ UNCHANGED <<db, promised, sent, cancel, owed, node, net, forced, left>>

-----------------------------------------------------------------------------
(* The home's API: a switch that does not go through *)

(* MUTANT: a thaw whoever came after. *)
ThawAny(s) ==
    /\ rights' = TRUE /\ access' = TRUE
    /\ busy' = IF busy = s THEN None ELSE busy

(* The supervisor's thaw for s. One another switch came after changes       *)
(* nothing: the freeze is the later switch's.                               *)
Thaw(s) ==
    IF Superseded(s)
    THEN UNCHANGED <<rights, access, busy>>
    ELSE /\ rights' = TRUE /\ access' = TRUE
         /\ busy' = IF busy = s THEN None ELSE busy

(* A thaw that fails: before anything, or with the app's rights given back. *)
ThawFails(s) ==
    /\ Spend("fault")
    /\ IF Superseded(s) THEN UNCHANGED rights ELSE rights' \in {rights, TRUE}
    /\ UNCHANGED <<access, busy>>

(* undo: this home writable again (asked again when that failed), and the   *)
(* machine told to call the switch off too.                                 *)
Undo(s) ==
    /\ home /\ pc[s] = "undo"
    /\ \/ Thaw(s) /\ Keep(s, "running") /\ UNCHANGED owed
       \/ ThawFails(s) /\ Kept(s, "running") /\ owed' = owed \cup {s}
    /\ calls' = calls \cup {[s |-> s, who |-> "nobody", at |-> "sent"]}
    /\ Go(s, "closing")
    /\ UNCHANGED <<sent, row, term, to, data, home, cancel, node, ask, forced>>

(* The row's end: written by the app's own role, so not while it has no rights. *)
Ended(s) == row' = IF rights THEN [row EXCEPT ![s] = "ended"] ELSE row

(* The switch is failed or cancelled: kept, then shown. What an admin asked *)
(* is read no more.                                                         *)
Close(s) ==
    /\ home /\ pc[s] = "closing"
    /\ \/ /\ Keep(s, IF s \in owed THEN "owed" ELSE "over")
          /\ Ended(s)
       \/ /\ Spend("fault") /\ UNCHANGED row
          /\ Kept(s, IF s \in owed THEN "owed" ELSE "over")
    /\ Go(s, "over") /\ cancel' = [cancel EXCEPT ![s] = "no"]
    /\ UNCHANGED <<sent, term, to, rights, access, data, busy, home, owed, node, net, forced>>

(* retryThaw: the thaw asked again until it goes through. *)
RetryThaw(s) ==
    /\ home /\ s \in owed
    /\ Thaw(s)
    /\ owed' = owed \ {s}
    /\ Keep(s, IF pc[s] = "over" THEN "over" ELSE "running")
    /\ row' = IF pc[s] = "over" /\ rights' THEN [row EXCEPT ![s] = "ended"] ELSE row
    /\ UNCHANGED <<sent, term, to, data, home, pc, cancel, node, net, forced>>

(* After a forced call the machine goes on being asked. *)
FollowUp(s) ==
    /\ home /\ s \in forced /\ pc[s] = "over"
    /\ calls' = calls \cup {[s |-> s, who |-> "nobody", at |-> "sent"]}
    /\ UNCHANGED <<db, sup, api, node, ask, forced, left>>

-----------------------------------------------------------------------------
(* An admin, the app, the supervisor's watch, restarts *)

(* Cancel before the promotion is asked. *)
Cancel(s) ==
    /\ home /\ pc[s] \in Before /\ cancel[s] = "no"
    /\ cancel' = [cancel EXCEPT ![s] = "asked"]
    /\ UNCHANGED <<db, sup, pc, sent, owed, node, net, forced, left>>

(* Cancel after it: the machine is asked. *)
CancelAsks(s) ==
    /\ home /\ pc[s] \in Asked
    /\ ~ \E c \in calls : c.s = s /\ c.who = "admin"
    /\ calls' = calls \cup {[s |-> s, who |-> "admin", at |-> "sent"]}
    /\ UNCHANGED <<db, sup, api, node, ask, forced, left>>

(* ... called off there, going on, or not answered and forced (or not). *)
CancelTold(c) ==
    /\ home /\ c.who = "admin" /\ c.at \in Answers
    /\ calls' = calls \ {c}
    /\ cancel' \in
         CASE pc[c.s] \notin Asked -> {cancel}
           [] c.at = "called_off" ->
                {[cancel EXCEPT ![c.s] = IF @ = "forced" THEN @ ELSE "asked"]}
           [] c.at \in {"unknown", "none"} -> {cancel, [cancel EXCEPT ![c.s] = "forced"]}
           [] OTHER -> {cancel}
    /\ UNCHANGED <<db, sup, pc, sent, owed, node, ask, forced, left>>

(* The app writes. *)
Write ==
    /\ home /\ rights /\ data < MaxWrites
    /\ data' = data + 1
    /\ UNCHANGED <<row, term, to, rights, access, sup, api, node, net, forced, left>>

(* MUTANT: only a frozen home gives way. *)
StepDownFrozen(s) ==
    /\ home /\ ~ rights /\ s \in promised /\ s \in newHome
    /\ busy \in {None, s} /\ busy' = s
    /\ rights' = FALSE /\ access' = FALSE
    /\ home' = FALSE
    /\ UNCHANGED <<row, term, to, data, rec, promised, api, node, net, forced, left>>

(* checkTerm: a notice of a newer term sealed to this home, under the       *)
(* identity a switch whose promotion was asked gave it: it gives way.       *)
StepDown(s) ==
    /\ home /\ s \in promised /\ s \in newHome
    /\ busy \in {None, s} /\ busy' = s
    /\ rights' = FALSE /\ access' = FALSE
    /\ home' = FALSE
    /\ UNCHANGED <<row, term, to, data, rec, promised, api, node, net, forced, left>>

(* MUTANT: a start takes up nothing whose promotion was asked. *)
ResumedUnasked(s) ==
    CASE rec[s] = "owed" -> "over"
      [] rec[s] = "running" /\ s \notin promised -> "undo"
      [] OTHER -> "off"

(* What a start of the API makes of a record (recorded, Resume, resume). *)
Resumed(s) ==
    CASE rec[s] = "owed" -> "over"
      [] rec[s] = "home" -> "after"
      [] rec[s] = "running" -> IF s \in promised THEN "waiting" ELSE "undo"
      [] OTHER -> "off"

(* The API starts again, with its supervisor or alone: its memory is gone,  *)
(* and the switches the supervisor recorded are taken up.                   *)
HomeRestarts ==
    /\ home /\ Spend("crash")
    /\ pc' = [s \in Switch |-> Resumed(s)]
    /\ sent' = {s \in promised : rec[s] \in {"running", "home", "owed"}}
    /\ owed' = {s \in Switch : rec[s] = "owed"}
    /\ cancel' = [s \in Switch |-> "no"]
    /\ calls' = {Adrift(c) : c \in {d \in calls : d.at \in Handled}}
    /\ busy' \in {None, busy}
    /\ UNCHANGED <<db, rec, promised, home, node, ask, forced>>

-----------------------------------------------------------------------------
(* The machine taking over *)

(* Its copy receives what the home wrote. *)
Replicate(m) ==
    /\ home /\ Following(m)
    /\ <<copy[m], copied[m]>> # <<row, data>>
    /\ copy' = [copy EXCEPT ![m] = row]
    /\ copied' = [copied EXCEPT ![m] = data]
    /\ UNCHANGED <<db, sup, api, promoting, claimed, promoted, newHome, offed, net, forced, left>>

(* switch.promote arrives: answered again, refused, or begun. *)
TakePromote(s) ==
    LET m == to[s] IN
    /\ ask[s] = "sent"
    /\ \/ /\ s \in newHome
          /\ ask' = [ask EXCEPT ![s] = "home"] /\ UNCHANGED <<promoting, claimed>>
       \/ /\ s \notin newHome /\ claimed[m] \notin {None, s}
          /\ ask' = [ask EXCEPT ![s] = "error"] /\ UNCHANGED <<promoting, claimed>>
       \/ /\ s \notin newHome /\ claimed[m] \in {None, s} /\ s \in offed
          /\ claimed' = [claimed EXCEPT ![m] = s]
          /\ ask' = [ask EXCEPT ![s] = "error"] /\ UNCHANGED promoting
       \/ /\ s \notin newHome /\ claimed[m] \in {None, s} /\ s \notin offed
          /\ claimed' = [claimed EXCEPT ![m] = s]
          /\ promoting' = [promoting EXCEPT ![m] = s]
          /\ ask' = [ask EXCEPT ![s] = "running"]
    /\ UNCHANGED <<db, sup, api, copy, copied, promoted, newHome, offed, calls, forced, left>>

(* The promotion fails (the kit, the database, the row called off): marked  *)
(* called off before it is answered. The commit may have gone through all   *)
(* the same, its answer lost.                                               *)
PromoteFails(m) ==
    LET s == promoting[m] IN
    /\ s # None /\ ask[s] = "running" /\ s \notin promoted
    /\ \/ copy[m][s] = "ended" /\ UNCHANGED <<promoted, left>>
       \/ Spend("fault") /\ UNCHANGED promoted
       \/ Spend("fault") /\ copy[m][s] # "ended" /\ promoted' = promoted \cup {s}
    /\ offed' = offed \cup {s}
    /\ claimed' = [claimed EXCEPT ![m] = None]
    /\ promoting' = [promoting EXCEPT ![m] = None]
    /\ ask' = [ask EXCEPT ![s] = "error"]
    /\ UNCHANGED <<db, sup, api, copy, copied, newHome, calls, forced>>

(* The promotion's transaction: the copy ends, the term begins. *)
PromoteCommits(m) ==
    LET s == promoting[m] IN
    /\ s # None /\ ask[s] = "running" /\ s \notin promoted
    /\ copy[m][s] # "ended"
    /\ promoted' = promoted \cup {s}
    /\ UNCHANGED <<db, sup, api, copy, copied, promoting, claimed, newHome, offed, net, forced, left>>

(* MUTANT: the answer kept before the commit. *)
AnswersFirst(m) ==
    LET s == promoting[m] IN
    /\ s # None /\ ask[s] = "running"
    /\ promoting' = [promoting EXCEPT ![m] = None]
    /\ newHome' = newHome \cup {s}
    /\ ask' = [ask EXCEPT ![s] = "home"]
    /\ UNCHANGED <<db, sup, api, copy, copied, claimed, promoted, offed, calls, forced, left>>

(* becomeHome: its last steps, its answer kept; one that fails marks nothing. *)
BecomesHome(m) ==
    LET s == promoting[m] IN
    /\ s # None /\ ask[s] = "running" /\ s \in promoted
    /\ promoting' = [promoting EXCEPT ![m] = None]
    /\ \/ /\ newHome' = newHome \cup {s}
          /\ ask' = [ask EXCEPT ![s] = "home"] /\ UNCHANGED left
       \/ /\ Spend("fault") /\ UNCHANGED newHome
          /\ ask' = [ask EXCEPT ![s] = "error"]
    /\ UNCHANGED <<db, sup, api, copy, copied, claimed, promoted, offed, calls, forced>>

(* switch.status arrives: the answer kept, or what the database says, read  *)
(* before the lock is taken; one that does not answer says nothing.         *)
ReadStatus(c) ==
    /\ c.at = "sent"
    /\ \E at \in {"home", "unknown", "promoted", "unpromoted"} :
         /\ (at = "home") <=> (c.s \in newHome)
         /\ at = "promoted" => c.s \in promoted
         /\ at = "unpromoted" => c.s \notin promoted
         /\ IF at = "unknown" THEN Spend("fault") ELSE UNCHANGED left
         /\ Reply(c, at)
    /\ UNCHANGED <<db, sup, api, node, ask, forced>>

(* A promoted database: the promotion runs, or its last steps run again     *)
(* (finishPromotion), never on a switch marked called off.                  *)
FinishStatus(c) ==
    LET m == to[c.s] IN
    /\ c.at = "promoted"
    /\ \/ /\ promoting[m] = c.s /\ Reply(c, "promoting")
          /\ UNCHANGED <<claimed, newHome, left>>
       \/ /\ promoting[m] # c.s
          /\ c.s \in offed \/ claimed[m] \notin {None, c.s}
          /\ Reply(c, "unknown") /\ UNCHANGED <<claimed, newHome, left>>
       \/ /\ promoting[m] # c.s
          /\ c.s \notin offed /\ claimed[m] \in {None, c.s}
          /\ claimed' = [claimed EXCEPT ![m] = c.s]
          /\ \/ newHome' = newHome \cup {c.s} /\ Reply(c, "home") /\ UNCHANGED left
             \/ Spend("fault") /\ Reply(c, "unknown") /\ UNCHANGED newHome
    /\ UNCHANGED <<db, sup, api, copy, copied, promoting, promoted, offed, ask, forced>>

(* A database not promoted when it was read: under the lock, the promotion  *)
(* runs, or the switch is marked called off here, and answered so.          *)
AbortStatus(c) ==
    LET m == to[c.s] IN
    /\ c.at = "unpromoted"
    /\ \/ /\ promoting[m] = c.s /\ Reply(c, "promoting")
          /\ UNCHANGED <<claimed, offed>>
       \/ /\ promoting[m] # c.s /\ Reply(c, "called_off")
          /\ offed' = offed \cup {c.s}
          /\ claimed' = IF c.s \notin offed /\ claimed[m] = c.s
                        THEN [claimed EXCEPT ![m] = None] ELSE claimed
    /\ UNCHANGED <<db, sup, api, copy, copied, promoting, promoted, newHome, ask, forced, left>>

(* The machine's supervisor starts again: what it ran is gone. *)
MachineRestarts(m) ==
    /\ Spend("crash")
    /\ promoting' = [promoting EXCEPT ![m] = None]
    /\ claimed' = [claimed EXCEPT ![m] = None]
    /\ ask' = [s \in Switch |->
                 IF to[s] = m /\ ask[s] \in {"sent", "running"} THEN "error" ELSE ask[s]]
    /\ LET here == {c \in calls : to[c.s] = m /\ c.at \in Handled} IN
       calls' = (calls \ here)
                \cup {[c EXCEPT !.at = "none"] : c \in {d \in here : d.who # "nobody"}}
    /\ UNCHANGED <<db, sup, api, copy, copied, promoted, newHome, offed, forced>>

-----------------------------------------------------------------------------
(* The channel *)

(* A promotion's command that does not arrive. *)
AskLost(s) ==
    /\ ask[s] = "sent" /\ Spend("lost")
    /\ ask' = [ask EXCEPT ![s] = "error"]
    /\ UNCHANGED <<db, sup, api, node, calls, forced>>

(* A status command that does not arrive, or is answered too late. *)
Unanswered(c) ==
    /\ c.at \in Handled /\ Spend("lost")
    /\ \/ Reply(c, "none")
       \/ /\ c.who # "nobody"
          /\ calls' = (calls \ {c}) \cup {Adrift(c), [c EXCEPT !.at = "none"]}
    /\ UNCHANGED <<db, sup, api, node, ask, forced>>

-----------------------------------------------------------------------------

Init ==
    /\ row = [s \in Switch |-> "none"]
    /\ term = [s \in Switch |-> 0]
    /\ to = [s \in Switch |-> None]
    /\ rights = TRUE /\ access = TRUE /\ data = 0
    /\ rec = [s \in Switch |-> "none"]
    /\ promised = {} /\ busy = None /\ home = TRUE
    /\ pc = [s \in Switch |-> "off"]
    /\ sent = {} /\ owed = {}
    /\ cancel = [s \in Switch |-> "no"]
    /\ copy = [m \in Machine |-> row]
    /\ copied = [m \in Machine |-> 0]
    /\ promoting = [m \in Machine |-> None]
    /\ claimed = [m \in Machine |-> None]
    /\ promoted = {} /\ newHome = {} /\ offed = {}
    /\ ask = [s \in Switch |-> "none"]
    /\ calls = {} /\ forced = {}
    /\ left = [crash |-> MaxCrashes, lost |-> MaxLost, fault |-> MaxFaults]

Running(s) ==
    \/ Step(s) \/ CheckFails(s) \/ Freeze(s) \/ FreezeFails(s) \/ Marker(s) \/ MarkerMissing(s)
    \/ Kit(s) \/ KitRefused(s) \/ StepFails(s) \/ Stopped(s)
    \/ Promise(s) \/ RecordPromise(s) \/ RecordFails(s) \/ Answered(s) \/ GivesUp(s)
    \/ Ask(s) \/ Look(s) \/ Demote(s) \/ Undo(s) \/ Close(s)
    \/ \E c \in calls : Told(s, c)

Next ==
    \/ \E s \in Switch, m \in Machine : Start(s, m)
    \/ \E s \in Switch :
         \/ Running(s) \/ RetryThaw(s) \/ FollowUp(s)
         \/ Cancel(s) \/ CancelAsks(s) \/ StepDown(s) \/ TakePromote(s) \/ AskLost(s)
    \/ \E m \in Machine :
         Replicate(m) \/ PromoteFails(m) \/ PromoteCommits(m) \/ BecomesHome(m) \/ MachineRestarts(m)
    \/ \E c \in calls :
         \/ CancelTold(c) \/ ReadStatus(c) \/ FinishStatus(c) \/ AbortStatus(c)
         \/ Unanswered(c)
    \/ Write \/ HomeRestarts

Spec == Init /\ [][Next]_vars

-----------------------------------------------------------------------------
(* What the orchestrator, its supervisor and the machine promise together *)

\* Every variable keeps its type; a row, its term and its machine come together;
\* an answer is kept only of a term that began, and both only of a promotion asked.
TypeOK ==
    /\ row \in [Switch -> Rows] /\ term \in [Switch -> Nat] /\ to \in [Switch -> Machine \cup {None}]
    /\ {rights, access, home} \subseteq BOOLEAN /\ data \in Nat
    /\ rec \in [Switch -> Records] /\ promised \subseteq Switch /\ busy \in Switch \cup {None}
    /\ pc \in [Switch -> Pcs] /\ sent \subseteq Switch /\ owed \subseteq Switch
    /\ cancel \in [Switch -> {"no", "asked", "forced"}]
    /\ copy \in [Machine -> [Switch -> Rows]] /\ copied \in [Machine -> Nat]
    /\ promoting \in [Machine -> Switch \cup {None}] /\ claimed \in [Machine -> Switch \cup {None}]
    /\ ask \in [Switch -> {"none", "sent", "running", "home", "error"}] /\ calls \subseteq Calls
    /\ offed \subseteq Switch /\ forced \subseteq Switch
    /\ left \in [Bounds -> Nat]
    /\ \A s \in Switch : row[s] = "none" => term[s] = 0 /\ to[s] = None
    /\ newHome \subseteq promoted
    /\ \A s \in promoted : s \in Switch /\ ask[s] # "none"

\* A home that asked a machine to take over stays frozen, against its app and against
\* the machines' roles, until that machine marked the switch called off, an admin
\* forced it, or it gave way: whatever restarts, is lost, is retried or is answered for
\* another switch (resume, undo, retryThaw, ThawUnlessSuperseded).
FrozenInDoubt ==
    \A s \in Switch :
        home /\ ask[s] # "none" /\ s \notin offed \cup forced => ~ rights /\ ~ access

\* A machine whose term began holds the last write of the home it took over from: the
\* marker is the last write, and nothing is written from it until the switch is settled
\* (Freeze, waitMarker, promote).
NothingLost ==
    \A s \in promoted \ (offed \cup forced) : copied[to[s]] = data

\* status, serve_switchover.go: "called_off" says that the switch did not go through
\* "and never will"; the home thaws on it.
CalledOffIsFinal == offed \cap newHome = {}

-----------------------------------------------------------------------------
(* Fairness: the goroutine of a run goes on (its waits end by their own     *)
(* time-outs), retryThaw and the supervisor's watch of the term run on      *)
(* tickers, the channel delivers, and a handler that began ends. Nothing is *)
(* asked of the admin, of the copy, or of what restarts or is lost.         *)

Serves(m) == PromoteFails(m) \/ PromoteCommits(m) \/ BecomesHome(m)
Status(c) == c \in calls /\ (ReadStatus(c) \/ FinishStatus(c) \/ AbortStatus(c))

Fairness ==
    /\ \A s \in Switch :
         /\ WF_vars(Running(s)) /\ WF_vars(RetryThaw(s))
         /\ WF_vars(StepDown(s)) /\ WF_vars(TakePromote(s))
    /\ \A m \in Machine : WF_vars(Serves(m))
    /\ \A c \in Calls : WF_vars(Status(c))

FairSpec == Spec /\ Fairness

\* A frozen home is writable again or gives way: no restart, lost command, failed thaw
\* or call-off in between leaves it frozen. The exception is the promotion whose commit
\* went through though its answer said that it failed: the machine says neither, and
\* only an admin's forced call ends it (resume, waitNewHome, undo, retryThaw).
WritableAgain ==
    home /\ ~ rights ~> rights \/ ~ home \/ promoted \cap offed # {}

\* Once a machine kept its answer as the new home, the old home gives way: through the
\* answer, through its own question or through the notice (afterPromote, checkTerm),
\* even when an admin forced the switch to be undone.
OneHomeInTheEnd == \A s \in Switch : s \in newHome ~> ~ home
=============================================================================
