---------------------------- MODULE RouterChanges ----------------------------
(***************************************************************************)
(* Network changes on a live router (src/src/lib/router-changes.js, with   *)
(* the owner's actions in tenant.js and the tools of router-tools.js).     *)
(* The owner applies a saved map: a batch of changes, sent one by one in   *)
(* poll replies.  The router checks first, stores an undo and a boot       *)
(* guard, applies, asks the cloud to confirm, and puts the change back     *)
(* when it fails, restarts or loses the cloud.  Answers can be lost.       *)
(***************************************************************************)
EXTENDS Integers, Sequences, FiniteSets

CONSTANTS
    Specs,       \* changes a map may ask for: [kind, job]
    Tools,       \* what the owner may ask the router for: "reboot", "other"
    MaxChanges,  \* bound: rows of tenant_router_changes
    MaxLosses,   \* bound: replies and answers lost
    MaxReboots,  \* bound: restarts of the router, from the owner's tool or not
    Stubborn     \* pieces the router may refuse to remove

VARIABLES
    row,       \* tenant_router_changes by id
    planSaved, \* a map is saved (tenant_router_plans)
    age,       \* age of the row in flight: 0 young, 1 past 8, 2 past 10, 3 past 24 minutes
    seen,      \* what the layout reports since the row last changed say of it
    tool,      \* the open row of tenant_router_tools, by status and tool
    pieces,    \* on the router: what of each change is there
    undo,      \* on the router: fiti-undo-<id> scripts
    guard,     \* on the router: fiti-revert-<id> schedulers
    rebooter,  \* on the router: fiti-reboot-<id> scripts, what those schedulers run
    run,       \* on the router: the scripts at work, each with how far it is
    boot,      \* on the router: guards that run after a restart
    spent      \* losses and restarts so far

cloudVars == <<row, planSaved, age, seen, tool>>
deviceVars == <<pieces, undo, guard, rebooter, run, boot>>
vars == <<cloudVars, deviceVars, spent>>

Ids == 1..MaxChanges
Used == DOMAIN row
Active == {"queued", "sent", "confirming", "undo-queued", "undo-sent"}
Live == {"applied", "verified", "mismatch"}
Statuses == Active \cup Live \cup
    {"failed", "reverted", "cancelled", "no-answer", "undone", "undo-no-answer"}
ChangeKinds == {"bridge", "vlan", "existing", "adopt", "wifi", "rename"}
Jobs == {"hotspot", "pppoe", "wifi", "adopt"}
\* "from" is the change whose bridge loses a port or its name to this one.
Change == [kind: ChangeKinds, job: Jobs, from: 0..MaxChanges, batch: Nat,
           status: Statuses, reason: {"none", "undo_incomplete", "other"}]

ASSUME ChangesAssumption ==
    /\ Specs \subseteq [kind: ChangeKinds \ {"rename"}, job: Jobs]
    /\ Tools \subseteq {"reboot", "other"}
    /\ {MaxChanges, MaxLosses, MaxReboots} \subseteq Nat

----------------------------------------------------------------------------
(* What a change puts on the router, in order, and what its undo checks    *)

HotspotBody == <<"rules", "address", "hotspot", "map">>
AdoptBody == <<"backup", "map">>
RadioBody == <<"radio">>
Body(c) ==
    CASE c.kind = "rename" -> <<"name">>
      [] c.kind = "adopt" -> AdoptBody
      [] OTHER ->
          (IF c.kind \in {"bridge", "vlan"} THEN <<"interface">> ELSE <<>>)
          \o (IF c.job = "hotspot" THEN HotspotBody ELSE <<>>)
          \o (IF c.kind = "wifi" THEN RadioBody ELSE <<>>)
          \o (IF c.job = "pppoe" THEN <<"server">> ELSE <<>>)
Whole(c) == {Body(c)[i] : i \in DOMAIN Body(c)}
\* An undo that finds one of these left over stops and keeps itself; other
\* leftovers (a firewall rule, the server's interface) pass unnoticed.
Checked == {"interface", "address", "hotspot", "radio", "name", "backup"}
\* matchesLayout: the report shows interfaces, members and hotspots.
Shown(c) == Whole(c) \cap {"interface", "hotspot", "radio", "name"}
Matches(id) == Shown(row[id]) \subseteq pieces[id]

Stages == {"start", "guarded", "asking", "confirmed", "failing", "undoing"}
InFlight == {id \in Used : row[id].status \in {"sent", "confirming", "undo-sent"}}
HasActive == \E id \in Used : row[id].status \in Active

----------------------------------------------------------------------------
(* The owner                                                               *)

NewRow(spec, from, batch) ==
    [kind |-> spec.kind, job |-> spec.job, from |-> from, batch |-> batch,
     status |-> "queued", reason |-> "none"]
Fresh == \A id \in Used : row[id].status \in Live => seen[id] # "nothing"
NoTool == [name |-> "none", status |-> "none"]
RestartPending == tool.name = "reboot"

SavePlan ==
    /\ ~planSaved /\ Len(row) < MaxChanges
    /\ planSaved' = TRUE
    /\ UNCHANGED <<row, age, seen, tool, deviceVars, spent>>

\* applyRouterPlan: the changes the review of the map finds, PPPoE last.
BridgeOn(id) == row[id].kind = "bridge" /\ row[id].status \in Live
ApplyPlan(specs, from) ==
    /\ planSaved /\ Fresh /\ ~HasActive /\ ~RestartPending
    /\ specs # <<>> /\ Len(row) + Len(specs) <= MaxChanges
    /\ \A i, j \in DOMAIN specs : i < j => ~(specs[i].job = "pppoe" /\ specs[j].job # "pppoe")
    /\ from # 0 => from \in Used /\ BridgeOn(from) /\ Matches(from) /\ specs[1].kind = "bridge"
    /\ row' = row \o [i \in DOMAIN specs |-> NewRow(specs[i], IF i = 1 THEN from ELSE 0, Len(row) + 1)]
    /\ UNCHANGED <<planSaved, age, seen, tool, deviceVars, spent>>

QueueRename(id) ==
    /\ id \in Used /\ BridgeOn(id) /\ Fresh /\ ~HasActive /\ Len(row) < MaxChanges /\ Matches(id)
    /\ row' = Append(row, NewRow([kind |-> "rename", job |-> row[id].job], id, Len(row) + 1))
    /\ UNCHANGED <<planSaved, age, seen, tool, deviceVars, spent>>

\* queueUndo: only what the cloud counts as being on the router, the newest
\* first among those that share a service or took something from each other.
MayUndo(id) == row[id].status \in Live \/ row[id].reason = "undo_incomplete"
InTheWay(id, other) ==
    /\ other > id /\ row[other].status \in Live
    /\ \/ row[other].job = row[id].job /\ row[other].kind # "rename"
       \/ row[other].from = id
       \/ row[other].kind = "wifi" /\ row[id].kind \in {"bridge", "adopt"} /\ row[id].job # "pppoe"
QueueUndo(id) ==
    /\ id \in Used /\ MayUndo(id) /\ ~HasActive
    /\ ~\E other \in Used : InTheWay(id, other)
    /\ row' = [row EXCEPT ![id].status = "undo-queued", ![id].reason = "none"]
    /\ seen' = [seen EXCEPT ![id] = "nothing"]
    /\ UNCHANGED <<planSaved, age, tool, deviceVars, spent>>

\* queueTool: one at a time, and no restart while a change is on its way.
QueueTool(name) ==
    /\ tool = NoTool
    /\ name = "reboot" => ~HasActive
    /\ tool' = [name |-> name, status |-> "queued"]
    /\ UNCHANGED <<row, planSaved, age, seen, deviceVars, spent>>
\* settleStale: not collected in 10 minutes, or not answered in 3.
ToolExpires ==
    /\ tool # NoTool
    /\ tool' = NoTool
    /\ UNCHANGED <<row, planSaved, age, seen, deviceVars, spent>>

----------------------------------------------------------------------------
(* The cloud                                                               *)

\* setStatus, and what else of the batch is called off with it.
Settled(id, status, reason) ==
    [row EXCEPT ![id].status = status, ![id].reason = reason]
CalledOff(id, status, reason) ==
    [i \in Used |->
        IF i # id /\ row[i].batch = row[id].batch /\ row[i].status = "queued"
        THEN [row[i] EXCEPT !.status = "cancelled", !.reason = "other"]
        ELSE Settled(id, status, reason)[i]]
Stamp(id) == seen' = [seen EXCEPT ![id] = "nothing"] /\ age' = 0

\* Time passes for the row in flight, whatever the router is doing: a script may
\* be slow, and a confirm loop of 26 tries, each with two fetches that may time
\* out, outlasts the 8 minutes that SENT_TIMEOUT_MS gives it.
TimePasses ==
    /\ InFlight # {} /\ age < 3
    /\ age' = age + 1
    /\ UNCHANGED <<row, planSaved, seen, tool, deviceVars, spent>>

\* Mutant of SettleSilent: a change whose outcome no layout shows is waited for.
SettleSilentBySight(id) ==
    /\ id \in InFlight /\ age >= 1
    /\ \/ /\ row[id].status # "confirming"
          /\ row' = IF row[id].status = "undo-sent" THEN Settled(id, "undo-no-answer", "other")
                    ELSE CalledOff(id, "no-answer", "other")
       \/ /\ row[id].status = "confirming" /\ age >= 2 /\ seen[id] # "nothing"
          /\ row' = IF seen[id] = "match" THEN Settled(id, "verified", "none")
                    ELSE CalledOff(id, "reverted", "other")
    /\ Stamp(id)
    /\ UNCHANGED <<planSaved, tool, deviceVars, spent>>
\* nextScript on a row in flight that has been silent for too long.
SettleSilent(id) ==
    /\ id \in InFlight /\ age >= 1
    /\ \/ /\ row[id].status # "confirming"
          /\ row' = IF row[id].status = "undo-sent" THEN Settled(id, "undo-no-answer", "other")
                    ELSE CalledOff(id, "no-answer", "other")
       \/ /\ row[id].status = "confirming" /\ age >= 2 /\ seen[id] # "nothing"
          /\ row' = IF seen[id] = "match" THEN Settled(id, "verified", "none")
                    ELSE CalledOff(id, "reverted", "other")
       \/ /\ row[id].status = "confirming" /\ age = 3 /\ seen[id] = "nothing"
          /\ row' = CalledOff(id, "no-answer", "other")
    /\ Stamp(id)
    /\ UNCHANGED <<planSaved, tool, deviceVars, spent>>

Waiting == {id \in Used : row[id].status \in {"queued", "undo-queued"}}
Lost == spent' = [spent EXCEPT !.losses = @ + 1] /\ spent.losses < MaxLosses
Delivered == spent' = spent

\* A poll whose reply carries the next change or undo: at most one, and never
\* while another still waits for the router's answer.
SendChange ==
    LET id == CHOOSE i \in Waiting : \A j \in Waiting : i <= j
        undoing == row[id].status = "undo-queued"
    IN  /\ InFlight = {} /\ Waiting # {}
        /\ row' = Settled(id, IF undoing THEN "undo-sent" ELSE "sent", "none")
        /\ Stamp(id)
        /\ \/ Delivered /\ run' = run \cup {[id |-> id, at |-> IF undoing THEN "undoing" ELSE "start"]}
           \/ Lost /\ UNCHANGED run
        /\ UNCHANGED <<planSaved, tool, pieces, undo, guard, rebooter, boot>>
CannotBuild(id) ==
    /\ InFlight = {} /\ Waiting # {} /\ row[id].status = "queued"
    /\ \A j \in Waiting : id <= j
    /\ row' = CalledOff(id, "failed", "other")
    /\ Stamp(id)
    /\ UNCHANGED <<planSaved, tool, deviceVars, spent>>
\* A tool travels only while no change is on its way.
SendTool ==
    /\ ~HasActive /\ tool.status = "queued"
    /\ tool' = [tool EXCEPT !.status = "sent"]
    /\ UNCHANGED <<row, planSaved, age, seen, deviceVars, spent>>
ToolAnswers ==
    /\ tool.status = "sent"
    /\ tool' = NoTool
    /\ UNCHANGED <<row, planSaved, age, seen, deviceVars, spent>>

\* recordRouterChangeAnswer: what routerAnswer makes of a row, and the saved
\* map goes once its whole batch is on the router.
BatchOn(rows, id) ==
    \A i \in DOMAIN rows : rows[i].batch = rows[id].batch => rows[i].status \in {"applied", "verified"}
Heard(id, state, reason) ==
    LET s == row[id].status
        rows == CASE state = "applied" /\ s = "sent" -> Settled(id, "confirming", "none")
                  [] state = "kept" /\ s = "confirming" -> Settled(id, "applied", "none")
                  [] state = "failed" /\ s = "sent" -> CalledOff(id, "failed", reason)
                  [] state = "reverted" /\ s \in {"sent", "confirming", "applied", "verified", "no-answer"} ->
                        CalledOff(id, "reverted", reason)
                  [] state = "undone" /\ s = "undo-sent" -> Settled(id, "undone", "none")
                  [] state = "undo-failed" /\ s = "undo-sent" -> Settled(id, "applied", "other")
                  [] OTHER -> row
    IN  /\ row' = rows
        /\ seen' = IF rows = row THEN seen ELSE [seen EXCEPT ![id] = "nothing"]
        /\ age' = IF rows = row THEN age ELSE 0
        /\ planSaved' = (planSaved /\ ~BatchOn(rows, id))
        /\ UNCHANGED tool
\* A report that may not arrive.
ReportState(id, state, reason) ==
    \/ Delivered /\ Heard(id, state, reason)
    \/ Lost /\ UNCHANGED cloudVars

\* A layout report: every live change is checked again, and a row in flight
\* will be judged by it when it falls silent.
LayoutReport ==
    /\ Used # {}
    /\ seen' = [id \in Ids |-> IF id \in Used THEN (IF Matches(id) THEN "match" ELSE "differs") ELSE seen[id]]
    /\ row' = [id \in Used |->
                 IF row[id].status \in {"applied", "mismatch"}
                 THEN [row[id] EXCEPT !.status = IF Matches(id) THEN "verified" ELSE "mismatch",
                                      !.reason = IF Matches(id) THEN "none" ELSE "other"]
                 ELSE row[id]]
    /\ <<row, seen>>' # <<row, seen>>
    /\ UNCHANGED <<planSaved, age, tool, deviceVars, spent>>

----------------------------------------------------------------------------
(* The router                                                              *)

Go(r, at) == run' = (run \ {r}) \cup {[r EXCEPT !.at = at]}
End(r) == run' = run \ {r}

\* What is left after an undo ran and could not remove the stuck pieces.
Leftover(id, stuck) == pieces[id] \cap stuck
\* Mutant of Complete: an undo never looks at what it left over.
UncheckedUndo(id, stuck) == TRUE
Complete(id, stuck) == Leftover(id, stuck) \cap Checked = {}
\* undoNow and its like: the undo script, if it is there, drops the guard when it
\* left nothing over and is then removed; else both stay.
Done(id, stuck) == id \in undo /\ Complete(id, stuck)
Undo(id, stuck, dropScript) ==
    /\ pieces' = IF id \in undo THEN [pieces EXCEPT ![id] = Leftover(id, stuck)] ELSE pieces
    /\ guard' = IF Done(id, stuck) THEN guard \ {id} ELSE guard
    /\ undo' = IF Done(id, stuck) /\ dropScript THEN undo \ {id} ELSE undo
Why(id, stuck) == IF Done(id, stuck) THEN "other" ELSE "undo_incomplete"

\* Preflight: something is not as the dashboard showed it, nothing is touched.
\* A rename's guard runs the undo itself, so it has no fiti-reboot script.
Preflight(r) ==
    /\ r.at = "start"
    /\ \/ /\ r.id \notin undo
          /\ undo' = undo \cup {r.id} /\ guard' = guard \cup {r.id}
          /\ rebooter' = IF row[r.id].kind = "rename" THEN rebooter ELSE rebooter \cup {r.id}
          /\ Go(r, "guarded") /\ UNCHANGED <<cloudVars, spent>>
       \/ ReportState(r.id, "failed", "other") /\ End(r) /\ UNCHANGED <<undo, guard, rebooter>>
    /\ UNCHANGED <<pieces, boot>>

\* The body: all of it, or the commands before one the router rejected.
ApplyBody(r, n) ==
    LET body == Body(row[r.id])
    IN  /\ r.at = "guarded" /\ n \in 0..Len(body)
        /\ pieces' = [pieces EXCEPT ![r.id] = {body[i] : i \in 1..n}]
        /\ Go(r, IF n = Len(body) THEN "asking" ELSE "failing")
        /\ UNCHANGED <<cloudVars, undo, guard, rebooter, boot, spent>>
Failing(r, stuck) ==
    /\ r.at = "failing"
    /\ Undo(r.id, stuck, TRUE)
    /\ ReportState(r.id, "failed", Why(r.id, stuck))
    /\ End(r) /\ UNCHANGED <<rebooter, boot>>

\* confirmLines: only the reply "confirmed" keeps the change.  The question or
\* its answer may be lost, and is then asked again or given up.
Confirms(id) == row[id].status \in {"sent", "confirming"}
AskConfirm(r) ==
    /\ r.at = "asking"
    /\ Heard(r.id, "applied", "none")
    /\ \/ Delivered /\ Confirms(r.id) /\ Go(r, "confirmed")
       \/ Lost /\ UNCHANGED run
       \/ Delivered /\ ~Confirms(r.id) /\ UNCHANGED run
    /\ UNCHANGED <<pieces, undo, guard, rebooter, boot>>
\* Mutant of LoseCloud: the boot guard is dropped and nothing is put back.
LoseCloudKeeps(r, stuck) ==
    /\ r.at = "asking"
    /\ guard' = guard \ {r.id} /\ rebooter' = rebooter \ {r.id} /\ UNCHANGED <<pieces, undo>>
    /\ ReportState(r.id, "reverted", "other")
    /\ End(r) /\ UNCHANGED boot
\* The loop gave up: undo, report, and stepCleanupLines whatever the undo achieved.
LoseCloud(r, stuck) ==
    /\ r.at = "asking"
    /\ Undo(r.id, stuck, TRUE) /\ rebooter' = rebooter \ {r.id}
    /\ ReportState(r.id, "reverted", Why(r.id, stuck))
    /\ End(r) /\ UNCHANGED boot
Keep(r) ==
    /\ r.at = "confirmed"
    /\ guard' = guard \ {r.id} /\ rebooter' = rebooter \ {r.id}
    /\ ReportState(r.id, "kept", "none")
    /\ End(r) /\ UNCHANGED <<pieces, undo, boot>>

\* undoScript: "undo-missing" is heard like "undo-failed".
RunUndo(r, stuck) ==
    /\ r.at = "undoing"
    /\ Undo(r.id, stuck, TRUE)
    /\ rebooter' = IF Done(r.id, stuck) THEN rebooter \ {r.id} ELSE rebooter
    /\ ReportState(r.id, IF Done(r.id, stuck) THEN "undone" ELSE "undo-failed", "other")
    /\ End(r) /\ UNCHANGED boot

\* A boot guard with something to run: a rename's runs the undo, any other the
\* fiti-reboot script.
Guarded(id) == id \in guard /\ (row[id].kind = "rename" \/ id \in rebooter)
\* The router restarts, by itself or by the owner's tool (which answers first
\* and restarts 5 seconds later): what ran is gone, and every guarded change is
\* put back and reported.
Restart ==
    /\ spent.reboots < MaxReboots
    /\ spent' = [spent EXCEPT !.reboots = @ + 1]
    /\ run' = {} /\ boot' = {id \in guard : Guarded(id)}
    /\ UNCHANGED <<cloudVars, pieces, undo, guard, rebooter>>
\* rebootLines; a rename's guard runs the undo and reports nothing.
AfterReboot(id, stuck) ==
    LET rename == row[id].kind = "rename"
    IN  /\ id \in boot
        /\ boot' = boot \ {id}
        /\ Undo(id, stuck, ~rename)
        /\ rebooter' = IF ~rename /\ Done(id, stuck) THEN rebooter \ {id} ELSE rebooter
        /\ IF rename THEN UNCHANGED <<cloudVars, spent>>
           ELSE ReportState(id, "reverted", Why(id, stuck))
        /\ UNCHANGED run

----------------------------------------------------------------------------

Init ==
    /\ row = <<>> /\ planSaved = FALSE /\ age = 0
    /\ seen = [id \in Ids |-> "nothing"]
    /\ tool = NoTool
    /\ pieces = [id \in Ids |-> {}] /\ undo = {} /\ guard = {} /\ rebooter = {}
    /\ run = {} /\ boot = {}
    /\ spent = [losses |-> 0, reboots |-> 0]

Batches == {<<s>> : s \in Specs} \cup (Specs \X Specs)
OwnerActs ==
    \/ SavePlan
    \/ \E specs \in Batches, from \in 0..MaxChanges : ApplyPlan(specs, from)
    \/ \E id \in Ids : QueueRename(id) \/ QueueUndo(id)
    \/ \E name \in Tools : QueueTool(name)
CloudActs ==
    \/ \E id \in Ids : SettleSilent(id)
    \/ \E id \in Used : CannotBuild(id)
    \/ SendChange \/ SendTool \/ ToolExpires
RouterSteps ==
    \/ \E r \in run :
          \/ Preflight(r) \/ AskConfirm(r) \/ Keep(r)
          \/ \E n \in 0..6 : ApplyBody(r, n)
          \/ \E stuck \in SUBSET Stubborn : Failing(r, stuck) \/ LoseCloud(r, stuck) \/ RunUndo(r, stuck)
    \/ \E id \in Ids, stuck \in SUBSET Stubborn : AfterReboot(id, stuck)
Next == OwnerActs \/ CloudActs \/ RouterSteps \/ ToolAnswers \/ LayoutReport \/ TimePasses \/ Restart

Spec == Init /\ [][Next]_vars

\* The router polls for as long as it is on, and the cloud's clock goes on.  Of
\* what the router does with a script nothing is assumed.
Fairness ==
    /\ WF_vars(SendChange) /\ WF_vars(TimePasses)
    /\ WF_vars(\E id \in Ids : SettleSilent(id))
FairSpec == Spec /\ Fairness

TypeOK ==
    /\ row \in Seq(Change) /\ Len(row) <= MaxChanges
    /\ planSaved \in BOOLEAN /\ age \in 0..3
    /\ seen \in [Ids -> {"nothing", "match", "differs"}]
    /\ tool \in [name: {"none", "reboot", "other"}, status: {"none", "queued", "sent"}]
    /\ pieces \in [Ids -> SUBSET {"interface", "rules", "address", "hotspot", "map", "backup", "radio", "server", "name"}]
    /\ undo \subseteq Ids /\ guard \subseteq Ids /\ rebooter \subseteq Ids /\ boot \subseteq Ids
    /\ run \subseteq [id: Ids, at: Stages]

----------------------------------------------------------------------------
(* Properties                                                              *)

\* Only a change the cloud confirmed stays, whatever was lost, rejected, slow or
\* cut short by a restart on the way: what is on the router of a change that was
\* not confirmed, failed or was put back has a boot guard with its script.  One
\* exception is left, what an undo could not remove: when the confirm loop gave
\* up, the guard stays but its script is gone (GuardStaysArmed), and these pieces
\* wait for the owner's undo, which CanBePutBack says is there.
Standing(id) == pieces[id] \cap Checked # {}
LeftOver(id) == id \in guard /\ pieces[id] \subseteq Stubborn
KeptOnlyIfConfirmed ==
    \A id \in Used : Standing(id) /\ ~Guarded(id) /\ ~LeftOver(id) =>
        row[id].status \notin {"queued", "sent", "failed", "cancelled", "reverted", "undone"}

\* "A guard that runs it if the router restarts before the cloud confirms" and "a
\* partial undo keeps this reporter and its guard, so it runs again" (applyScript,
\* rebootLines): a boot guard on the router has the script it runs.  It does not
\* hold: when the confirm loop gives up, confirmLines removes the script even when
\* the undo was incomplete.
GuardStaysArmed == \A id \in guard : Guarded(id)

\* Whatever is left of a change, the script that removes it is left as well, so
\* the owner can put the router back.
CanBePutBack == \A id \in Ids : Standing(id) => id \in undo

\* Every change and every undo the owner asked for ends in an outcome the owner
\* sees, whatever is lost: applied, put back, refused, or "no answer".
Going(id) == id \in Used /\ row[id].status \in Active
EveryChangeSettles == \A id \in Ids : Going(id) ~> ~Going(id)
=============================================================================
