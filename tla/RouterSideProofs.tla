-------------------------- MODULE RouterSideProofs --------------------------
(***************************************************************************)
(* What is put on a router.  A change on a live router, for any number of  *)
(* changes, losses and restarts, and however slow its script: what stands  *)
(* without its boot guard was confirmed or is left over of an undo, and    *)
(* what stands can be put back.  Remote access, for any number of          *)
(* locations, addresses, keys and faults: no two locations want a peer     *)
(* with one key or one address.  The setup kits, pasted in any order and   *)
(* cut off anywhere: the automatic kit takes up what they left.            *)
(***************************************************************************)
EXTENDS RouterChanges, RemoteAccess, RouterSetup, FiniteSetTheorems, SequenceTheorems,
        WellFoundedInduction, TLAPS

-----------------------------------------------------------------------------
(* The inductive invariant of the changes (RouterChanges): each change has  *)
(* its own, over its row, what is on the router of it, and the scripts that *)
(* are at work for it.                                                      *)

\* How far the scripts at work for a change are.
At(i) == {at \in Stages : [id |-> i, at |-> at] \in run}

\* Nothing of a change is on the router before it was sent.
Begun(i) ==
    i \in undo \cup guard \cup boot \/ At(i) # {} => i \in Used /\ row[i].status # "queued"

\* A row that may still be answered is not one the owner may ask to undo.
Undecided == {"queued", "sent", "no-answer", "undo-queued", "undo-sent", "undo-no-answer"}
NotForUndo(i) == i \in Used /\ row[i].status \in Undecided => row[i].reason # "undo_incomplete"

\* A change is carried out once, though an undo may run beside its end.
OneScript(i) == \A a, b \in At(i) \ {"undoing"} : a = b

\* Until the whole change is there its row was not answered, and a restart
\* puts it back.
BeforeAsking(i) ==
    /\ "start" \in At(i) => i \notin undo \cup boot
    /\ At(i) \cap {"start", "guarded", "failing"} # {} => row[i].status \in {"sent", "no-answer"}
    /\ At(i) \cap {"guarded", "failing"} # {} => i \in undo /\ Guarded(i) /\ i \notin boot

\* While it asks the cloud it is guarded, or an undo took it away.  What the cloud
\* still waits for is there as a whole, and what it confirmed is not called off.
WhileAsking(i) ==
    /\ At(i) \cap {"asking", "confirmed"} # {} =>
          /\ i \notin boot
          /\ Standing(i) => Guarded(i)
          /\ row[i].status \in {"sent", "confirming"} => Whole(row[i]) \subseteq pieces[i]
          /\ row[i].status = "confirming" => seen[i] # "differs"
    /\ "confirmed" \in At(i) /\ Standing(i) =>
          row[i].status \notin {"queued", "sent", "failed", "cancelled", "reverted", "undone"}

UndoAsked(i) == "undoing" \in At(i) => row[i].status \in {"undo-sent", "undo-no-answer"}

\* A restart puts back what is guarded.
BootGuards(i) == i \in boot /\ Standing(i) => Guarded(i)

\* A change that was asked to stay, though the cloud does not know it did, is
\* there as a whole, and no layout says otherwise.
Safe(i) == Guarded(i) \/ LeftOver(i)
KeptUnheard(i) ==
    i \in Used /\ row[i].status = "confirming" /\ Standing(i) /\ ~Safe(i) =>
        Whole(row[i]) \subseteq pieces[i] /\ seen[i] # "differs"

Bad == {"queued", "sent", "failed", "cancelled", "reverted", "undone"}
StaysIfConfirmed(i) == i \in Used /\ Standing(i) /\ ~Safe(i) => row[i].status \notin Bad
Removable(i) == Standing(i) => i \in undo

ChangeInv(i) ==
    /\ Begun(i) /\ NotForUndo(i) /\ OneScript(i) /\ BeforeAsking(i) /\ WhileAsking(i)
    /\ UndoAsked(i) /\ BootGuards(i) /\ KeptUnheard(i) /\ StaysIfConfirmed(i) /\ Removable(i)
ChangesInv == TypeOK /\ \A i \in Ids : ChangeInv(i)

-----------------------------------------------------------------------------
(* Rows *)

Names == {"interface", "rules", "address", "hotspot", "map", "backup", "radio", "server", "name"}
Reasons == {"none", "undo_incomplete", "other"}

SameWork(i) == row'[i].kind = row[i].kind /\ Whole(row'[i]) = Whole(row[i])
\* What else of its batch is called off with a row only leaves the queue.
Left(i) ==
    \/ row'[i].status = row[i].status /\ row'[i].reason = row[i].reason
    \/ row[i].status = "queued" /\ row'[i].status = "cancelled"
Moved(id, st) ==
    /\ row' \in Seq(Change) /\ Len(row') = Len(row) /\ DOMAIN row' = Used
    /\ \A i \in Used : SameWork(i)
    /\ \A i \in Used \ {id} : Left(i)
    /\ row'[id].status = st
    /\ st \in Undecided => row'[id].reason # "undo_incomplete"

LEMMA UsedIds ==
    ASSUME TypeOK
    PROVE  Used = 1..Len(row) /\ Used \subseteq Ids /\ \A i \in Used : row[i] \in Change
  BY ChangesAssumption DEF TypeOK, Used, Ids

LEMMA SameLength ==
    ASSUME NEW S, NEW q \in Seq(S), NEW f \in [DOMAIN q -> S]
    PROVE  f \in Seq(S) /\ Len(f) = Len(q)
  <1>1. DOMAIN q = 1..Len(q) /\ Len(q) \in Nat
    OBVIOUS
  <1> QED BY <1>1

LEMMA WholeSame ==
    ASSUME NEW r, NEW q, r.kind = q.kind, r.job = q.job
    PROVE  Body(r) = Body(q) /\ Whole(r) = Whole(q)
  BY DEF Body, Whole

LEMMA SettledMoves ==
    ASSUME TypeOK, NEW id \in Used, NEW st \in Statuses, NEW why \in Reasons, row' = Settled(id, st, why),
           st \in Undecided => why # "undo_incomplete"
    PROVE  Moved(id, st)
  <1>1. /\ row' \in [Used -> Change]
        /\ \A i \in Used : row'[i].kind = row[i].kind /\ row'[i].job = row[i].job
        /\ \A i \in Used \ {id} : row'[i] = row[i]
        /\ row'[id].status = st /\ row'[id].reason = why
    BY UsedIds DEF Settled, Change, Reasons, Used
  <1>2. row' \in Seq(Change) /\ Len(row') = Len(row)
    BY <1>1, SameLength DEF TypeOK, Used
  <1>3. \A i \in Used : SameWork(i)
    BY <1>1, WholeSame DEF SameWork
  <1> QED BY <1>1, <1>2, <1>3 DEF Moved, Left

LEMMA CalledOffMoves ==
    ASSUME TypeOK, NEW id \in Used, NEW st \in Statuses, NEW why \in Reasons, row' = CalledOff(id, st, why),
           st \in Undecided => why # "undo_incomplete"
    PROVE  Moved(id, st)
  <1>1. /\ row' \in [Used -> Change]
        /\ \A i \in Used : row'[i].kind = row[i].kind /\ row'[i].job = row[i].job
        /\ row'[id].status = st /\ row'[id].reason = why
        /\ \A i \in Used \ {id} : \/ row'[i] = row[i]
                                  \/ row[i].status = "queued" /\ row'[i].status = "cancelled"
    <2> DEFINE old == Settled(id, st, why)
    <2>1. /\ old \in [Used -> Change]
          /\ \A i \in Used : old[i].kind = row[i].kind /\ old[i].job = row[i].job
          /\ \A i \in Used \ {id} : old[i] = row[i]
          /\ old[id].status = st /\ old[id].reason = why
      BY UsedIds DEF Settled, Change, Reasons, Used
    <2>2. row' = [i \in Used |-> IF i # id /\ row[i].batch = row[id].batch /\ row[i].status = "queued"
                                 THEN [row[i] EXCEPT !.status = "cancelled", !.reason = "other"] ELSE old[i]]
      BY DEF CalledOff
    <2> HIDE DEF old
    <2>3. \A i \in Used :
             LET c == [row[i] EXCEPT !.status = "cancelled", !.reason = "other"]
             IN  c \in Change /\ c.kind = row[i].kind /\ c.job = row[i].job /\ c.status = "cancelled"
      BY UsedIds DEF Change, Statuses
    <2> QED BY <2>1, <2>2, <2>3
  <1>2. row' \in Seq(Change) /\ Len(row') = Len(row)
    BY <1>1, SameLength DEF TypeOK, Used
  <1>3. \A i \in Used : SameWork(i)
    BY <1>1, WholeSame DEF SameWork
  <1> QED BY <1>1, <1>2, <1>3 DEF Moved, Left

LEMMA UnmovedMoves ==
    ASSUME TypeOK, NEW id \in Used, NotForUndo(id), row' = row
    PROVE  Moved(id, row[id].status)
  BY UsedIds DEF Moved, SameWork, Left, NotForUndo, TypeOK, Used

-----------------------------------------------------------------------------
(* What a report does to the cloud *)

States == {"applied", "kept", "failed", "reverted", "undone", "undo-failed"}
Reverts == {"sent", "confirming", "applied", "verified", "no-answer"}
After(state, s) ==
    IF state = "applied" /\ s = "sent" THEN "confirming"
    ELSE IF state = "kept" /\ s = "confirming" THEN "applied"
    ELSE IF state = "failed" /\ s = "sent" THEN "failed"
    ELSE IF state = "reverted" /\ s \in Reverts THEN "reverted"
    ELSE IF state = "undone" /\ s = "undo-sent" THEN "undone"
    ELSE IF state = "undo-failed" /\ s = "undo-sent" THEN "applied"
    ELSE s

\* A row whose status changes is looked at anew; the others are left alone.
SeenAnew(id, st) ==
    /\ seen' \in [Ids -> {"nothing", "match", "differs"}]
    /\ \A i \in Ids : seen'[i] \in {seen[i], "nothing"}
    /\ st # row[id].status => seen'[id] = "nothing"
CloudMoved(id, st) ==
    /\ Moved(id, st) /\ SeenAnew(id, st)
    /\ age' \in {age, 0} /\ planSaved' \in BOOLEAN /\ tool' = tool

LEMMA AfterType ==
    ASSUME NEW state, NEW s \in Statuses
    PROVE  After(state, s) \in Statuses
  BY DEF After, Statuses, Active, Live

LEMMA HeardMoves ==
    ASSUME TypeOK, NEW id \in Used, NotForUndo(id), NEW state \in States, NEW why \in Reasons,
           Heard(id, state, why)
    PROVE  CloudMoved(id, After(state, row[id].status))
  <1> DEFINE s == row[id].status
             st == After(state, s)
  <1>1. s \in Statuses /\ id \in Ids /\ st \in Statuses
    BY UsedIds, AfterType DEF Change
  <1>2. Moved(id, st)
    <2>1. CASE state = "applied" /\ s = "sent"
      <3>1. row' = Settled(id, st, "none")
        BY <2>1 DEF Heard, After
      <3> QED BY <3>1, <1>1, SettledMoves DEF Reasons
    <2>2. CASE state = "kept" /\ s = "confirming"
      <3>1. row' = Settled(id, st, "none")
        BY <2>2 DEF Heard, After
      <3> QED BY <3>1, <1>1, SettledMoves DEF Reasons
    <2>3. CASE state = "failed" /\ s = "sent"
      <3>1. row' = CalledOff(id, st, why) /\ st \notin Undecided
        BY <2>3 DEF Heard, After, Undecided
      <3> QED BY <3>1, <1>1, CalledOffMoves
    <2>4. CASE state = "reverted" /\ s \in Reverts
      <3>1. row' = CalledOff(id, st, why) /\ st \notin Undecided
        BY <2>4 DEF Heard, After, Reverts, Undecided
      <3> QED BY <3>1, <1>1, CalledOffMoves
    <2>5. CASE state = "undone" /\ s = "undo-sent"
      <3>1. row' = Settled(id, st, "none")
        BY <2>5 DEF Heard, After
      <3> QED BY <3>1, <1>1, SettledMoves DEF Reasons
    <2>6. CASE state = "undo-failed" /\ s = "undo-sent"
      <3>1. row' = Settled(id, st, "other")
        BY <2>6 DEF Heard, After
      <3> QED BY <3>1, <1>1, SettledMoves DEF Reasons
    <2>7. CASE ~ \/ state = "applied" /\ s = "sent"
                 \/ state = "kept" /\ s = "confirming"
                 \/ state = "failed" /\ s = "sent"
                 \/ state = "reverted" /\ s \in Reverts
                 \/ state = "undone" /\ s = "undo-sent"
                 \/ state = "undo-failed" /\ s = "undo-sent"
      <3>1. row' = row /\ st = s
        BY <2>7 DEF Heard, After, Reverts
      <3> QED BY <3>1, UnmovedMoves
    <2> QED BY <2>1, <2>2, <2>3, <2>4, <2>5, <2>6, <2>7
  <1>3. seen' = (IF row' = row THEN seen ELSE [seen EXCEPT ![id] = "nothing"])
        /\ age' = (IF row' = row THEN age ELSE 0) /\ planSaved' \in BOOLEAN /\ tool' = tool
    BY DEF Heard, TypeOK
  <1>4. st # s => row' # row
    BY <1>2 DEF Moved
  <1>5. SeenAnew(id, st)
    BY <1>1, <1>3, <1>4 DEF SeenAnew, TypeOK
  <1> QED BY <1>2, <1>3, <1>5 DEF CloudMoved

LEMMA CloudUnmoved ==
    ASSUME TypeOK, NEW id \in Used, NotForUndo(id), UNCHANGED cloudVars
    PROVE  CloudMoved(id, row[id].status)
  <1>1. Moved(id, row[id].status)
    BY UnmovedMoves DEF cloudVars
  <1> QED BY <1>1 DEF CloudMoved, SeenAnew, TypeOK, cloudVars

\* A report that may be lost: the row moves as the report says, or stays.
LEMMA ReportMoves ==
    ASSUME TypeOK, NEW id \in Used, NotForUndo(id), NEW state \in States, NEW why \in Reasons,
           ReportState(id, state, why)
    PROVE  \E st \in {row[id].status, After(state, row[id].status)} : CloudMoved(id, st)
  BY HeardMoves, CloudUnmoved DEF ReportState

-----------------------------------------------------------------------------
(* A step works on one change; the others keep what they have *)

SameRow(i) ==
    /\ i \in Used' <=> i \in Used
    /\ i \in Used => SameWork(i) /\ Left(i)
    /\ seen'[i] \in {seen[i], "nothing"}
SameDevice(i) ==
    /\ pieces'[i] = pieces[i] /\ At(i)' = At(i)
    /\ (i \in undo' <=> i \in undo) /\ (i \in guard' <=> i \in guard)
    /\ (i \in rebooter' <=> i \in rebooter) /\ (i \in boot' <=> i \in boot)

LEMMA SameStanding ==
    ASSUME NEW i, pieces'[i] = pieces[i]
    PROVE  Standing(i)' <=> Standing(i)
  BY DEF Standing, Checked

LEMMA SameGuard ==
    ASSUME NEW i, pieces'[i] = pieces[i], i \in guard' <=> i \in guard,
           i \in rebooter' <=> i \in rebooter, row'[i].kind = row[i].kind
    PROVE  (Guarded(i)' <=> Guarded(i)) /\ (LeftOver(i)' <=> LeftOver(i)) /\ (Safe(i)' <=> Safe(i))
  BY DEF Guarded, LeftOver, Safe

LEMMA OtherChange ==
    ASSUME NEW i \in Ids, ChangeInv(i), SameRow(i), SameDevice(i)
    PROVE  ChangeInv(i)'
  <1>1. CASE i \notin Used
    <2>1. /\ i \notin undo \cup guard \cup boot /\ At(i) = {} /\ ~Standing(i)
      BY <1>1 DEF ChangeInv, Begun, Removable
    <2>2. /\ i \notin undo' \cup guard' \cup boot' /\ At(i)' = {} /\ ~Standing(i)' /\ i \notin Used'
      BY <1>1, <2>1, SameStanding DEF SameRow, SameDevice
    <2> QED BY <2>2 DEF ChangeInv, Begun, NotForUndo, OneScript, BeforeAsking, WhileAsking, UndoAsked,
                        BootGuards, KeptUnheard, StaysIfConfirmed, Removable
  <1>2. CASE i \in Used /\ row'[i].status = row[i].status /\ row'[i].reason = row[i].reason
    <2>1. /\ Standing(i)' <=> Standing(i)
          /\ Guarded(i)' <=> Guarded(i)
          /\ Safe(i)' <=> Safe(i)
          /\ At(i)' = At(i) /\ pieces'[i] = pieces[i] /\ Whole(row'[i]) = Whole(row[i])
          /\ i \in Used' /\ (seen'[i] = "differs" => seen[i] = "differs")
          /\ (i \in undo' <=> i \in undo) /\ (i \in guard' <=> i \in guard) /\ (i \in boot' <=> i \in boot)
      BY <1>2, SameStanding, SameGuard DEF SameRow, SameDevice, SameWork
    <2> QED BY <1>2, <2>1 DEF ChangeInv, Begun, NotForUndo, OneScript, BeforeAsking, WhileAsking, UndoAsked,
                              BootGuards, KeptUnheard, StaysIfConfirmed, Removable, Undecided, Bad
  <1>3. CASE i \in Used /\ row[i].status = "queued" /\ row'[i].status = "cancelled"
    <2>1. /\ i \notin undo \cup guard \cup boot /\ At(i) = {} /\ ~Standing(i)
      BY <1>3 DEF ChangeInv, Begun, Removable
    <2>2. /\ i \notin undo' \cup guard' \cup boot' /\ At(i)' = {} /\ ~Standing(i)'
      BY <1>3, <2>1, SameStanding DEF SameDevice
    <2> QED BY <1>3, <2>2 DEF ChangeInv, Begun, NotForUndo, OneScript, BeforeAsking, WhileAsking, UndoAsked,
                        BootGuards, KeptUnheard, StaysIfConfirmed, Removable, Undecided
  <1> QED BY <1>1, <1>2, <1>3 DEF SameRow, Left

\* What is known of the change the step works on, once its row moved.
LEMMA CloudStep ==
    ASSUME TypeOK, NEW id \in Used, NEW st, CloudMoved(id, st)
    PROVE  /\ row' \in Seq(Change) /\ Len(row') <= MaxChanges /\ Used' = Used /\ Ids' = Ids
           /\ planSaved' \in BOOLEAN /\ age' \in 0..3
           /\ seen' \in [Ids -> {"nothing", "match", "differs"}]
           /\ tool' \in [name: {"none", "reboot", "other"}, status: {"none", "queued", "sent"}]
           /\ \A i \in Ids \ {id} : SameRow(i)
           /\ row'[id].status = st /\ Whole(row'[id]) = Whole(row[id]) /\ row'[id].kind = row[id].kind
           /\ seen'[id] \in {seen[id], "nothing"}
           /\ st # row[id].status => seen'[id] = "nothing"
           /\ st \in Undecided => row'[id].reason # "undo_incomplete"
  <1>1. /\ row' \in Seq(Change) /\ Len(row') = Len(row) /\ Used' = Used /\ Ids' = Ids /\ id \in Ids
        /\ \A i \in Used : SameWork(i)
        /\ \A i \in Used \ {id} : Left(i)
        /\ row'[id].status = st
        /\ st \in Undecided => row'[id].reason # "undo_incomplete"
    BY UsedIds DEF CloudMoved, Moved, Used, Ids
  <1>2. /\ seen' \in [Ids -> {"nothing", "match", "differs"}]
        /\ \A i \in Ids : seen'[i] \in {seen[i], "nothing"}
        /\ st # row[id].status => seen'[id] = "nothing"
    BY DEF CloudMoved, SeenAnew
  <1>3. planSaved' \in BOOLEAN /\ age' \in 0..3
        /\ tool' \in [name: {"none", "reboot", "other"}, status: {"none", "queued", "sent"}]
    BY DEF CloudMoved, TypeOK
  <1> QED BY <1>1, <1>2, <1>3 DEF SameRow, SameWork, TypeOK

LEMMA DeviceTypes ==
    ASSUME ChangesInv, NEW id \in Used, NEW st, CloudMoved(id, st),
           pieces' \in [Ids -> SUBSET Names],
           undo' \subseteq Ids, guard' \subseteq Ids, rebooter' \subseteq Ids, boot' \subseteq Ids,
           run' \subseteq [id: Ids, at: Stages]
    PROVE  TypeOK'
  BY CloudStep DEF ChangesInv, TypeOK, Names, Stages, Change

\* The invariant holds after a step that works on id.
LEMMA Assembled ==
    ASSUME ChangesInv, NEW id \in Used, NEW st, CloudMoved(id, st),
           pieces' \in [Ids -> SUBSET Names],
           undo' \subseteq Ids, guard' \subseteq Ids, rebooter' \subseteq Ids, boot' \subseteq Ids,
           run' \subseteq [id: Ids, at: Stages],
           \A i \in Ids \ {id} : SameDevice(i),
           ChangeInv(id)'
    PROVE  ChangesInv'
  <1>1. TypeOK' /\ Ids' = Ids
    BY DeviceTypes, CloudStep DEF ChangesInv
  <1>2. \A i \in Ids \ {id} : ChangeInv(i)'
    BY CloudStep, OtherChange DEF ChangesInv
  <1> QED BY <1>1, <1>2 DEF ChangesInv

-----------------------------------------------------------------------------
(* The scripts at work *)

LEMMA WentOn ==
    ASSUME TypeOK, NEW r \in run, NEW at \in Stages, Go(r, at)
    PROVE  /\ run' \subseteq [id: Ids, at: Stages]
           /\ At(r.id)' = (At(r.id) \ {r.at}) \cup {at}
           /\ \A i \in Ids \ {r.id} : At(i)' = At(i)
  <1>1. r \in [id: Ids, at: Stages] /\ r = [id |-> r.id, at |-> r.at]
    BY DEF TypeOK
  <1>2. run' = (run \ {[id |-> r.id, at |-> r.at]}) \cup {[id |-> r.id, at |-> at]}
    BY <1>1 DEF Go
  <1>3. Stages' = Stages
    BY DEF Stages
  <1> QED BY <1>1, <1>2, <1>3 DEF At, TypeOK

LEMMA Ended ==
    ASSUME TypeOK, NEW r \in run, End(r)
    PROVE  /\ run' \subseteq [id: Ids, at: Stages]
           /\ At(r.id)' = At(r.id) \ {r.at}
           /\ \A i \in Ids \ {r.id} : At(i)' = At(i)
  <1>1. r = [id |-> r.id, at |-> r.at]
    BY DEF TypeOK
  <1>2. run' = run \ {[id |-> r.id, at |-> r.at]} /\ Stages' = Stages
    BY <1>1 DEF End, Stages
  <1> QED BY <1>2 DEF At, TypeOK

LEMMA Began ==
    ASSUME TypeOK, NEW id \in Ids, NEW at \in Stages, run' = run \cup {[id |-> id, at |-> at]}
    PROVE  /\ run' \subseteq [id: Ids, at: Stages]
           /\ At(id)' = At(id) \cup {at}
           /\ \A i \in Ids \ {id} : At(i)' = At(i)
  BY DEF At, TypeOK, Stages

\* What an undo leaves standing keeps its script and its guard.
LEMMA UndoEffect ==
    ASSUME TypeOK, NEW id \in Ids, NEW stuck \in SUBSET Stubborn, NEW drop, Undo(id, stuck, drop),
           Removable(id)
    PROVE  /\ pieces' \in [Ids -> SUBSET Names] /\ undo' \subseteq Ids /\ guard' \subseteq Ids
           /\ \A i \in Ids \ {id} : pieces'[i] = pieces[i] /\ (i \in undo' <=> i \in undo) /\ (i \in guard' <=> i \in guard)
           /\ undo' \subseteq undo /\ guard' \subseteq guard
           /\ pieces'[id] \subseteq pieces[id]
           /\ Done(id, stuck) => ~Standing(id)'
           /\ ~Done(id, stuck) => undo' = undo /\ guard' = guard
           /\ Standing(id)' => Standing(id) /\ id \in undo' /\ pieces'[id] \subseteq Stubborn
  <1>1. CASE id \notin undo
    <2>1. pieces' = pieces /\ undo' = undo /\ guard' = guard /\ ~Done(id, stuck)
      BY <1>1 DEF Undo, Done
    <2>2. ~Standing(id) /\ ~Standing(id)'
      BY <1>1, <2>1, SameStanding DEF Removable
    <2> QED BY <2>1, <2>2 DEF TypeOK, Names
  <1>2. CASE id \in undo
    <2>1. pieces' = [pieces EXCEPT ![id] = pieces[id] \cap stuck] /\ pieces \in [Ids -> SUBSET Names]
      BY <1>2 DEF Undo, Leftover, TypeOK, Names
    <2>2. pieces'[id] = pieces[id] \cap stuck
      BY <2>1
    <2>3. Standing(id)' => Standing(id) /\ ~Done(id, stuck)
      BY <2>2 DEF Standing, Done, Complete, Leftover, Checked
    <2>4. /\ undo' = IF Done(id, stuck) /\ drop THEN undo \ {id} ELSE undo
          /\ guard' = IF Done(id, stuck) THEN guard \ {id} ELSE guard
      BY DEF Undo
    <2> QED BY <1>2, <2>1, <2>2, <2>3, <2>4 DEF TypeOK
  <1> QED BY <1>1, <1>2

-----------------------------------------------------------------------------
(* The router's actions *)

\* What is known of the change a script works on.
LEMMA AtWork ==
    ASSUME ChangesInv, NEW r \in run
    PROVE  /\ TypeOK /\ r.id \in Used /\ r.id \in Ids /\ row[r.id] \in Change
           /\ r.at \in At(r.id) /\ ChangeInv(r.id)
           /\ row[r.id].status # "queued"
  <1>1. r.id \in Ids /\ r.at \in Stages /\ r = [id |-> r.id, at |-> r.at]
    BY DEF ChangesInv, TypeOK
  <1>2. r.at \in At(r.id) /\ ChangeInv(r.id)
    BY <1>1 DEF At, ChangesInv
  <1>3. r.id \in Used /\ row[r.id].status # "queued"
    BY <1>2 DEF ChangeInv, Begun
  <1> QED BY <1>1, <1>2, <1>3, UsedIds DEF ChangesInv

\* A change that is not begun, asked or undone yet has no other script.
LEMMA EarlyAlone ==
    ASSUME NEW i, ChangeInv(i), At(i) \cap {"start", "guarded", "failing"} # {}
    PROVE  \E at \in {"start", "guarded", "failing"} : At(i) = {at}
  <1> PICK at \in {"start", "guarded", "failing"} : at \in At(i)
    OBVIOUS
  <1>1. row[i].status \in {"sent", "no-answer"}
    BY DEF ChangeInv, BeforeAsking
  <1>2. "undoing" \notin At(i)
    BY <1>1 DEF ChangeInv, UndoAsked
  <1>3. \A a \in At(i) : a = at
    BY <1>2 DEF ChangeInv, OneScript
  <1> QED BY <1>3

\* Once at most an undo is at work for a change, what stands of it is safe, or was
\* confirmed and is there as a whole.
LEMMA FinishedBeside ==
    ASSUME ChangesInv, NEW id \in Used, NEW st, CloudMoved(id, st), ChangeInv(id),
           row[id].status # "queued", st # "queued",
           At(id)' \subseteq {"undoing"},
           "undoing" \in At(id)' => st \in {"undo-sent", "undo-no-answer"},
           Standing(id)' => id \in undo' /\ (Guarded(id)' \/ id \notin boot'),
           Standing(id)' /\ ~Safe(id)' =>
               /\ st \notin Bad
               /\ st = "confirming" => Whole(row[id]) \subseteq pieces'[id] /\ seen'[id] # "differs"
    PROVE  ChangeInv(id)'
  <1>1. /\ id \in Used' /\ row'[id].status = st /\ Whole(row'[id]) = Whole(row[id])
        /\ st \in Undecided => row'[id].reason # "undo_incomplete"
    BY CloudStep DEF ChangesInv
  <1>2. Begun(id)' /\ NotForUndo(id)'
    BY <1>1 DEF Begun, NotForUndo, Undecided
  <1>3. OneScript(id)' /\ BeforeAsking(id)' /\ WhileAsking(id)'
    BY DEF OneScript, BeforeAsking, WhileAsking
  <1>4. UndoAsked(id)' /\ BootGuards(id)' /\ Removable(id)'
    BY <1>1 DEF UndoAsked, BootGuards, Removable
  <1>5. KeptUnheard(id)' /\ StaysIfConfirmed(id)'
    BY <1>1 DEF KeptUnheard, StaysIfConfirmed, Bad
  <1> QED BY <1>2, <1>3, <1>4, <1>5 DEF ChangeInv

LEMMA FailingStep ==
    ASSUME ChangesInv, NEW r \in run, NEW stuck \in SUBSET Stubborn, Failing(r, stuck)
    PROVE  ChangesInv'
  <1> DEFINE id == r.id
  <1>1. /\ r.at = "failing" /\ Undo(id, stuck, TRUE) /\ End(r) /\ boot' = boot /\ rebooter' = rebooter
        /\ ReportState(id, "failed", Why(id, stuck)) /\ Why(id, stuck) \in Reasons
    BY DEF Failing, Why, Reasons
  <1>2. /\ TypeOK /\ id \in Used /\ id \in Ids /\ ChangeInv(id) /\ row[id].status # "queued"
        /\ Removable(id) /\ NotForUndo(id) /\ "failing" \in At(id)
    BY <1>1, AtWork DEF ChangeInv
  <1> HIDE DEF id
  <1>3. At(id) = {"failing"} /\ id \in undo /\ Guarded(id)
    BY <1>2, EarlyAlone DEF ChangeInv, BeforeAsking
  <1>4. PICK st \in {row[id].status, After("failed", row[id].status)} : CloudMoved(id, st)
    BY <1>1, <1>2, ReportMoves DEF States
  <1>5. st # "queued" /\ row'[id].kind = row[id].kind
    BY <1>2, <1>4, CloudStep DEF After
  <1>6. /\ run' \subseteq [id: Ids, at: Stages] /\ At(id)' = {}
        /\ \A i \in Ids \ {id} : At(i)' = At(i)
    BY <1>1, <1>2, <1>3, Ended DEF id
  <1>7. /\ pieces' \in [Ids -> SUBSET Names] /\ undo' \subseteq Ids /\ guard' \subseteq Ids
        /\ \A i \in Ids \ {id} : pieces'[i] = pieces[i] /\ (i \in undo' <=> i \in undo) /\ (i \in guard' <=> i \in guard)
        /\ pieces'[id] \subseteq pieces[id]
        /\ Standing(id)' => id \in undo' /\ guard' = guard
    BY <1>1, <1>2, UndoEffect
  <1>8. Standing(id)' => Guarded(id)'
    BY <1>1, <1>3, <1>5, <1>7 DEF Guarded
  <1>9. ChangeInv(id)'
    BY <1>1, <1>2, <1>4, <1>5, <1>6, <1>7, <1>8, FinishedBeside DEF Safe
  <1>10. \A i \in Ids \ {id} : SameDevice(i)
    BY <1>1, <1>6, <1>7 DEF SameDevice
  <1> QED BY <1>1, <1>2, <1>4, <1>6, <1>7, <1>9, <1>10, Assembled DEF TypeOK

\* What is at work for a change once it asks: itself, and perhaps an undo.
LEMMA LateAlone ==
    ASSUME NEW i, ChangeInv(i), NEW at \in At(i), at \in {"asking", "confirmed"}
    PROVE  At(i) \subseteq {at, "undoing"}
  BY DEF ChangeInv, OneScript

\* The loop gave up: what its undo leaves over is guarded, though not armed.
LEMMA LoseCloudStep ==
    ASSUME ChangesInv, NEW r \in run, NEW stuck \in SUBSET Stubborn, LoseCloud(r, stuck)
    PROVE  ChangesInv'
  <1> DEFINE id == r.id
  <1>1. /\ r.at = "asking" /\ Undo(id, stuck, TRUE) /\ End(r) /\ boot' = boot /\ rebooter' = rebooter \ {id}
        /\ ReportState(id, "reverted", Why(id, stuck)) /\ Why(id, stuck) \in Reasons
    BY DEF LoseCloud, Why, Reasons
  <1>2. /\ TypeOK /\ id \in Used /\ id \in Ids /\ ChangeInv(id) /\ row[id].status # "queued"
        /\ Removable(id) /\ NotForUndo(id) /\ "asking" \in At(id)
    BY <1>1, AtWork DEF ChangeInv
  <1> HIDE DEF id
  <1>3. id \notin boot /\ (Standing(id) => Guarded(id)) /\ At(id) \subseteq {"asking", "undoing"}
    BY <1>2, LateAlone DEF ChangeInv, WhileAsking
  <1>4. PICK st \in {row[id].status, After("reverted", row[id].status)} : CloudMoved(id, st)
    BY <1>1, <1>2, ReportMoves DEF States
  <1>5. st # "queued" /\ (row[id].status \in {"undo-sent", "undo-no-answer"} => st = row[id].status)
    BY <1>2, <1>4 DEF After, Reverts
  <1>6. /\ run' \subseteq [id: Ids, at: Stages] /\ At(id)' \subseteq {"undoing"} /\ At(id)' \subseteq At(id)
        /\ \A i \in Ids \ {id} : At(i)' = At(i)
    BY <1>1, <1>2, <1>3, Ended DEF id
  <1>7. "undoing" \in At(id)' => st \in {"undo-sent", "undo-no-answer"}
    BY <1>2, <1>5, <1>6 DEF ChangeInv, UndoAsked
  <1>8. /\ pieces' \in [Ids -> SUBSET Names] /\ undo' \subseteq Ids /\ guard' \subseteq Ids
        /\ \A i \in Ids \ {id} : pieces'[i] = pieces[i] /\ (i \in undo' <=> i \in undo) /\ (i \in guard' <=> i \in guard)
        /\ Standing(id)' => Standing(id) /\ id \in undo' /\ guard' = guard /\ pieces'[id] \subseteq Stubborn
    BY <1>1, <1>2, UndoEffect
  <1>9. Standing(id)' => LeftOver(id)'
    BY <1>3, <1>8 DEF Guarded, LeftOver
  <1>10. ChangeInv(id)'
    BY <1>1, <1>2, <1>3, <1>4, <1>5, <1>6, <1>7, <1>8, <1>9, FinishedBeside DEF Safe
  <1>11. \A i \in Ids \ {id} : SameDevice(i)
    BY <1>1, <1>6, <1>8 DEF SameDevice
  <1>12. rebooter' \subseteq Ids /\ boot' \subseteq Ids
    BY <1>1, <1>2 DEF TypeOK
  <1> QED BY <1>2, <1>4, <1>6, <1>8, <1>10, <1>11, <1>12, Assembled

LEMMA KeepStep == ASSUME ChangesInv, NEW r \in run, Keep(r) PROVE ChangesInv'
  <1> DEFINE id == r.id
  <1>1. /\ r.at = "confirmed" /\ End(r) /\ boot' = boot /\ pieces' = pieces /\ undo' = undo
        /\ guard' = guard \ {id} /\ rebooter' = rebooter \ {id} /\ ReportState(id, "kept", "none")
    BY DEF Keep
  <1>2. /\ TypeOK /\ id \in Used /\ id \in Ids /\ ChangeInv(id) /\ row[id].status # "queued"
        /\ Removable(id) /\ NotForUndo(id) /\ "confirmed" \in At(id)
    BY <1>1, AtWork DEF ChangeInv
  <1> HIDE DEF id
  <1>3. /\ id \notin boot /\ At(id) \subseteq {"confirmed", "undoing"}
        /\ row[id].status = "confirming" => Whole(row[id]) \subseteq pieces[id] /\ seen[id] # "differs"
        /\ Standing(id) => row[id].status \notin Bad
    BY <1>2, LateAlone DEF ChangeInv, WhileAsking, Bad
  <1>4. PICK st \in {row[id].status, After("kept", row[id].status)} : CloudMoved(id, st)
    BY <1>1, <1>2, ReportMoves DEF States, Reasons
  <1>5. /\ st # "queued" /\ (row[id].status \in {"undo-sent", "undo-no-answer"} => st = row[id].status)
        /\ (row[id].status \notin Bad => st \notin Bad) /\ (st = "confirming" => row[id].status = "confirming")
    BY <1>2, <1>4 DEF After, Bad
  <1>6. /\ run' \subseteq [id: Ids, at: Stages] /\ At(id)' \subseteq {"undoing"} /\ At(id)' \subseteq At(id)
        /\ \A i \in Ids \ {id} : At(i)' = At(i)
    BY <1>1, <1>2, <1>3, Ended DEF id
  <1>7. "undoing" \in At(id)' => st \in {"undo-sent", "undo-no-answer"}
    BY <1>2, <1>5, <1>6 DEF ChangeInv, UndoAsked
  <1>8. Standing(id)' <=> Standing(id)
    BY <1>1, SameStanding
  <1>9. seen'[id] \in {seen[id], "nothing"}
    BY <1>2, <1>4, CloudStep
  <1>10. ChangeInv(id)'
    <2>1. Standing(id)' => id \in undo' /\ id \notin boot'
      BY <1>1, <1>2, <1>3, <1>8 DEF Removable
    <2>2. Standing(id)' => st \notin Bad
      BY <1>3, <1>5, <1>8
    <2>3. st = "confirming" => Whole(row[id]) \subseteq pieces'[id] /\ seen'[id] # "differs"
      BY <1>1, <1>3, <1>5, <1>9
    <2> QED BY <1>2, <1>4, <1>5, <1>6, <1>7, <2>1, <2>2, <2>3, FinishedBeside
  <1>11. \A i \in Ids \ {id} : SameDevice(i)
    BY <1>1, <1>6 DEF SameDevice
  <1>12. /\ rebooter' \subseteq Ids /\ boot' \subseteq Ids /\ undo' \subseteq Ids /\ guard' \subseteq Ids
         /\ pieces' \in [Ids -> SUBSET Names]
    BY <1>1, <1>2 DEF TypeOK, Names
  <1> QED BY <1>2, <1>4, <1>6, <1>10, <1>11, <1>12, Assembled

\* An owner's undo: "undone" is only said of what is gone.
LEMMA RunUndoStep ==
    ASSUME ChangesInv, NEW r \in run, NEW stuck \in SUBSET Stubborn, RunUndo(r, stuck)
    PROVE  ChangesInv'
  <1> DEFINE id == r.id
  <1>1. /\ r.at = "undoing" /\ Undo(id, stuck, TRUE) /\ End(r) /\ boot' = boot
        /\ rebooter' = IF Done(id, stuck) THEN rebooter \ {id} ELSE rebooter
        /\ ReportState(id, IF Done(id, stuck) THEN "undone" ELSE "undo-failed", "other")
    BY DEF RunUndo
  <1>2. /\ TypeOK /\ id \in Used /\ id \in Ids /\ ChangeInv(id)
        /\ Removable(id) /\ NotForUndo(id) /\ "undoing" \in At(id)
        /\ row[id].status \in {"undo-sent", "undo-no-answer"}
    BY <1>1, AtWork DEF ChangeInv, UndoAsked
  <1> HIDE DEF id
  <1>3. At(id) \subseteq {"asking", "confirmed", "undoing"}
    <2>1. At(id) \subseteq Stages
      BY DEF At
    <2>2. At(id) \cap {"start", "guarded", "failing"} = {}
      BY <1>2 DEF ChangeInv, BeforeAsking
    <2> QED BY <2>1, <2>2 DEF Stages
  <1>4. PICK st \in {row[id].status, "undone", "applied"} :
           CloudMoved(id, st) /\ (st = "undone" => Done(id, stuck))
    <2>1. CASE Done(id, stuck)
      <3>1. PICK st \in {row[id].status, After("undone", row[id].status)} : CloudMoved(id, st)
        BY <1>1, <1>2, <2>1, ReportMoves DEF States, Reasons
      <3> QED BY <1>2, <2>1, <3>1 DEF After
    <2>2. CASE ~Done(id, stuck)
      <3>1. PICK st \in {row[id].status, After("undo-failed", row[id].status)} : CloudMoved(id, st)
        BY <1>1, <1>2, <2>2, ReportMoves DEF States, Reasons
      <3> QED BY <1>2, <2>2, <3>1 DEF After
    <2> QED BY <2>1, <2>2
  <1>5. /\ run' \subseteq [id: Ids, at: Stages] /\ At(id)' = At(id) \ {"undoing"}
        /\ \A i \in Ids \ {id} : At(i)' = At(i)
    BY <1>1, <1>2, Ended DEF id
  <1>6. /\ pieces' \in [Ids -> SUBSET Names] /\ undo' \subseteq Ids /\ guard' \subseteq Ids
        /\ \A i \in Ids \ {id} : pieces'[i] = pieces[i] /\ (i \in undo' <=> i \in undo) /\ (i \in guard' <=> i \in guard)
        /\ undo' \subseteq undo /\ guard' \subseteq guard
        /\ Standing(id)' => Standing(id) /\ id \in undo' /\ ~Done(id, stuck) /\ guard' = guard
    BY <1>1, <1>2, UndoEffect
  <1>7. /\ id \in Used' /\ row'[id].status = st /\ row'[id].kind = row[id].kind
        /\ st \in Undecided => row'[id].reason # "undo_incomplete"
    BY <1>2, <1>4, CloudStep
  <1>8. /\ Standing(id)' /\ Guarded(id) => Guarded(id)'
        /\ Standing(id)' => st \notin Bad
        /\ st \notin {"queued", "sent", "confirming"}
    BY <1>1, <1>2, <1>4, <1>6, <1>7 DEF Guarded, Bad
  <1>9. ChangeInv(id)'
    <2>1. Begun(id)' /\ NotForUndo(id)'
      BY <1>7, <1>8 DEF Begun, NotForUndo, Undecided
    <2>2. OneScript(id)' /\ BeforeAsking(id)' /\ UndoAsked(id)'
      BY <1>2, <1>3, <1>5 DEF ChangeInv, OneScript, BeforeAsking, UndoAsked
    <2>3. WhileAsking(id)'
      BY <1>1, <1>2, <1>5, <1>6, <1>7, <1>8 DEF ChangeInv, WhileAsking, Bad
    <2>4. BootGuards(id)' /\ Removable(id)'
      BY <1>1, <1>2, <1>6, <1>8 DEF ChangeInv, BootGuards, Removable
    <2>5. KeptUnheard(id)' /\ StaysIfConfirmed(id)'
      BY <1>7, <1>8 DEF KeptUnheard, StaysIfConfirmed, Bad
    <2> QED BY <2>1, <2>2, <2>3, <2>4, <2>5 DEF ChangeInv
  <1>10. \A i \in Ids \ {id} : SameDevice(i)
    BY <1>1, <1>5, <1>6 DEF SameDevice
  <1>11. rebooter' \subseteq Ids /\ boot' \subseteq Ids
    BY <1>1, <1>2 DEF TypeOK
  <1> QED BY <1>2, <1>4, <1>5, <1>6, <1>9, <1>10, <1>11, Assembled

\* A guard that runs after a restart keeps itself and its script for what it
\* leaves over.
LEMMA AfterRebootStep ==
    ASSUME ChangesInv, NEW id \in Ids, NEW stuck \in SUBSET Stubborn, AfterReboot(id, stuck)
    PROVE  ChangesInv'
  <1>1. /\ id \in boot /\ boot' = boot \ {id} /\ run' = run
        /\ Undo(id, stuck, ~(row[id].kind = "rename"))
        /\ rebooter' \in {rebooter, rebooter \ {id}}
        /\ ~Done(id, stuck) => rebooter' = rebooter
    BY DEF AfterReboot
  <1>2. /\ TypeOK /\ ChangeInv(id) /\ id \in Used /\ row[id].status # "queued"
        /\ Removable(id) /\ NotForUndo(id) /\ (Standing(id) => Guarded(id))
    BY <1>1 DEF ChangesInv, ChangeInv, Begun, BootGuards
  <1>3. /\ At(id) \subseteq {"undoing"}
        /\ "undoing" \in At(id) => row[id].status \in {"undo-sent", "undo-no-answer"}
    <2>1. At(id) \subseteq Stages
      BY DEF At
    <2> QED BY <1>1, <1>2, <2>1 DEF ChangeInv, BeforeAsking, WhileAsking, UndoAsked, Stages
  <1>4. PICK st \in {row[id].status, After("reverted", row[id].status)} : CloudMoved(id, st)
    <2>1. CASE row[id].kind = "rename"
      <3>1. UNCHANGED cloudVars
        BY <2>1 DEF AfterReboot
      <3> QED BY <1>2, <3>1, CloudUnmoved
    <2>2. CASE row[id].kind # "rename"
      <3>1. ReportState(id, "reverted", Why(id, stuck)) /\ Why(id, stuck) \in Reasons
        BY <2>2 DEF AfterReboot, Why, Reasons
      <3> QED BY <1>2, <3>1, ReportMoves DEF States
    <2> QED BY <2>1, <2>2
  <1>5. st # "queued" /\ (row[id].status \in {"undo-sent", "undo-no-answer"} => st = row[id].status)
    BY <1>2, <1>4 DEF After, Reverts
  <1>6. /\ pieces' \in [Ids -> SUBSET Names] /\ undo' \subseteq Ids /\ guard' \subseteq Ids
        /\ \A i \in Ids \ {id} : pieces'[i] = pieces[i] /\ (i \in undo' <=> i \in undo) /\ (i \in guard' <=> i \in guard)
        /\ Standing(id)' => Standing(id) /\ id \in undo'
        /\ Done(id, stuck) => ~Standing(id)'
        /\ ~Done(id, stuck) => guard' = guard
    BY <1>1, <1>2, UndoEffect
  <1>7. row'[id].kind = row[id].kind
    BY <1>2, <1>4, CloudStep
  <1>8. Standing(id)' => Guarded(id)'
    BY <1>1, <1>2, <1>6, <1>7 DEF Guarded
  <1>9. At(id)' = At(id) /\ \A i \in Ids \ {id} : At(i)' = At(i)
    BY <1>1 DEF At, Stages
  <1>10. ChangeInv(id)'
    BY <1>2, <1>3, <1>4, <1>5, <1>6, <1>8, <1>9, FinishedBeside DEF Safe
  <1>11. \A i \in Ids \ {id} : SameDevice(i)
    BY <1>1, <1>6, <1>9 DEF SameDevice
  <1>12. rebooter' \subseteq Ids /\ boot' \subseteq Ids /\ run' \subseteq [id: Ids, at: Stages]
    BY <1>1, <1>2 DEF TypeOK
  <1> QED BY <1>2, <1>4, <1>6, <1>10, <1>11, <1>12, Assembled

LEMMA PreflightStep == ASSUME ChangesInv, NEW r \in run, Preflight(r) PROVE ChangesInv'
  <1> DEFINE id == r.id
  <1>1. r.at = "start" /\ pieces' = pieces /\ boot' = boot
    BY DEF Preflight
  <1>2. /\ TypeOK /\ id \in Used /\ id \in Ids /\ ChangeInv(id) /\ row[id].status # "queued"
        /\ Removable(id) /\ NotForUndo(id) /\ "start" \in At(id)
    BY <1>1, AtWork DEF ChangeInv
  <1>3. /\ id \notin undo \cup boot /\ ~Standing(id) /\ At(id) = {"start"}
        /\ row[id].status \in {"sent", "no-answer"}
    BY <1>2, EarlyAlone DEF ChangeInv, BeforeAsking, Removable
  <1>4. ~Standing(id)'
    BY <1>1, <1>3, SameStanding
  <1>5. pieces' \in [Ids -> SUBSET Names] /\ boot' \subseteq Ids
    BY <1>1, <1>2 DEF TypeOK, Names
  <1>6. CASE /\ undo' = undo \cup {id} /\ guard' = guard \cup {id}
             /\ rebooter' = IF row[id].kind = "rename" THEN rebooter ELSE rebooter \cup {id}
             /\ Go(r, "guarded") /\ UNCHANGED <<cloudVars, spent>>
    <2>1. CloudMoved(id, row[id].status)
      BY <1>2, <1>6, CloudUnmoved
    <2>2. /\ run' \subseteq [id: Ids, at: Stages] /\ At(id)' = {"guarded"}
          /\ \A i \in Ids \ {id} : At(i)' = At(i)
      BY <1>1, <1>2, <1>3, <1>6, WentOn DEF Stages
    <2> HIDE DEF id
    <2>3. row' = row /\ Used' = Used /\ Guarded(id)'
      BY <1>6 DEF cloudVars, Guarded, Used
    <2>4. ChangeInv(id)'
      <3>1. Begun(id)' /\ NotForUndo(id)' /\ OneScript(id)'
        BY <1>2, <2>2, <2>3 DEF Begun, NotForUndo, OneScript
      <3>2. BeforeAsking(id)' /\ WhileAsking(id)' /\ UndoAsked(id)'
        BY <1>1, <1>3, <1>6, <2>2, <2>3 DEF BeforeAsking, WhileAsking, UndoAsked
      <3>3. BootGuards(id)' /\ KeptUnheard(id)' /\ StaysIfConfirmed(id)' /\ Removable(id)'
        BY <1>4 DEF BootGuards, KeptUnheard, StaysIfConfirmed, Removable
      <3> QED BY <3>1, <3>2, <3>3 DEF ChangeInv
    <2>5. \A i \in Ids \ {id} : SameDevice(i)
      BY <1>1, <1>6, <2>2 DEF SameDevice
    <2>6. undo' \subseteq Ids /\ guard' \subseteq Ids /\ rebooter' \subseteq Ids
      BY <1>2, <1>6 DEF TypeOK
    <2> QED BY <1>2, <1>5, <2>1, <2>2, <2>4, <2>5, <2>6, Assembled
  <1>7. CASE ReportState(id, "failed", "other") /\ End(r) /\ UNCHANGED <<undo, guard, rebooter>>
    <2>1. PICK st \in {row[id].status, After("failed", row[id].status)} : CloudMoved(id, st)
      BY <1>2, <1>7, ReportMoves DEF States, Reasons
    <2>2. st # "queued"
      BY <1>2, <2>1 DEF After
    <2>3. /\ run' \subseteq [id: Ids, at: Stages] /\ At(id)' = {}
          /\ \A i \in Ids \ {id} : At(i)' = At(i)
      BY <1>1, <1>2, <1>3, <1>7, Ended
    <2> HIDE DEF id
    <2>4. ChangeInv(id)'
      BY <1>2, <1>4, <2>1, <2>2, <2>3, FinishedBeside
    <2>5. \A i \in Ids \ {id} : SameDevice(i)
      BY <1>1, <1>7, <2>3 DEF SameDevice
    <2>6. undo' \subseteq Ids /\ guard' \subseteq Ids /\ rebooter' \subseteq Ids
      BY <1>2, <1>7 DEF TypeOK
    <2> QED BY <1>2, <1>5, <2>1, <2>3, <2>4, <2>5, <2>6, Assembled
  <1> QED BY <1>6, <1>7 DEF Preflight

LEMMA BodyNames ==
    ASSUME NEW c \in Change
    PROVE  Body(c) \in Seq(Names)
  <1>1. /\ <<"name">> \in Seq(Names) /\ <<"interface">> \in Seq(Names) /\ <<"server">> \in Seq(Names)
        /\ HotspotBody \in Seq(Names) /\ AdoptBody \in Seq(Names) /\ RadioBody \in Seq(Names)
        /\ <<>> \in Seq(Names)
    BY DEF HotspotBody, AdoptBody, RadioBody, Names
  <1>2. \A p, q \in Seq(Names) : p \o q \in Seq(Names)
    OBVIOUS
  <1> QED BY <1>1, <1>2 DEF Body

LEMMA ApplyBodyStep == ASSUME ChangesInv, NEW r \in run, NEW n, ApplyBody(r, n) PROVE ChangesInv'
  <1> DEFINE id == r.id
             body == Body(row[id])
             put == {body[i] : i \in 1..n}
             at == IF n = Len(body) THEN "asking" ELSE "failing"
  <1>1. /\ r.at = "guarded" /\ n \in 0..Len(body) /\ pieces' = [pieces EXCEPT ![id] = put]
        /\ Go(r, at) /\ UNCHANGED <<cloudVars, undo, guard, rebooter, boot>>
    BY DEF ApplyBody
  <1>2. /\ TypeOK /\ id \in Used /\ id \in Ids /\ ChangeInv(id) /\ row[id].status # "queued"
        /\ row[id] \in Change /\ NotForUndo(id) /\ "guarded" \in At(id)
    BY <1>1, AtWork DEF ChangeInv
  <1>3. /\ id \in undo /\ Guarded(id) /\ id \notin boot /\ At(id) = {"guarded"}
        /\ row[id].status \in {"sent", "no-answer"}
    BY <1>2, EarlyAlone DEF ChangeInv, BeforeAsking
  <1>4. body \in Seq(Names) /\ put \in SUBSET Names /\ (at = "asking" => put = Whole(row[id]))
    <2>1. body \in Seq(Names)
      BY <1>2, BodyNames
    <2> QED BY <1>1, <2>1 DEF Whole
  <1>5. CloudMoved(id, row[id].status)
    BY <1>1, <1>2, CloudUnmoved
  <1>6. /\ run' \subseteq [id: Ids, at: Stages] /\ At(id)' = {at}
        /\ \A i \in Ids \ {id} : At(i)' = At(i)
    BY <1>1, <1>2, <1>3, WentOn DEF Stages
  <1>7. at \in {"asking", "failing"}
    OBVIOUS
  <1> HIDE DEF id, body, put, at
  <1>8. /\ pieces' \in [Ids -> SUBSET Names] /\ pieces'[id] = put
        /\ \A i \in Ids \ {id} : pieces'[i] = pieces[i]
    BY <1>1, <1>2, <1>4 DEF TypeOK, Names
  <1>9. /\ row' = row /\ Used' = Used /\ undo' = undo /\ guard' = guard /\ boot' = boot
        /\ rebooter' = rebooter /\ Guarded(id)'
    BY <1>1, <1>3 DEF cloudVars, Used, Guarded
  <1>10. ChangeInv(id)'
    <2>1. Begun(id)' /\ NotForUndo(id)' /\ OneScript(id)'
      BY <1>2, <1>6, <1>9 DEF Begun, NotForUndo, OneScript
    <2>2. BeforeAsking(id)' /\ UndoAsked(id)'
      BY <1>3, <1>6, <1>7, <1>9 DEF BeforeAsking, UndoAsked
    <2>3. WhileAsking(id)'
      BY <1>3, <1>4, <1>6, <1>7, <1>8, <1>9 DEF WhileAsking
    <2>4. BootGuards(id)' /\ KeptUnheard(id)' /\ StaysIfConfirmed(id)' /\ Removable(id)'
      BY <1>3, <1>9 DEF BootGuards, KeptUnheard, StaysIfConfirmed, Removable, Safe
    <2> QED BY <2>1, <2>2, <2>3, <2>4 DEF ChangeInv
  <1>11. \A i \in Ids \ {id} : SameDevice(i)
    BY <1>6, <1>8, <1>9 DEF SameDevice
  <1>12. undo' \subseteq Ids /\ guard' \subseteq Ids /\ rebooter' \subseteq Ids /\ boot' \subseteq Ids
    BY <1>2, <1>9 DEF TypeOK
  <1> QED BY <1>2, <1>5, <1>6, <1>8, <1>10, <1>11, <1>12, Assembled

LEMMA AskConfirmStep == ASSUME ChangesInv, NEW r \in run, AskConfirm(r) PROVE ChangesInv'
  <1> DEFINE id == r.id
             s == row[id].status
             st == After("applied", s)
  <1>1. /\ r.at = "asking" /\ Heard(id, "applied", "none")
        /\ run' = run \/ (Confirms(id) /\ Go(r, "confirmed"))
        /\ UNCHANGED <<pieces, undo, guard, rebooter, boot>>
    BY DEF AskConfirm
  <1>2. /\ TypeOK /\ id \in Used /\ id \in Ids /\ ChangeInv(id) /\ s # "queued"
        /\ NotForUndo(id) /\ "asking" \in At(id)
    BY <1>1, AtWork DEF ChangeInv
  <1>3. CloudMoved(id, st)
    BY <1>1, <1>2, HeardMoves DEF States, Reasons
  <1>4. /\ st = s \/ (s = "sent" /\ st = "confirming")
        /\ st # "sent"
        /\ Confirms(id) => st = "confirming"
    BY DEF After, Confirms
  <1>5. /\ run' \subseteq [id: Ids, at: Stages]
        /\ \/ At(id)' = At(id)
           \/ At(id)' = (At(id) \ {"asking"}) \cup {"confirmed"} /\ Confirms(id)
        /\ \A i \in Ids \ {id} : At(i)' = At(i)
    <2>1. CASE run' = run
      BY <1>2, <2>1 DEF At, TypeOK, Stages
    <2>2. CASE Confirms(id) /\ Go(r, "confirmed")
      BY <1>1, <1>2, <2>2, WentOn DEF Stages
    <2> QED BY <1>1, <2>1, <2>2
  <1> HIDE DEF id, st, s
  <1>6. /\ Used' = Used /\ row'[id].status = st /\ row'[id].kind = row[id].kind
        /\ Whole(row'[id]) = Whole(row[id])
        /\ seen'[id] \in {seen[id], "nothing"} /\ (st # s => seen'[id] = "nothing")
        /\ st \in Undecided => row'[id].reason # "undo_incomplete"
    BY <1>2, <1>3, CloudStep DEF s
  <1>7. /\ Standing(id)' <=> Standing(id)
        /\ Guarded(id)' <=> Guarded(id)
        /\ Safe(id)' <=> Safe(id)
    BY <1>1, <1>6, SameStanding, SameGuard
  <1>8. /\ id \notin boot /\ (Standing(id) => Guarded(id)) /\ At(id) \subseteq {"asking", "undoing"}
        /\ s \in {"sent", "confirming"} => Whole(row[id]) \subseteq pieces[id]
        /\ s = "confirming" => seen[id] # "differs"
    BY <1>2, LateAlone DEF ChangeInv, WhileAsking, s
  <1>9. ChangeInv(id)'
    <2>1. Begun(id)' /\ NotForUndo(id)'
      BY <1>2, <1>4, <1>6 DEF Begun, NotForUndo
    <2>2. OneScript(id)' /\ BeforeAsking(id)'
      BY <1>5, <1>8 DEF OneScript, BeforeAsking
    <2>3. UndoAsked(id)'
      BY <1>2, <1>4, <1>5, <1>6 DEF ChangeInv, UndoAsked, s
    <2>4. WhileAsking(id)'
      BY <1>1, <1>4, <1>5, <1>6, <1>7, <1>8 DEF WhileAsking
    <2>5. BootGuards(id)' /\ Removable(id)' /\ KeptUnheard(id)' /\ StaysIfConfirmed(id)'
      BY <1>1, <1>2, <1>7, <1>8 DEF ChangeInv, BootGuards, Removable, KeptUnheard, StaysIfConfirmed, Safe
    <2> QED BY <2>1, <2>2, <2>3, <2>4, <2>5 DEF ChangeInv
  <1>10. \A i \in Ids \ {id} : SameDevice(i)
    BY <1>1, <1>5 DEF SameDevice
  <1>11. /\ undo' \subseteq Ids /\ guard' \subseteq Ids /\ rebooter' \subseteq Ids /\ boot' \subseteq Ids
         /\ pieces' \in [Ids -> SUBSET Names]
    BY <1>1, <1>2 DEF TypeOK, Names
  <1> QED BY <1>2, <1>3, <1>5, <1>9, <1>10, <1>11, Assembled

LEMMA RestartStep == ASSUME ChangesInv, Restart PROVE ChangesInv'
  <1>1. /\ UNCHANGED <<cloudVars, pieces, undo, guard, rebooter>>
        /\ run' = {} /\ boot' = {i \in guard : Guarded(i)} /\ Ids' = Ids /\ Used' = Used /\ row' = row
        /\ seen' = seen
    BY DEF Restart, cloudVars, Ids, Used
  <1>2. TypeOK'
    BY <1>1 DEF ChangesInv, TypeOK, cloudVars
  <1>3. ASSUME NEW i \in Ids PROVE ChangeInv(i)'
    <2>1. ChangeInv(i) /\ At(i)' = {}
      BY <1>1 DEF ChangesInv, At
    <2>2. /\ Standing(i)' <=> Standing(i)
          /\ Guarded(i)' <=> Guarded(i)
          /\ Safe(i)' <=> Safe(i)
      BY <1>1, SameStanding, SameGuard
    <2>3. Begun(i)' /\ NotForUndo(i)'
      BY <1>1, <2>1 DEF ChangeInv, Begun, NotForUndo
    <2>4. OneScript(i)' /\ BeforeAsking(i)' /\ WhileAsking(i)' /\ UndoAsked(i)'
      BY <2>1 DEF OneScript, BeforeAsking, WhileAsking, UndoAsked
    <2>5. BootGuards(i)' /\ Removable(i)' /\ KeptUnheard(i)' /\ StaysIfConfirmed(i)'
      BY <1>1, <2>1, <2>2 DEF ChangeInv, BootGuards, Removable, KeptUnheard, StaysIfConfirmed
    <2> QED BY <2>3, <2>4, <2>5 DEF ChangeInv
  <1> QED BY <1>1, <1>2, <1>3 DEF ChangesInv

-----------------------------------------------------------------------------
(* The cloud's actions *)

LEMMA Least ==
    ASSUME NEW T, T \subseteq Nat, T # {}
    PROVE  \E x \in T : \A y \in T : x <= y
  <1> DEFINE R == {ss \in Nat \X Nat : ss[1] < ss[2]}
  <1>1. IsWellFoundedOn(R, Nat)
    BY NatLessThanWellFounded DEF OpToRel
  <1>2. \A x, y \in Nat : <<y, x>> \in R <=> y < x
    OBVIOUS
  <1> HIDE DEF R
  <1>3. \E x \in T : \A y \in T : ~(<<y, x>> \in R)
    BY <1>1, WFMin
  <1>4. PICK x \in T : \A y \in T : ~(<<y, x>> \in R)
    BY <1>3
  <1>5. \A y \in T : x <= y
    <2> TAKE y \in T
    <2>1. y \in Nat /\ x \in Nat
      OBVIOUS
    <2>2. ~(<<y, x>> \in R)
      BY <1>4
    <2>3. ~(y < x)
      BY <1>2, <2>1, <2>2
    <2> QED BY <2>1, <2>3
  <1> QED BY <1>5

\* A row moves by the cloud alone.  What its new status must respect:
Fits(id, st) ==
    /\ st # "queued" /\ st # "sent"
    /\ st = "confirming" => row[id].status = "confirming"
    /\ Standing(id) /\ ~Safe(id) => st \notin Bad
    /\ At(id) # {} => row[id].status # "queued"
    /\ "undoing" \in At(id) => st \in {"undo-sent", "undo-no-answer"}
    /\ At(id) \cap {"start", "guarded", "failing"} # {} => st = "no-answer"
    /\ "confirmed" \in At(id) /\ Standing(id) => st \notin Bad

LEMMA RowStep ==
    ASSUME ChangesInv, NEW id \in Used, NEW st, CloudMoved(id, st), Fits(id, st), UNCHANGED deviceVars
    PROVE  ChangesInv'
  <1>1. /\ TypeOK /\ id \in Ids /\ ChangeInv(id)
    BY UsedIds DEF ChangesInv
  <1>2. /\ Used' = Used /\ row'[id].status = st /\ row'[id].kind = row[id].kind
        /\ Whole(row'[id]) = Whole(row[id])
        /\ seen'[id] \in {seen[id], "nothing"}
        /\ st \in Undecided => row'[id].reason # "undo_incomplete"
    BY <1>1, CloudStep
  <1>3. /\ pieces' = pieces /\ undo' = undo /\ guard' = guard /\ boot' = boot /\ rebooter' = rebooter
        /\ run' = run /\ \A i : At(i)' = At(i)
    BY DEF deviceVars, At, Stages
  <1>4. /\ Standing(id)' <=> Standing(id)
        /\ Guarded(id)' <=> Guarded(id)
        /\ Safe(id)' <=> Safe(id)
    BY <1>2, <1>3, SameStanding, SameGuard
  <1>5. ChangeInv(id)'
    <2>1. Begun(id)' /\ NotForUndo(id)' /\ OneScript(id)' /\ UndoAsked(id)'
      BY <1>1, <1>2, <1>3 DEF ChangeInv, Begun, NotForUndo, OneScript, UndoAsked, Fits
    <2>2. BeforeAsking(id)'
      BY <1>1, <1>2, <1>3, <1>4 DEF ChangeInv, BeforeAsking, Fits
    <2>3. WhileAsking(id)'
      BY <1>1, <1>2, <1>3, <1>4 DEF ChangeInv, WhileAsking, Fits, Bad
    <2>4. BootGuards(id)' /\ Removable(id)' /\ KeptUnheard(id)' /\ StaysIfConfirmed(id)'
      BY <1>1, <1>2, <1>3, <1>4 DEF ChangeInv, BootGuards, Removable, KeptUnheard, StaysIfConfirmed, Fits
    <2> QED BY <2>1, <2>2, <2>3, <2>4 DEF ChangeInv
  <1>6. \A i \in Ids \ {id} : SameDevice(i)
    BY <1>3 DEF SameDevice
  <1>7. /\ undo' \subseteq Ids /\ guard' \subseteq Ids /\ rebooter' \subseteq Ids /\ boot' \subseteq Ids
        /\ pieces' \in [Ids -> SUBSET Names] /\ run' \subseteq [id: Ids, at: Stages]
    BY <1>1, <1>3 DEF TypeOK, Names
  <1> QED BY <1>1, <1>5, <1>6, <1>7, Assembled

LEMMA SettleSilentStep == ASSUME ChangesInv, NEW id \in Ids, SettleSilent(id) PROVE ChangesInv'
  <1>1. /\ TypeOK /\ id \in Used /\ ChangeInv(id) /\ UNCHANGED deviceVars
        /\ row[id].status \in {"sent", "confirming", "undo-sent"}
        /\ planSaved' = planSaved /\ tool' = tool
    BY DEF SettleSilent, ChangesInv, InFlight
  <1>2. seen' = [seen EXCEPT ![id] = "nothing"] /\ age' = 0
    BY DEF SettleSilent, Stamp
  <1>3. PICK st \in Statuses : Moved(id, st) /\ Fits(id, st)
    <2>1. CASE row[id].status = "undo-sent"
      <3>1. row' = Settled(id, "undo-no-answer", "other")
        BY <2>1 DEF SettleSilent
      <3>2. Moved(id, "undo-no-answer")
        BY <1>1, <3>1, SettledMoves DEF Statuses, Reasons
      <3>3. Fits(id, "undo-no-answer")
        BY <1>1, <2>1 DEF Fits, ChangeInv, BeforeAsking, Bad
      <3> QED BY <3>2, <3>3 DEF Statuses
    <2>2. CASE row[id].status = "sent"
      <3>1. row' = CalledOff(id, "no-answer", "other")
        BY <2>2 DEF SettleSilent
      <3>2. Moved(id, "no-answer")
        BY <1>1, <3>1, CalledOffMoves DEF Statuses, Reasons
      <3>3. Fits(id, "no-answer")
        BY <1>1, <2>2 DEF Fits, ChangeInv, UndoAsked, Bad
      <3> QED BY <3>2, <3>3 DEF Statuses
    <2>3. CASE row[id].status = "confirming"
      <3>1. /\ "undoing" \notin At(id) /\ At(id) \cap {"start", "guarded", "failing"} = {}
            /\ Standing(id) /\ ~Safe(id) => seen[id] # "differs"
            /\ "confirmed" \in At(id) => seen[id] # "differs"
        BY <1>1, <2>3 DEF ChangeInv, UndoAsked, BeforeAsking, WhileAsking, KeptUnheard
      <3>2. CASE row' = Settled(id, "verified", "none")
        <4>1. Moved(id, "verified")
          BY <1>1, <3>2, SettledMoves DEF Statuses, Live, Reasons
        <4> QED BY <2>3, <3>1, <4>1 DEF Fits, Statuses, Live, Bad
      <3>3. CASE row' = CalledOff(id, "no-answer", "other")
        <4>1. Moved(id, "no-answer")
          BY <1>1, <3>3, CalledOffMoves DEF Statuses, Reasons
        <4> QED BY <2>3, <3>1, <4>1 DEF Fits, Statuses, Bad
      <3>4. CASE seen[id] \notin {"nothing", "match"} /\ row' = CalledOff(id, "reverted", "other")
        <4>1. seen[id] = "differs"
          BY <1>1, <3>4 DEF TypeOK
        <4>2. Moved(id, "reverted")
          BY <1>1, <3>4, CalledOffMoves DEF Statuses, Reasons
        <4> QED BY <2>3, <3>1, <4>1, <4>2 DEF Fits, Statuses
      <3> QED BY <2>3, <3>2, <3>3, <3>4 DEF SettleSilent
    <2> QED BY <1>1, <2>1, <2>2, <2>3
  <1>4. CloudMoved(id, st)
    BY <1>1, <1>2, <1>3 DEF CloudMoved, SeenAnew, TypeOK
  <1> QED BY <1>1, <1>3, <1>4, RowStep

LEMMA CannotBuildStep == ASSUME ChangesInv, NEW id \in Used, CannotBuild(id) PROVE ChangesInv'
  <1>1. /\ TypeOK /\ id \in Ids /\ ChangeInv(id) /\ row[id].status = "queued"
        /\ row' = CalledOff(id, "failed", "other")
        /\ UNCHANGED deviceVars /\ planSaved' = planSaved /\ tool' = tool
        /\ seen' = [seen EXCEPT ![id] = "nothing"] /\ age' = 0
    BY UsedIds DEF CannotBuild, ChangesInv, Stamp
  <1>2. ~Standing(id) /\ At(id) = {}
    BY <1>1 DEF ChangeInv, Begun, Removable
  <1>3. Moved(id, "failed")
    BY <1>1, CalledOffMoves DEF Statuses, Reasons
  <1>4. CloudMoved(id, "failed") /\ Fits(id, "failed")
    BY <1>1, <1>2, <1>3 DEF CloudMoved, SeenAnew, TypeOK, Fits
  <1> QED BY <1>1, <1>4, RowStep

LEMMA QueueUndoStep == ASSUME ChangesInv, NEW id \in Ids, QueueUndo(id) PROVE ChangesInv'
  <1>1. /\ TypeOK /\ id \in Used /\ ChangeInv(id) /\ row' = Settled(id, "undo-queued", "none")
        /\ UNCHANGED deviceVars /\ planSaved' = planSaved /\ tool' = tool /\ age' = age
        /\ seen' = [seen EXCEPT ![id] = "nothing"]
        /\ row[id].status \notin Active
        /\ row[id].status \in Live \/ row[id].reason = "undo_incomplete"
    BY DEF QueueUndo, ChangesInv, Settled, HasActive, MayUndo
  <1>2. row[id].status \notin Undecided
    BY <1>1 DEF ChangeInv, NotForUndo, Live, Undecided
  <1>3. At(id) \cap {"undoing", "start", "guarded", "failing"} = {}
    BY <1>1, <1>2 DEF ChangeInv, UndoAsked, BeforeAsking, Undecided
  <1>4. Moved(id, "undo-queued")
    BY <1>1, SettledMoves DEF Statuses, Active, Reasons
  <1>5. CloudMoved(id, "undo-queued")
    BY <1>1, <1>4 DEF CloudMoved, SeenAnew, TypeOK
  <1>6. Fits(id, "undo-queued")
    BY <1>2, <1>3 DEF Fits, Undecided, Bad
  <1> QED BY <1>1, <1>5, <1>6, RowStep

LEMMA SendChangeStep == ASSUME ChangesInv, SendChange PROVE ChangesInv'
  <1>1. \E i \in Waiting : \A j \in Waiting : i <= j
    <2>1. Waiting \subseteq Nat /\ Waiting # {}
      BY UsedIds DEF SendChange, ChangesInv, Waiting, Ids
    <2> QED BY <2>1, Least
  <1>2. PICK id \in Waiting : id = CHOOSE i \in Waiting : \A j \in Waiting : i <= j
    BY <1>1
  <1> DEFINE undoing == row[id].status = "undo-queued"
             st == IF undoing THEN "undo-sent" ELSE "sent"
             at == IF undoing THEN "undoing" ELSE "start"
  <1>3. /\ TypeOK /\ id \in Used /\ id \in Ids /\ ChangeInv(id) /\ row[id].status \in {"queued", "undo-queued"}
        /\ row' = Settled(id, st, "none") /\ seen' = [seen EXCEPT ![id] = "nothing"] /\ age' = 0
        /\ planSaved' = planSaved /\ tool' = tool
        /\ pieces' = pieces /\ undo' = undo /\ guard' = guard /\ boot' = boot /\ rebooter' = rebooter
    BY <1>2, UsedIds DEF SendChange, Stamp, Waiting, ChangesInv
  <1>4. run' = run \cup {[id |-> id, at |-> at]} \/ run' = run
    BY <1>2 DEF SendChange
  <1>5. <<st, at>> \in {<<"undo-sent", "undoing">>, <<"sent", "start">>}
        /\ (row[id].status = "queued" <=> st = "sent")
    BY <1>3
  <1>6. CloudMoved(id, st)
    <2>1. Moved(id, st)
      BY <1>3, <1>5, SettledMoves DEF Statuses, Active, Reasons
    <2> QED BY <1>3, <2>1 DEF CloudMoved, SeenAnew, TypeOK
  <1> HIDE DEF st, at, undoing
  <1>7. /\ run' \subseteq [id: Ids, at: Stages]
        /\ At(id)' \in {At(id), At(id) \cup {at}}
        /\ \A i \in Ids \ {id} : At(i)' = At(i)
    <2>1. CASE run' = run
      BY <1>3, <2>1 DEF At, TypeOK, Stages
    <2>2. CASE run' = run \cup {[id |-> id, at |-> at]}
      BY <1>3, <1>5, <2>2, Began DEF Stages
    <2> QED BY <1>4, <2>1, <2>2
  <1>8. /\ Used' = Used /\ row'[id].status = st /\ row'[id].kind = row[id].kind
        /\ Whole(row'[id]) = Whole(row[id])
        /\ st \in Undecided => row'[id].reason # "undo_incomplete"
    BY <1>3, <1>6, CloudStep
  <1>9. /\ Standing(id)' <=> Standing(id)
        /\ Guarded(id)' <=> Guarded(id)
        /\ Safe(id)' <=> Safe(id)
    BY <1>3, <1>8, SameStanding, SameGuard
  <1>10. /\ At(id) \cap {"start", "guarded", "failing", "undoing"} = {}
         /\ st = "sent" => ~Standing(id) /\ id \notin undo \cup guard \cup boot /\ At(id) = {}
    BY <1>3, <1>5 DEF ChangeInv, Begun, BeforeAsking, UndoAsked, Removable
  <1>11. ChangeInv(id)'
    <2>1. Begun(id)' /\ NotForUndo(id)'
      BY <1>3, <1>5, <1>8 DEF Begun, NotForUndo, Undecided
    <2>2. OneScript(id)'
      BY <1>3, <1>5, <1>7, <1>10 DEF ChangeInv, OneScript
    <2>3. BeforeAsking(id)' /\ UndoAsked(id)'
      BY <1>3, <1>5, <1>7, <1>8, <1>10 DEF BeforeAsking, UndoAsked
    <2>4. WhileAsking(id)'
      BY <1>3, <1>5, <1>7, <1>8, <1>9, <1>10 DEF ChangeInv, WhileAsking
    <2>5. BootGuards(id)' /\ Removable(id)' /\ KeptUnheard(id)' /\ StaysIfConfirmed(id)'
      BY <1>3, <1>5, <1>8, <1>9, <1>10 DEF ChangeInv, BootGuards, Removable, KeptUnheard, StaysIfConfirmed, Bad
    <2> QED BY <2>1, <2>2, <2>3, <2>4, <2>5 DEF ChangeInv
  <1>12. \A i \in Ids \ {id} : SameDevice(i)
    BY <1>3, <1>7 DEF SameDevice
  <1>13. /\ undo' \subseteq Ids /\ guard' \subseteq Ids /\ rebooter' \subseteq Ids /\ boot' \subseteq Ids
         /\ pieces' \in [Ids -> SUBSET Names]
    BY <1>3 DEF TypeOK, Names
  <1> QED BY <1>3, <1>6, <1>7, <1>11, <1>12, <1>13, Assembled

\* New rows wait in the queue; nothing of them is on the router.
FreshRow(c) == c.status = "queued" /\ c.reason = "none"
LEMMA Grown ==
    ASSUME ChangesInv, row' \in Seq(Change), Len(row') <= MaxChanges, Len(row) <= Len(row'),
           \A i \in Used : row'[i] = row[i],
           \A i \in 1..Len(row') : i \notin Used => FreshRow(row'[i]),
           UNCHANGED <<planSaved, age, seen, tool, deviceVars>>
    PROVE  ChangesInv'
  <1>1. /\ pieces' = pieces /\ undo' = undo /\ guard' = guard /\ boot' = boot /\ rebooter' = rebooter
        /\ run' = run /\ \A i : At(i)' = At(i)
        /\ planSaved' = planSaved /\ age' = age /\ seen' = seen /\ tool' = tool /\ Ids' = Ids
    BY DEF deviceVars, Ids, At, Stages
  <1>2. /\ TypeOK /\ Used = 1..Len(row) /\ Used' = 1..Len(row') /\ Used \subseteq Used'
        /\ Used' \subseteq Ids /\ Len(row) \in Nat
    BY UsedIds, ChangesAssumption DEF ChangesInv, TypeOK, Used, Ids
  <1>3. TypeOK'
    BY <1>1, <1>2 DEF TypeOK
  <1>4. ASSUME NEW i \in Ids PROVE ChangeInv(i)'
    <2>1. ChangeInv(i)
      BY DEF ChangesInv
    <2>2. CASE i \in Used \/ i \notin Used'
      <3>1. SameRow(i) /\ SameDevice(i)
        BY <1>1, <1>2, <2>2 DEF SameRow, SameDevice, SameWork, Left
      <3> QED BY <2>1, <3>1, OtherChange
    <2>3. CASE i \in Used' \ Used
      <3>1. /\ i \notin undo \cup guard \cup boot /\ At(i) = {} /\ ~Standing(i)
        BY <2>1, <2>3 DEF ChangeInv, Begun, Removable
      <3>2. /\ i \notin undo' \cup guard' \cup boot' /\ At(i)' = {} /\ ~Standing(i)'
            /\ FreshRow(row'[i])
        BY <1>1, <1>2, <2>3, <3>1, SameStanding
      <3> QED BY <3>2 DEF FreshRow, ChangeInv, Begun, NotForUndo, OneScript, BeforeAsking, WhileAsking,
                          UndoAsked, BootGuards, KeptUnheard, StaysIfConfirmed, Removable
    <2> QED BY <2>2, <2>3
  <1> QED BY <1>1, <1>3, <1>4 DEF ChangesInv

LEMMA Concatenated ==
    ASSUME NEW S, NEW p \in Seq(S), NEW q \in Seq(S)
    PROVE  /\ p \o q \in Seq(S) /\ Len(p \o q) = Len(p) + Len(q)
           /\ \A i \in 1..Len(p \o q) : (p \o q)[i] = IF i <= Len(p) THEN p[i] ELSE q[i - Len(p)]
  OBVIOUS

LEMMA NewRowType ==
    ASSUME NEW spec \in [kind: ChangeKinds, job: Jobs], NEW from \in 0..MaxChanges, NEW batch \in Nat
    PROVE  NewRow(spec, from, batch) \in Change /\ FreshRow(NewRow(spec, from, batch))
  BY DEF NewRow, Change, Statuses, Active, FreshRow

LEMMA ApplyPlanStep ==
    ASSUME ChangesInv, NEW specs \in Batches, NEW from \in 0..MaxChanges, ApplyPlan(specs, from)
    PROVE  ChangesInv'
  <1>1. TypeOK /\ row \in Seq(Change) /\ Used = 1..Len(row) /\ Len(row) \in Nat
    BY UsedIds DEF ChangesInv, TypeOK
  <1>2. specs \in Seq([kind: ChangeKinds, job: Jobs])
    <2> DEFINE S == [kind: ChangeKinds, job: Jobs]
    <2>1. \A s, t \in Specs : s \in S /\ t \in S
      BY ChangesAssumption
    <2> HIDE DEF S
    <2>2. \A s, t \in S : <<s>> \in Seq(S) /\ <<s, t>> \in Seq(S)
      OBVIOUS
    <2>3. specs \in Seq(S)
      <3>1. CASE specs \in {<<s>> : s \in Specs}
        <4>1. PICK s \in Specs : specs = <<s>>
          BY <3>1
        <4> QED BY <4>1, <2>1, <2>2
      <3>2. CASE specs \in Specs \X Specs
        <4>1. PICK s \in Specs, t \in Specs : specs = <<s, t>>
          BY <3>2
        <4> QED BY <4>1, <2>1, <2>2
      <3> QED BY <3>1, <3>2 DEF Batches
    <2> QED BY <2>3 DEF S
  <1> DEFINE more == [i \in DOMAIN specs |-> NewRow(specs[i], IF i = 1 THEN from ELSE 0, Len(row) + 1)]
  <1>3. /\ row' = row \o more /\ Len(row) + Len(specs) <= MaxChanges
        /\ UNCHANGED <<planSaved, age, seen, tool, deviceVars>>
    BY DEF ApplyPlan
  <1>4. \A i \in DOMAIN specs :
           more[i] \in Change /\ FreshRow(more[i])
    <2> TAKE i \in DOMAIN specs
    <2> DEFINE S == [kind: ChangeKinds, job: Jobs]
    <2>1. specs[i] \in S /\ Len(row) + 1 \in Nat
      <3> HIDE DEF S
      <3>1. specs \in Seq(S)
        BY <1>2 DEF S
      <3> QED BY <1>1, <3>1
    <2>2. (IF i = 1 THEN from ELSE 0) \in 0..MaxChanges
      BY ChangesAssumption
    <2> QED BY <2>1, <2>2, NewRowType
  <1>5. more \in [DOMAIN specs -> Change]
    BY <1>4
  <1> HIDE DEF more
  <1>6. more \in Seq(Change) /\ Len(more) = Len(specs) /\ DOMAIN more = DOMAIN specs
    BY <1>2, <1>5, SameLength
  <1>7. /\ row' \in Seq(Change) /\ Len(row') = Len(row) + Len(more)
        /\ \A i \in 1..Len(row') : row'[i] = IF i <= Len(row) THEN row[i] ELSE more[i - Len(row)]
    BY <1>1, <1>3, <1>6, Concatenated
  <1>8. \A i \in 1..Len(row') : i \notin Used => FreshRow(row'[i])
    <2> TAKE i \in 1..Len(row')
    <2> HAVE i \notin Used
    <2>1. i - Len(row) \in DOMAIN specs /\ row'[i] = more[i - Len(row)]
      BY <1>1, <1>2, <1>6, <1>7
    <2> QED BY <2>1, <1>4
  <1>9. Len(row') <= MaxChanges /\ Len(row) <= Len(row') /\ \A i \in Used : row'[i] = row[i]
    BY <1>1, <1>2, <1>3, <1>6, <1>7
  <1> QED BY <1>3, <1>7, <1>8, <1>9, Grown

LEMMA QueueRenameStep == ASSUME ChangesInv, NEW id \in Ids, QueueRename(id) PROVE ChangesInv'
  <1>1. /\ TypeOK /\ row \in Seq(Change) /\ Used = 1..Len(row) /\ Len(row) \in Nat /\ id \in Used
        /\ row[id] \in Change /\ Len(row) < MaxChanges
    BY UsedIds DEF ChangesInv, TypeOK, QueueRename
  <1> DEFINE new == NewRow([kind |-> "rename", job |-> row[id].job], id, Len(row) + 1)
  <1>2. row' = Append(row, new) /\ UNCHANGED <<planSaved, age, seen, tool, deviceVars>>
    BY DEF QueueRename
  <1>3. [kind |-> "rename", job |-> row[id].job] \in [kind: ChangeKinds, job: Jobs]
    BY <1>1 DEF Change, ChangeKinds
  <1>4. new \in Change /\ FreshRow(new)
    BY <1>1, <1>3, ChangesAssumption, NewRowType DEF Ids
  <1> HIDE DEF new
  <1>5. /\ row' \in Seq(Change) /\ Len(row') = Len(row) + 1 /\ row'[Len(row) + 1] = new
        /\ \A i \in 1..Len(row) : row'[i] = row[i]
    BY ONLY <1>1, <1>2, <1>4
  <1>6. Len(row') <= MaxChanges /\ Len(row) <= Len(row')
        /\ \A i \in 1..Len(row') : i \notin Used => FreshRow(row'[i])
    BY <1>1, <1>4, <1>5, ChangesAssumption
  <1> QED BY <1>1, <1>2, <1>5, <1>6, Grown

LEMMA LayoutStep == ASSUME ChangesInv, LayoutReport PROVE ChangesInv'
  <1>1. /\ TypeOK /\ Used \subseteq Ids /\ \A i \in Used : row[i] \in Change
        /\ planSaved' = planSaved /\ age' = age /\ tool' = tool
        /\ pieces' = pieces /\ undo' = undo /\ guard' = guard /\ boot' = boot /\ rebooter' = rebooter
        /\ run' = run /\ \A i : At(i)' = At(i)
    BY UsedIds DEF ChangesInv, LayoutReport, deviceVars, At, Stages
  <1>2. \A i \in Used : LET c == [row[i] EXCEPT !.status = IF Matches(i) THEN "verified" ELSE "mismatch",
                                               !.reason = IF Matches(i) THEN "none" ELSE "other"]
                        IN  /\ c \in Change /\ c.kind = row[i].kind /\ c.job = row[i].job
                            /\ c.status \in {"verified", "mismatch"}
    BY <1>1 DEF Change, Statuses, Live
  <1>3. /\ row' \in [Used -> Change]
        /\ \A i \in Used : /\ row'[i].kind = row[i].kind /\ row'[i].job = row[i].job
                           /\ \/ row'[i] = row[i]
                              \/ row[i].status \in {"applied", "mismatch"} /\ row'[i].status \in {"verified", "mismatch"}
    BY <1>1, <1>2 DEF LayoutReport
  <1>4. /\ row' \in Seq(Change) /\ Len(row') = Len(row) /\ Used' = Used /\ Ids' = Ids
    BY <1>1, <1>3, SameLength DEF TypeOK, Used, Ids
  <1>5. /\ seen' \in [Ids -> {"nothing", "match", "differs"}]
        /\ \A i \in Used : Whole(row[i]) \subseteq pieces[i] => seen'[i] # "differs"
        /\ \A i \in Ids \ Used : seen'[i] = seen[i]
    BY <1>1 DEF LayoutReport, TypeOK, Matches, Shown
  <1>6. TypeOK'
    BY <1>1, <1>4, <1>5 DEF TypeOK
  <1>7. ASSUME NEW i \in Ids PROVE ChangeInv(i)'
    <2>1. ChangeInv(i)
      BY DEF ChangesInv
    <2>2. CASE i \notin Used
      <3>1. SameRow(i) /\ SameDevice(i)
        BY <1>1, <1>4, <1>5, <2>2 DEF SameRow, SameDevice
      <3> QED BY <2>1, <3>1, OtherChange
    <2>3. CASE i \in Used
      <3>1. /\ Whole(row'[i]) = Whole(row[i]) /\ row'[i].kind = row[i].kind
            /\ \/ row'[i].status = row[i].status /\ row'[i].reason = row[i].reason
               \/ row[i].status \in {"applied", "mismatch"} /\ row'[i].status \in {"verified", "mismatch"}
        BY <1>3, <2>3, WholeSame
      <3>2. /\ Standing(i)' <=> Standing(i)
            /\ Guarded(i)' <=> Guarded(i)
            /\ Safe(i)' <=> Safe(i)
        BY <1>1, <3>1, SameStanding, SameGuard
      <3>3. Begun(i)' /\ NotForUndo(i)' /\ OneScript(i)' /\ UndoAsked(i)'
        BY <1>1, <1>4, <2>1, <3>1 DEF ChangeInv, Begun, NotForUndo, OneScript, UndoAsked, Undecided
      <3>4. BeforeAsking(i)'
        BY <1>1, <2>1, <3>1, <3>2 DEF ChangeInv, BeforeAsking
      <3>5. WhileAsking(i)'
        BY <1>1, <1>5, <2>1, <2>3, <3>1, <3>2 DEF ChangeInv, WhileAsking
      <3>6. BootGuards(i)' /\ Removable(i)'
        BY <1>1, <2>1, <3>2 DEF ChangeInv, BootGuards, Removable
      <3>7. KeptUnheard(i)' /\ StaysIfConfirmed(i)'
        BY <1>1, <1>4, <1>5, <2>1, <2>3, <3>1, <3>2 DEF ChangeInv, KeptUnheard, StaysIfConfirmed, Bad
      <3> QED BY <3>3, <3>4, <3>5, <3>6, <3>7 DEF ChangeInv
    <2> QED BY <2>2, <2>3
  <1> QED BY <1>4, <1>6, <1>7 DEF ChangesInv

\* Steps that leave rows and the device alone.
LEMMA QuietStep ==
    ASSUME ChangesInv, UNCHANGED <<row, seen, deviceVars>>, planSaved' \in BOOLEAN, age' \in 0..3,
           tool' \in [name: {"none", "reboot", "other"}, status: {"none", "queued", "sent"}]
    PROVE  ChangesInv'
  <1>1. /\ row' = row /\ seen' = seen /\ Used' = Used /\ Ids' = Ids
        /\ pieces' = pieces /\ undo' = undo /\ guard' = guard /\ boot' = boot /\ rebooter' = rebooter
        /\ run' = run /\ \A i : At(i)' = At(i)
    BY DEF deviceVars, Used, Ids, At, Stages
  <1>2. TypeOK'
    BY <1>1 DEF ChangesInv, TypeOK
  <1>3. \A i \in Ids : SameRow(i) /\ SameDevice(i)
    BY <1>1 DEF SameRow, SameDevice, SameWork, Left
  <1> QED BY <1>1, <1>2, <1>3, OtherChange DEF ChangesInv

-----------------------------------------------------------------------------
(* The theorems *)

LEMMA InitHolds == Init => ChangesInv
  <1> SUFFICES ASSUME Init PROVE ChangesInv
    OBVIOUS
  <1>1. Used = {} /\ Len(row) = 0 /\ MaxChanges \in Nat
    BY ChangesAssumption DEF Init, Used
  <1>2. TypeOK
    <2>1. row \in Seq(Change) /\ Len(row) <= MaxChanges /\ age \in 0..3
      BY <1>1 DEF Init
    <2>2. tool \in [name: {"none", "reboot", "other"}, status: {"none", "queued", "sent"}]
      BY DEF Init, NoTool
    <2> QED BY <2>1, <2>2 DEF Init, TypeOK
  <1>3. \A i \in Ids : ~Standing(i) /\ At(i) = {}
    BY DEF Init, Standing, At
  <1>4. \A i \in Ids : ChangeInv(i)
    BY <1>1, <1>3 DEF Init, ChangeInv, Begun, NotForUndo, OneScript, BeforeAsking, WhileAsking, UndoAsked,
                      BootGuards, KeptUnheard, StaysIfConfirmed, Removable
  <1> QED BY <1>2, <1>4 DEF ChangesInv

LEMMA OwnerSteps == ASSUME ChangesInv, OwnerActs PROVE ChangesInv'
  <1>1. ASSUME SavePlan PROVE ChangesInv'
    BY <1>1, QuietStep DEF SavePlan, ChangesInv, TypeOK
  <1>2. ASSUME NEW name \in Tools, QueueTool(name) PROVE ChangesInv'
    BY <1>2, QuietStep, ChangesAssumption DEF QueueTool, ChangesInv, TypeOK
  <1>3. ASSUME NEW specs \in Batches, NEW from \in 0..MaxChanges, ApplyPlan(specs, from) PROVE ChangesInv'
    BY <1>3, ApplyPlanStep
  <1>4. ASSUME NEW id \in Ids, QueueRename(id) \/ QueueUndo(id) PROVE ChangesInv'
    BY <1>4, QueueRenameStep, QueueUndoStep
  <1> QED BY <1>1, <1>2, <1>3, <1>4 DEF OwnerActs

LEMMA CloudSteps == ASSUME ChangesInv, CloudActs PROVE ChangesInv'
  <1>1. ASSUME SendTool \/ ToolExpires PROVE ChangesInv'
    <2>1. tool' \in [name: {"none", "reboot", "other"}, status: {"none", "queued", "sent"}]
      BY <1>1 DEF SendTool, ToolExpires, NoTool, ChangesInv, TypeOK
    <2> QED BY <1>1, <2>1, QuietStep DEF SendTool, ToolExpires, ChangesInv, TypeOK
  <1> QED BY <1>1, SettleSilentStep, CannotBuildStep, SendChangeStep DEF CloudActs

LEMMA RouterActs == ASSUME ChangesInv, RouterSteps PROVE ChangesInv'
  BY PreflightStep, AskConfirmStep, KeepStep, ApplyBodyStep, FailingStep, LoseCloudStep, RunUndoStep,
     AfterRebootStep DEF RouterSteps

LEMMA ChangesInvHolds == Spec => []ChangesInv
  <1>1. ChangesInv /\ [Next]_vars => ChangesInv'
    <2> SUFFICES ASSUME ChangesInv, [Next]_vars PROVE ChangesInv'
      OBVIOUS
    <2>1. CASE OwnerActs
      BY <2>1, OwnerSteps
    <2>2. CASE CloudActs
      BY <2>2, CloudSteps
    <2>3. CASE RouterSteps
      BY <2>3, RouterActs
    <2>4. CASE ToolAnswers
      <3>1. tool' \in [name: {"none", "reboot", "other"}, status: {"none", "queued", "sent"}]
        BY <2>4 DEF ToolAnswers, NoTool
      <3> QED BY <2>4, <3>1, QuietStep DEF ToolAnswers, ChangesInv, TypeOK
    <2>5. CASE LayoutReport
      BY <2>5, LayoutStep
    <2>6. CASE TimePasses
      <3>1. age' \in 0..3
        BY <2>6 DEF TimePasses, ChangesInv, TypeOK
      <3> QED BY <2>6, <3>1, QuietStep DEF TimePasses, ChangesInv, TypeOK
    <2>7. CASE Restart
      BY <2>7, RestartStep
    <2>8. CASE UNCHANGED vars
      BY <2>8, QuietStep DEF vars, cloudVars, ChangesInv, TypeOK
    <2> QED BY <2>1, <2>2, <2>3, <2>4, <2>5, <2>6, <2>7, <2>8 DEF Next
  <1> QED BY <1>1, InitHolds, PTL DEF Spec

\* Rows, scripts and guards have their types, for any number of changes.
THEOREM ChangesTypes == Spec => []TypeOK
  <1>1. ChangesInv => TypeOK
    BY DEF ChangesInv
  <1> QED BY <1>1, ChangesInvHolds, PTL

\* What stands on a router without a boot guard that has its script was confirmed
\* by the cloud, or is what an undo could not remove: whatever was lost, refused,
\* slow or cut short by a restart, a change the dashboard calls failed or put back
\* has left nothing else behind.
THEOREM OnlyConfirmedChangesStay == Spec => []KeptOnlyIfConfirmed
  <1>1. ChangesInv => KeptOnlyIfConfirmed
    BY UsedIds DEF ChangesInv, ChangeInv, StaysIfConfirmed, KeptOnlyIfConfirmed, Safe, Bad
  <1> QED BY <1>1, ChangesInvHolds, PTL

\* Whatever stands on a router, the script that removes it is there too.
THEOREM ChangesCanBePutBack == Spec => []CanBePutBack
  <1>1. ChangesInv => CanBePutBack
    BY DEF ChangesInv, ChangeInv, Removable, CanBePutBack
  <1> QED BY <1>1, ChangesInvHolds, PTL

-----------------------------------------------------------------------------
(* One tunnel per location (RemoteAccess) *)

Access == [st : {"none", "requested", "approved", "configured", "revoked"}, gw : BOOLEAN,
           addr : Nat, key : Nat]
Peer == [des : {"none", "active", "revoked"}, gs : {"none", "pending", "ready", "revoke_pending", "revoked"},
         ver : Nat, key : Nat, addr : Nat]
Iface == [key : Nat, tag : {"none", "support", "vpn"}, on : BOOLEAN]

\* What the server and the routers keep has its type: the part of the state a
\* wanted peer is made from.
RemoteTypeOK ==
    /\ access \in [Sites_ -> Access] /\ peer \in [Sites_ -> Peer]
    /\ board \in [Sites_ -> Iface] /\ keys \in Nat

RemoteInv == RemoteTypeOK /\ OneTunnelPerSite

-----------------------------------------------------------------------------
(* Lemmas about the addresses and peers *)

LEMMA LeastAddress ==
    ASSUME NEW T, T \subseteq Nat, T # {}
    PROVE  Min(T) \in T
  <1> DEFINE R == {ss \in Nat \X Nat : ss[1] < ss[2]}
  <1>1. IsWellFoundedOn(R, Nat)
    BY NatLessThanWellFounded DEF OpToRel
  <1>2. \A x, y \in Nat : <<y, x>> \in R <=> y < x
    OBVIOUS
  <1> HIDE DEF R
  <1>3. PICK x \in T : \A y \in T : ~(<<y, x>> \in R)
    BY <1>1, WFMin
  <1>4. \A y \in T : x <= y
    <2> TAKE y \in T
    <2>1. y \in Nat /\ x \in Nat
      OBVIOUS
    <2>2. ~(<<y, x>> \in R)
      BY <1>3
    <2>3. ~(y < x)
      BY <1>2, <2>1, <2>2
    <2> QED BY <2>1, <2>3
  <1> QED BY <1>4 DEF Min

LEMMA LargerKey ==
    ASSUME NEW j \in Nat, NEW k \in Nat
    PROVE  Max({j, k}) \in Nat
  <1>1. \E x \in {j, k} : \A y \in {j, k} : x >= y
    OBVIOUS
  <1> QED BY <1>1 DEF Max

\* A peer is allocated only when no other location's active peer has its key
\* or its address, so it cannot meet one.
LEMMA AllocationFits ==
    ASSUME RemoteInv, NEW l \in Sites_, NEW a \in Access, ~AllocateRefused(l, a),
           peer' = [peer EXCEPT ![l] = Allocated(l, a)]
    PROVE  peer' \in [Sites_ -> Peer] /\ OneTunnelPerSite'
  <1>1. /\ Allocated(l, a) \in Peer
        /\ Allocated(l, a).key = a.key /\ Allocated(l, a).addr = a.addr
    BY DEF Allocated, RemoteInv, RemoteTypeOK, Access, Peer
  <1> DEFINE p == Allocated(l, a)
  <1> HIDE DEF p
  <1>2. /\ peer' \in [Sites_ -> Peer] /\ peer'[l] = p /\ \A m \in Sites_ \ {l} : peer'[m] = peer[m]
    BY <1>1 DEF p, RemoteInv, RemoteTypeOK
  <1>3. \A m \in Sites_ \ {l} : peer[m].des = "active" => peer[m].key # p.key /\ peer[m].addr # p.addr
    BY <1>1 DEF AllocateRefused, AddrTaken, KeyTaken, p
  <1> QED BY <1>2, <1>3 DEF RemoteInv, OneTunnelPerSite

\* Peers that keep their key and address, or stop being wanted, cannot meet.
LEMMA FewerWanted ==
    ASSUME RemoteInv, peer' \in [Sites_ -> Peer],
           \A l \in Sites_ : peer'[l].des = "active" =>
               peer[l].des = "active" /\ peer'[l].key = peer[l].key /\ peer'[l].addr = peer[l].addr
    PROVE  OneTunnelPerSite'
  BY DEF RemoteInv, OneTunnelPerSite

-----------------------------------------------------------------------------
(* The owner *)

LEMMA ProvisionStep ==
    ASSUME RemoteInv, NEW l \in Sites_, NEW a \in Access,
           a.st \in {"requested", "approved", "configured"}, Provision(l, a)
    PROVE  access' \in [Sites_ -> Access] /\ peer' \in [Sites_ -> Peer] /\ OneTunnelPerSite'
  <1>1. RemoteTypeOK /\ OneTunnelPerSite
    BY DEF RemoteInv
  <1>2. CASE a.st \in {"requested", "approved"} /\ Addresses \subseteq TakenAddresses
    <2>1. access' = [access EXCEPT ![l] = a] /\ peer' = peer
      BY <1>2 DEF Provision
    <2> QED BY <1>1, <2>1 DEF RemoteTypeOK, OneTunnelPerSite
  <1>3. CASE a.st \in {"requested", "approved"} /\ ~(Addresses \subseteq TakenAddresses)
    <2>1. access' = [access EXCEPT ![l] = [st |-> "configured", gw |-> TRUE,
                                           addr |-> Min(Addresses \ TakenAddresses), key |-> 0]]
          /\ peer' = peer
      BY <1>3 DEF Provision
    <2>2. Min(Addresses \ TakenAddresses) \in Nat
      BY <1>3, RemoteAssumption, LeastAddress
    <2> QED BY <1>1, <2>1, <2>2 DEF RemoteTypeOK, Access, OneTunnelPerSite
  <1>4. CASE a.st = "configured" /\ a.key = 0
    <2>1. access' = [access EXCEPT ![l] = [a EXCEPT !.gw = TRUE]] /\ peer' = peer
      BY <1>4 DEF Provision
    <2> QED BY <1>1, <2>1 DEF RemoteTypeOK, Access, OneTunnelPerSite
  <1>5. CASE a.st = "configured" /\ a.key # 0
    <2>1. CASE AllocateRefused(l, a)
      <3>1. access' = access /\ peer' = peer
        BY <1>5, <2>1 DEF Provision
      <3> QED BY <1>1, <3>1 DEF RemoteTypeOK, OneTunnelPerSite
    <2>2. CASE ~AllocateRefused(l, a)
      <3>1. access' = [access EXCEPT ![l] = [a EXCEPT !.gw = TRUE]]
            /\ peer' = [peer EXCEPT ![l] = Allocated(l, a)]
        BY <1>5, <2>2 DEF Provision
      <3>2. access' \in [Sites_ -> Access]
        BY <1>1, <3>1 DEF RemoteTypeOK, Access
      <3> QED BY <2>2, <3>1, <3>2, AllocationFits
    <2> QED BY <2>1, <2>2
  <1> QED BY <1>2, <1>3, <1>4, <1>5 DEF Provision

LEMMA RequestStep == ASSUME RemoteInv, NEW l \in Sites_, RequestAccess(l) PROVE RemoteInv'
  <1>1. board' = board /\ keys' = keys
    BY DEF RequestAccess, routerVars
  <1> DEFINE a == IF access[l].st \in {"none", "revoked"}
                  THEN [NoAccess EXCEPT !.st = "requested"] ELSE access[l]
  <1>2. a \in Access /\ a.st \in {"requested", "approved", "configured"}
    BY DEF NoAccess, Access, RemoteInv, RemoteTypeOK
  <1>3. IF enabled THEN Provision(l, a) ELSE access' = [access EXCEPT ![l] = a] /\ peer' = peer
    BY DEF RequestAccess
  <1> HIDE DEF a
  <1>4. access' \in [Sites_ -> Access] /\ peer' \in [Sites_ -> Peer] /\ OneTunnelPerSite'
    BY <1>2, <1>3, ProvisionStep DEF RemoteInv, RemoteTypeOK, OneTunnelPerSite
  <1> QED BY <1>1, <1>4 DEF RemoteInv, RemoteTypeOK

LEMMA RevokeStep == ASSUME RemoteInv, NEW l \in Sites_, RevokeAccess(l) PROVE RemoteInv'
  <1>1. /\ board' = board /\ keys' = keys
        /\ access' = [access EXCEPT ![l] = [NoAccess EXCEPT !.st = "revoked"]]
        /\ peer' = [peer EXCEPT ![l] = Withdrawn(peer[l])]
    BY DEF RevokeAccess, routerVars
  <1>2. access' \in [Sites_ -> Access]
    BY <1>1 DEF NoAccess, Access, RemoteInv, RemoteTypeOK
  <1>3. Withdrawn(peer[l]) \in Peer /\ Withdrawn(peer[l]).des # "active"
    <2>1. PICK p \in Peer : p = peer[l]
      BY DEF RemoteInv, RemoteTypeOK
    <2>2. p.ver + 1 \in Nat
      BY DEF Peer
    <2>3. Withdrawn(p) \in Peer /\ Withdrawn(p).des # "active"
      BY <2>2 DEF Withdrawn, Peer
    <2> QED BY <2>1, <2>3
  <1>4. peer' \in [Sites_ -> Peer]
    BY <1>1, <1>3 DEF RemoteInv, RemoteTypeOK
  <1>5. \A m \in Sites_ : peer'[m].des = "active" => peer'[m] = peer[m]
    BY <1>1, <1>3 DEF RemoteInv, RemoteTypeOK
  <1> QED BY <1>1, <1>2, <1>4, <1>5, FewerWanted DEF RemoteInv, RemoteTypeOK

LEMMA AdminStep ==
    ASSUME RemoteInv, NEW l \in Sites_, Approve(l) \/ Configure(l) \/ SetUpAnew(l)
    PROVE  RemoteInv'
  <1>1. CASE Approve(l)
    <2>1. access' = [access EXCEPT ![l].st = "approved"] /\ peer' = peer /\ board' = board /\ keys' = keys
      BY <1>1 DEF Approve, routerVars
    <2> QED BY <2>1 DEF RemoteInv, RemoteTypeOK, Access, OneTunnelPerSite
  <1>2. CASE Configure(l)
    <2>1. PICK a \in Addresses : access' = [access EXCEPT ![l].st = "configured", ![l].addr = a]
      BY <1>2 DEF Configure
    <2>2. peer' = peer /\ board' = board /\ keys' = keys /\ a \in Nat
      BY <1>2, RemoteAssumption DEF Configure, routerVars
    <2> QED BY <2>1, <2>2 DEF RemoteInv, RemoteTypeOK, Access, OneTunnelPerSite
  <1>3. CASE SetUpAnew(l)
    <2>1. /\ access' = [access EXCEPT ![l] = NoAccess] /\ peer' = [peer EXCEPT ![l] = NoPeer]
          /\ board' = board /\ keys' = keys
      BY <1>3 DEF SetUpAnew
    <2>2. NoAccess \in Access /\ NoPeer \in Peer /\ NoPeer.des # "active"
      BY DEF NoAccess, NoPeer, Access, Peer
    <2>3. access' \in [Sites_ -> Access] /\ peer' \in [Sites_ -> Peer]
      BY <2>1, <2>2 DEF RemoteInv, RemoteTypeOK
    <2>4. \A m \in Sites_ : peer'[m].des = "active" => peer'[m] = peer[m]
      BY <2>1, <2>2 DEF RemoteInv, RemoteTypeOK
    <2> QED BY <2>1, <2>3, <2>4, FewerWanted DEF RemoteInv, RemoteTypeOK
  <1> QED BY <1>1, <1>2, <1>3

-----------------------------------------------------------------------------
(* The router and the gateway *)

LEMMA PrepareStep == ASSUME RemoteInv, NEW l \in Sites_, RunPrepare(l) PROVE RemoteInv'
  <1> DEFINE k == IF board[l].key = 0 THEN keys + 1 ELSE board[l].key
  <1>1. k \in Nat
    BY DEF RemoteInv, RemoteTypeOK, Iface
  <1>2. keys' \in Nat
    BY <1>1, LargerKey DEF RunPrepare, RemoteInv, RemoteTypeOK
  <1>3. board' \in [Sites_ -> Iface]
    <2>1. board' = [board EXCEPT ![l] = IF board[l].key = 0 THEN [key |-> k, tag |-> "support", on |-> FALSE]
                                        ELSE board[l]]
      BY DEF RunPrepare
    <2> QED BY <1>1, <2>1 DEF RemoteInv, RemoteTypeOK, Iface
  <1>4. access' \in [Sites_ -> Access] /\ peer' \in [Sites_ -> Peer] /\ OneTunnelPerSite'
    <2>1. CASE access' = access /\ peer' = peer
      BY <2>1 DEF RemoteInv, RemoteTypeOK, OneTunnelPerSite
    <2>2. CASE /\ Enrolled(l, k) /\ access' = [access EXCEPT ![l].key = k]
               /\ peer' = [peer EXCEPT ![l] = IF access[l].gw THEN Allocated(l, access'[l]) ELSE peer[l]]
      <3> DEFINE a == [access[l] EXCEPT !.key = k]
      <3>1. a \in Access /\ access' = [access EXCEPT ![l] = a] /\ access'[l] = a
        BY <1>1, <2>2 DEF RemoteInv, RemoteTypeOK, Access
      <3>2. access[l].gw => ~AllocateRefused(l, a)
        BY <2>2 DEF Enrolled
      <3> HIDE DEF a
      <3>3. access' \in [Sites_ -> Access]
        BY <3>1 DEF RemoteInv, RemoteTypeOK
      <3>4. CASE access[l].gw
        BY <2>2, <3>1, <3>2, <3>3, <3>4, AllocationFits
      <3>5. CASE ~access[l].gw
        <4>1. peer' = peer
          BY <2>2, <3>5 DEF RemoteInv, RemoteTypeOK
        <4> QED BY <3>3, <4>1 DEF RemoteInv, RemoteTypeOK, OneTunnelPerSite
      <3> QED BY <3>4, <3>5
    <2> QED BY <2>1, <2>2 DEF RunPrepare, serverVars
  <1> QED BY <1>2, <1>3, <1>4 DEF RemoteInv, RemoteTypeOK

LEMMA RouterStep ==
    ASSUME RemoteInv, NEW l \in Sites_,
           Poll(l) \/ RunActivate(l) \/ RunRevoke(l) \/ RunNothing(l) \/ LoseAnswer(l) \/ Reboot(l)
    PROVE  RemoteInv'
  <1>1. access' = access /\ peer' = peer /\ keys' = keys
    BY DEF Poll, RunActivate, RunRevoke, RunNothing, LoseAnswer, Reboot, serverVars
  <1>2. board' \in [Sites_ -> Iface]
    <2>1. board \in [Sites_ -> Iface]
      BY DEF RemoteInv, RemoteTypeOK
    <2>2. CASE board' = board
      BY <2>1, <2>2
    <2>3. CASE board' = [board EXCEPT ![l].tag = "vpn", ![l].on = TRUE]
      BY <2>1, <2>3 DEF Iface
    <2>4. CASE board' = [board EXCEPT ![l] = NoIface]
      BY <2>1, <2>4 DEF Iface, NoIface
    <2> QED BY <2>2, <2>3, <2>4 DEF Poll, RunActivate, RunRevoke, RunNothing, LoseAnswer, Reboot
  <1> QED BY <1>1, <1>2 DEF RemoteInv, RemoteTypeOK, OneTunnelPerSite

LEMMA MoveStep == ASSUME RemoteInv, NEW l \in Sites_, NEW m \in Sites_, Move(l, m) PROVE RemoteInv'
  <1>1. access' = access /\ peer' = peer /\ keys' = keys
        /\ board' = [board EXCEPT ![m] = board[l], ![l] = NoIface]
    BY DEF Move, serverVars
  <1> QED BY <1>1 DEF RemoteInv, RemoteTypeOK, OneTunnelPerSite, Iface, NoIface

LEMMA ReportStep == ASSUME RemoteInv, Report PROVE peer' \in [Sites_ -> Peer] /\ OneTunnelPerSite'
  <1>1. PICK S : peer' = [l \in Sites_ |-> IF l \in ReadyPeers THEN [peer[l] EXCEPT !.gs = "ready"]
                              ELSE IF l \in S THEN [peer[l] EXCEPT !.gs = "revoked"] ELSE peer[l]]
    BY DEF Report
  <1>2. \A l \in Sites_ : /\ peer[l] \in Peer
                          /\ peer'[l] \in Peer /\ peer'[l].des = peer[l].des
                          /\ peer'[l].key = peer[l].key /\ peer'[l].addr = peer[l].addr
    BY <1>1 DEF RemoteInv, RemoteTypeOK, Peer
  <1>3. peer' \in [Sites_ -> Peer]
    BY <1>1, <1>2
  <1> QED BY <1>2, <1>3, FewerWanted

LEMMA GatewayStep ==
    ASSUME RemoteInv,
           TurnOn \/ Sync \/ SyncAnswerLost \/ Reconcile \/ WriteState \/ AgentCrash \/ GatewayReboot
    PROVE  RemoteInv'
  <1>1. access' = access /\ board' = board /\ keys' = keys
    BY DEF TurnOn, Sync, SyncAnswerLost, Reconcile, WriteState, AgentCrash, GatewayReboot,
           serverVars, routerVars
  <1>2. CASE Sync \/ SyncAnswerLost
    BY <1>1, <1>2, ReportStep DEF Sync, SyncAnswerLost, RemoteInv, RemoteTypeOK
  <1>3. CASE TurnOn \/ Reconcile \/ WriteState \/ AgentCrash \/ GatewayReboot
    <2>1. peer' = peer
      BY <1>3 DEF TurnOn, Reconcile, WriteState, AgentCrash, GatewayReboot, serverVars
    <2> QED BY <1>1, <2>1 DEF RemoteInv, RemoteTypeOK, OneTunnelPerSite
  <1> QED BY <1>2, <1>3

-----------------------------------------------------------------------------
(* The theorem *)

LEMMA RemoteInvHolds == RemoteSpec => []RemoteInv
  <1>1. RemoteInit => RemoteInv
    <2> SUFFICES ASSUME RemoteInit PROVE RemoteInv
      OBVIOUS
    <2>1. NoAccess \in Access /\ NoPeer \in Peer /\ NoIface \in Iface /\ NoPeer.des # "active"
      BY DEF NoAccess, NoPeer, NoIface, Access, Peer, Iface
    <2> QED BY <2>1 DEF RemoteInit, RemoteInv, RemoteTypeOK, OneTunnelPerSite
  <1>2. RemoteInv /\ [RemoteNext]_remoteVars => RemoteInv'
    <2> SUFFICES ASSUME RemoteInv, [RemoteNext]_remoteVars PROVE RemoteInv'
      OBVIOUS
    <2>1. ASSUME NEW l \in Sites_, OwnerAct(l) PROVE RemoteInv'
      BY <2>1, RequestStep, RevokeStep, AdminStep DEF OwnerAct
    <2>2. ASSUME NEW l \in Sites_, Poll(l) \/ RunScript(l) \/ LoseAnswer(l) \/ Reboot(l) PROVE RemoteInv'
      BY <2>2, RouterStep, PrepareStep DEF RunScript
    <2>3. ASSUME NEW l \in Sites_, NEW m \in Sites_, Move(l, m) PROVE RemoteInv'
      BY <2>3, MoveStep
    <2>4. CASE UNCHANGED remoteVars
      BY <2>4 DEF remoteVars, RemoteInv, RemoteTypeOK, OneTunnelPerSite
    <2> QED BY <2>1, <2>2, <2>3, <2>4, GatewayStep DEF RemoteNext
  <1> QED BY <1>1, <1>2, PTL DEF RemoteSpec

\* No two locations ever want a peer with one key or one address, for any
\* number of locations: what allocateDesiredVpnPeerInTransaction refuses, and
\* that nothing else makes a peer wanted, is why.
THEOREM OneTunnelEach == RemoteSpec => []OneTunnelPerSite
  <1>1. RemoteInv => OneTunnelPerSite
    BY DEF RemoteInv
  <1> QED BY <1>1, RemoteInvHolds, PTL

-----------------------------------------------------------------------------
(* A kit cut off anywhere is taken up again (RouterSetup) *)

KitParts == {"bridge", "ports", "wan", "fixed-wan", "pppoe-wan", "port-wan", "address", "pool", "dhcp", "network", "nat", "profile",
             "hotspot", "list", "member", "accepts", "drops", "scheduler", "none"}
Line == [op : {"add", "drop", "check"}, part : KitParts]

\* The lines that are still to run fit what is on the router: what exists once
\* only is added once, and is not there by then; the check finds nothing of the
\* customer network; only the bridge is added to a router without one; hotspot
\* and bridge stay.
AddedOnce(lines, parts) ==
    \A i \in DOMAIN lines : lines[i].op = "add" /\ lines[i].part \in Unique =>
        /\ lines[i].part \notin parts \/ \E j \in DOMAIN lines : j < i /\ lines[j] = Drop(lines[i].part)
        /\ \A j \in DOMAIN lines : j < i => lines[j] # lines[i]
CheckedClean(lines, parts) ==
    \A i \in DOMAIN lines : lines[i].op = "check" =>
        /\ \A p \in {"dhcp", "nat", "address"} :
              p \notin parts \/ \E j \in DOMAIN lines : j < i /\ lines[j] = Drop(p)
        /\ \A j \in DOMAIN lines : j < i => lines[j].op # "add"
BridgeFirst(lines, parts) ==
    \A i \in DOMAIN lines :
        /\ lines[i].op = "add" /\ lines[i].part # "bridge" =>
              "bridge" \in parts \/ \E j \in DOMAIN lines : j < i /\ lines[j] = Add("bridge")
        /\ lines[i].op = "drop" => lines[i].part \notin {"bridge", "hotspot"}
LinesFit(lines, parts) == AddedOnce(lines, parts) /\ CheckedClean(lines, parts) /\ BridgeFirst(lines, parts)

\* What a kit put on the router: the poller is for a hotspot, the hotspot for a
\* bridge, and without a bridge there is nothing.
PartsStand ==
    /\ "poller" \in own => "hotspot" \in own
    /\ "hotspot" \in own => "bridge" \in own
    /\ "bridge" \notin own => own = {}

SetupInv ==
    /\ todo \in Seq(Line)
    /\ foreign = {} => PartsStand /\ LinesFit(todo, own)
    /\ HalfBuiltResumes

\* On a router with nothing of the owner's, a part counts once if it is there.
LEMMA CountOwn ==
    ASSUME foreign = {}, NEW p
    PROVE  Count(p) = IF p \in own THEN 1 ELSE 0
  <1>1. CASE p \in own
    <2>1. {s \in {own, foreign} : p \in s} = {own}
      BY <1>1
    <2> QED BY <1>1, <2>1, FS_Singleton DEF Count
  <1>2. CASE p \notin own
    <2>1. {s \in {own, foreign} : p \in s} = {}
      BY <1>2
    <2> QED BY <1>2, <2>1, FS_EmptySet DEF Count
  <1> QED BY <1>1, <1>2

LEMMA OwnRouter ==
    ASSUME foreign = {}
    PROVE  /\ Hotspots = IF "hotspot" \in own THEN 1 ELSE 0
           /\ Bridges = IF "bridge" \in own THEN 1 ELSE 0
  BY CountOwn DEF Hotspots, Bridges

\* One line less: the rest fits what the line made of the router.
LEMMA TailFits ==
    ASSUME NEW lines \in Seq(Line), lines # <<>>, NEW parts, LinesFit(lines, parts), NEW new,
           \/ /\ lines[1].op = "add" /\ new = parts \cup {lines[1].part}
           \/ /\ lines[1].op = "drop" /\ new = parts \ {lines[1].part}
           \/ /\ lines[1].op = "check" /\ new = parts
    PROVE  Tail(lines) \in Seq(Line) /\ LinesFit(Tail(lines), new)
  <1> DEFINE rest == Tail(lines)
  <1>1. /\ Len(lines) \in Nat /\ Len(lines) >= 1 /\ DOMAIN lines = 1..Len(lines)
        /\ rest \in Seq(Line) /\ DOMAIN rest = 1..(Len(lines) - 1)
        /\ \A i \in 1..(Len(lines) - 1) : rest[i] = lines[i + 1]
        /\ \A i \in 1..Len(lines) : lines[i] \in Line
    OBVIOUS
  <1>2. \A i \in DOMAIN rest : i + 1 \in DOMAIN lines /\ rest[i] = lines[i + 1] /\ i \in Nat
    BY <1>1
  <1>3. \A j \in DOMAIN lines : j # 1 => j - 1 \in DOMAIN rest /\ rest[j - 1] = lines[j] /\ j \in Nat
    BY <1>1
  <1> HIDE DEF rest
  \* What an earlier line drops, a line before drops still, or it is gone.
  <1>4. ASSUME NEW i \in DOMAIN rest, NEW p, lines[1] # Add(p),
               p \notin parts \/ \E j \in DOMAIN lines : j < i + 1 /\ lines[j] = Drop(p)
        PROVE  p \notin new \/ \E j \in DOMAIN rest : j < i /\ rest[j] = Drop(p)
    <2>1. CASE p \notin parts
      <3>1. lines[1].op = "add" => lines[1].part # p
        BY <1>1, <1>4 DEF Add, Line, KitParts
      <3> QED BY <2>1, <3>1
    <2>2. ASSUME NEW j \in DOMAIN lines, j < i + 1, lines[j] = Drop(p)
          PROVE  p \notin new \/ \E k \in DOMAIN rest : k < i /\ rest[k] = Drop(p)
      <3>1. CASE j = 1
        BY <2>2, <3>1 DEF Drop
      <3>2. CASE j # 1
        <4>1. j - 1 \in DOMAIN rest /\ rest[j - 1] = Drop(p) /\ j - 1 < i
          BY <1>2, <1>3, <2>2, <3>2
        <4> QED BY <4>1
      <3> QED BY <3>1, <3>2
    <2> QED BY <1>4, <2>1, <2>2
  <1>5. AddedOnce(rest, new)
    <2>1. ASSUME NEW i \in DOMAIN rest, rest[i].op = "add", rest[i].part \in Unique
          PROVE  /\ rest[i].part \notin new \/ \E j \in DOMAIN rest : j < i /\ rest[j] = Drop(rest[i].part)
                 /\ \A j \in DOMAIN rest : j < i => rest[j] # rest[i]
      <3>1. /\ lines[i + 1].part \notin parts \/ \E j \in DOMAIN lines : j < i + 1 /\ lines[j] = Drop(lines[i + 1].part)
            /\ \A j \in DOMAIN lines : j < i + 1 => lines[j] # lines[i + 1]
        BY <1>2, <2>1 DEF LinesFit, AddedOnce
      <3>2. lines[1] # Add(rest[i].part)
        <4>1. 1 \in DOMAIN lines /\ 1 < i + 1
          BY <1>1, <1>2
        <4>2. rest[i] \in Line /\ rest[i] = Add(rest[i].part)
          BY <1>1, <1>2, <2>1 DEF Line, Add
        <4> QED BY <1>2, <3>1, <4>1, <4>2
      <3>3. \A j \in DOMAIN rest : j < i => rest[j] # rest[i]
        <4>1. ASSUME NEW j \in DOMAIN rest, j < i
              PROVE  rest[j] # rest[i]
          <5>1. j + 1 \in DOMAIN lines /\ j + 1 < i + 1
            BY <1>2, <4>1
          <5> QED BY <1>2, <3>1, <5>1
        <4> QED BY <4>1
      <3> QED BY <1>2, <1>4, <3>1, <3>2, <3>3
    <2> QED BY <2>1 DEF AddedOnce
  <1>6. CheckedClean(rest, new)
    <2>1. ASSUME NEW i \in DOMAIN rest, rest[i].op = "check"
          PROVE  /\ \A p \in {"dhcp", "nat", "address"} :
                       p \notin new \/ \E j \in DOMAIN rest : j < i /\ rest[j] = Drop(p)
                 /\ \A j \in DOMAIN rest : j < i => rest[j].op # "add"
      <3>1. /\ \A p \in {"dhcp", "nat", "address"} :
                  p \notin parts \/ \E j \in DOMAIN lines : j < i + 1 /\ lines[j] = Drop(p)
            /\ \A j \in DOMAIN lines : j < i + 1 => lines[j].op # "add"
        BY <1>2, <2>1 DEF LinesFit, CheckedClean
      <3>2. \A p : lines[1] # Add(p)
        <4>1. 1 \in DOMAIN lines /\ 1 < i + 1
          BY <1>1, <1>2
        <4> QED BY <3>1, <4>1 DEF Add
      <3>3. \A j \in DOMAIN rest : j < i => rest[j].op # "add"
        <4>1. ASSUME NEW j \in DOMAIN rest, j < i
              PROVE  rest[j].op # "add"
          <5>1. j + 1 \in DOMAIN lines /\ j + 1 < i + 1
            BY <1>2, <4>1
          <5> QED BY <1>2, <3>1, <5>1
        <4> QED BY <4>1
      <3> QED BY <1>4, <3>1, <3>2, <3>3
    <2> QED BY <2>1 DEF CheckedClean
  <1>7. BridgeFirst(rest, new)
    <2>1. ASSUME NEW i \in DOMAIN rest
          PROVE  /\ rest[i].op = "add" /\ rest[i].part # "bridge" =>
                       "bridge" \in new \/ \E j \in DOMAIN rest : j < i /\ rest[j] = Add("bridge")
                 /\ rest[i].op = "drop" => rest[i].part \notin {"bridge", "hotspot"}
      <3>1. /\ lines[i + 1].op = "add" /\ lines[i + 1].part # "bridge" =>
                  "bridge" \in parts \/ \E j \in DOMAIN lines : j < i + 1 /\ lines[j] = Add("bridge")
            /\ lines[i + 1].op = "drop" => lines[i + 1].part \notin {"bridge", "hotspot"}
            /\ lines[1].op = "drop" => lines[1].part \notin {"bridge", "hotspot"}
        BY <1>1, <1>2 DEF LinesFit, BridgeFirst
      <3>2. "bridge" \in parts => "bridge" \in new
        BY <3>1
      <3>3. ASSUME NEW j \in DOMAIN lines, j < i + 1, lines[j] = Add("bridge")
            PROVE  "bridge" \in new \/ \E k \in DOMAIN rest : k < i /\ rest[k] = Add("bridge")
        <4>1. CASE j = 1
          BY <3>3, <4>1 DEF Add
        <4>2. CASE j # 1
          <5>1. j - 1 \in DOMAIN rest /\ rest[j - 1] = Add("bridge") /\ j - 1 < i
            BY <1>2, <1>3, <3>3, <4>2
          <5> QED BY <5>1
        <4> QED BY <4>1, <4>2
      <3> QED BY <1>2, <3>1, <3>2, <3>3
    <2> QED BY <2>1 DEF BridgeFirst
  <1> QED BY <1>1, <1>5, <1>6, <1>7 DEF LinesFit, rest

-----------------------------------------------------------------------------
(* The kits fit the routers they are for *)

\* One list of lines behind another.
IsJoined(s, a, b) ==
    /\ s \in Seq(Line) /\ Len(s) = Len(a) + Len(b) /\ DOMAIN s = 1..(Len(a) + Len(b))
    /\ \A i \in 1..Len(a) : s[i] = a[i]
    /\ \A i \in 1..(Len(a) + Len(b)) : i > Len(a) => i - Len(a) \in 1..Len(b) /\ s[i] = b[i - Len(a)]
    /\ Len(a) + Len(b) > 0 => s # <<>>
LEMMA Joined ==
    ASSUME NEW a \in Seq(Line), NEW b \in Seq(Line)
    PROVE  IsJoined(a \o b, a, b)
  BY DEF IsJoined

\* One line alone.
LEMMA OneLine ==
    ASSUME NEW x \in Line
    PROVE  <<x>> \in Seq(Line) /\ Len(<<x>>) = 1 /\ <<x>>[1] = x
  OBVIOUS

NetPart(kit, i) == IF Network[i] = "wan" THEN WanPart(kit) ELSE Network[i]

LEMMA BuildFacts ==
    ASSUME NEW kit
    PROVE  /\ BuildLines(kit) \in Seq(Line) /\ Len(BuildLines(kit)) = 14
           /\ DOMAIN BuildLines(kit) = 1..14
           /\ \A i \in 1..14 : /\ BuildLines(kit)[i].op = "add" /\ BuildLines(kit)[i].part # "bridge"
           /\ \A i, j \in 1..14 : BuildLines(kit)[i] = BuildLines(kit)[j] => i = j
  <1> DEFINE B == [i \in 1..14 |-> Add(NetPart(kit, i))]
  <1>1. DOMAIN Network = 1..14
    BY DEF Network
  <1>2. BuildLines(kit) = B
    BY <1>1 DEF BuildLines, Adds, NetPart
  <1>w. WanPart(kit) \in {"wan", "fixed-wan", "pppoe-wan", "port-wan"}
    BY DEF WanPart
  <1>3. \A i \in 1..14 : NetPart(kit, i) \in KitParts /\ NetPart(kit, i) # "bridge"
    BY <1>w DEF NetPart, Network, KitParts
  <1>4. \A i, j \in 1..14 : NetPart(kit, i) = NetPart(kit, j) => i = j
    BY <1>w DEF NetPart, Network
  <1>5. \A i \in 1..14 : Add(NetPart(kit, i)) \in Line
    BY <1>3 DEF Add, Line, KitParts
  <1>6. B \in Seq(Line) /\ Len(B) = 14 /\ DOMAIN B = 1..14 /\ \A i \in 1..14 : B[i] = Add(NetPart(kit, i))
    BY <1>5
  <1> HIDE DEF B
  <1> QED BY <1>2, <1>3, <1>4, <1>6 DEF Add

\* Everything but hotspot and bridge that exists once only is dropped.
LEMMA CleanupFacts ==
    /\ CleanupLines \in Seq(Line) /\ Len(CleanupLines) = 12 /\ DOMAIN CleanupLines = 1..12
    /\ \A i \in 1..12 : CleanupLines[i].op = "drop" /\ CleanupLines[i].part \notin {"bridge", "hotspot"}
    /\ \A p \in {"ports", "address", "pool", "dhcp", "profile", "list", "nat"} :
          \E j \in 1..12 : CleanupLines[j] = Drop(p)
  <1> DEFINE D == <<"scheduler", "drops", "accepts", "nat", "network", "dhcp", "pool", "profile",
                    "address", "ports", "member", "list">>
  <1>1. DOMAIN D = 1..12
    OBVIOUS
  <1>2. \A i \in 1..12 : D[i] \notin {"bridge", "hotspot"} /\ D[i] \in KitParts
    BY DEF KitParts
  <1>3. /\ D[10] = "ports" /\ D[9] = "address" /\ D[7] = "pool" /\ D[6] = "dhcp" /\ D[8] = "profile"
        /\ D[12] = "list" /\ D[4] = "nat"
    OBVIOUS
  <1>4. CleanupLines = [i \in DOMAIN D |-> Drop(D[i])]
    BY DEF CleanupLines, Drops
  <1> HIDE DEF D
  <1>5. CleanupLines = [i \in 1..12 |-> Drop(D[i])]
    BY <1>1, <1>4
  <1>6. \A i \in 1..12 : Drop(D[i]) \in Line
    BY <1>2 DEF Drop, Line
  <1>7. CleanupLines \in Seq(Line) /\ Len(CleanupLines) = 12 /\ DOMAIN CleanupLines = 1..12
        /\ \A i \in 1..12 : CleanupLines[i] = Drop(D[i])
    BY <1>5, <1>6
  <1>8. {4, 6, 7, 8, 9, 10, 12} \subseteq 1..12
    OBVIOUS
  <1>9. \A p \in {"ports", "address", "pool", "dhcp", "profile", "list", "nat"} :
          \E j \in 1..12 : CleanupLines[j] = Drop(p)
    BY <1>3, <1>7, <1>8
  <1> QED BY <1>2, <1>7, <1>9 DEF Drop

\* A kit that builds on an empty router, with a check first or none.
LEMMA BuildsFit ==
    ASSUME NEW kit
    PROVE  LET lines == <<Add("bridge")>> \o BuildLines(kit) IN
           lines \in Seq(Line) /\ LinesFit(lines, {}) /\ lines # <<>>
  <1> DEFINE B == BuildLines(kit)
             lines == <<Add("bridge")>> \o B
  <1>1. /\ B \in Seq(Line) /\ Len(B) = 14 /\ DOMAIN B = 1..14
        /\ \A i \in 1..14 : B[i].op = "add" /\ B[i].part # "bridge"
        /\ \A i, j \in 1..14 : B[i] = B[j] => i = j
    BY BuildFacts
  <1>2. Add("bridge") \in Line /\ Add("bridge").op = "add" /\ Add("bridge").part = "bridge"
    BY DEF Add, Line, KitParts
  <1> HIDE DEF B
  <1> DEFINE a == <<Add("bridge")>>
  <1>a. a \in Seq(Line) /\ Len(a) = 1 /\ a[1] = Add("bridge")
    BY <1>2, OneLine
  <1> HIDE DEF a
  <1>b. lines = a \o B
    BY DEF a
  <1> HIDE DEF lines
  <1>c. /\ lines \in Seq(Line) /\ DOMAIN lines = 1..15 /\ (15 > 0 => lines # <<>>) /\ \A i \in 1..1 : lines[i] = a[i]
        /\ \A i \in 1..15 : i > 1 => i - 1 \in 1..14 /\ lines[i] = B[i - 1]
    <2>1. /\ lines \in Seq(Line) /\ DOMAIN lines = 1..(Len(a) + Len(B)) /\ (Len(a) + Len(B) > 0 => lines # <<>>)
          /\ \A i \in 1..Len(a) : lines[i] = a[i]
          /\ \A i \in 1..(Len(a) + Len(B)) : i > Len(a) => i - Len(a) \in 1..Len(B) /\ lines[i] = B[i - Len(a)]
      <3>1. a \in Seq(Line) /\ B \in Seq(Line)
        BY <1>1, <1>a
      <3>2. IsJoined(lines, a, B)
        BY <1>b, <3>1, Joined, Zenon
      <3> QED BY ONLY <3>2 DEF IsJoined
    <2>2. Len(a) + Len(B) = 15 /\ Len(a) = 1 /\ Len(B) = 14
      BY <1>1, <1>a
    <2> QED BY ONLY <2>1, <2>2
  <1>3. lines \in Seq(Line) /\ DOMAIN lines = 1..15 /\ lines[1] = Add("bridge") /\ lines # <<>>
    BY <1>a, <1>c
  <1>4. \A i \in 1..15 : i # 1 => i > 1 /\ i - 1 \in 1..14 /\ lines[i] = B[i - 1]
    BY <1>c
  <1>5. \A i \in 1..15 : lines[i].op = "add" /\ (lines[i].part = "bridge" => i = 1)
    BY <1>1, <1>2, <1>3, <1>4
  <1>6. \A i, j \in 1..15 : lines[i] = lines[j] => i = j
    <2>1. ASSUME NEW i \in 1..15, NEW j \in 1..15, lines[i] = lines[j]
          PROVE  i = j
      <3>1. CASE i = 1 \/ j = 1
        BY <1>2, <1>3, <1>5, <2>1, <3>1
      <3>2. CASE i # 1 /\ j # 1
        <4>1. B[i - 1] = B[j - 1] /\ i - 1 \in 1..14 /\ j - 1 \in 1..14
          BY <1>4, <2>1, <3>2
        <4>2. i - 1 = j - 1
          BY <1>1, <4>1
        <4> QED BY <4>2
      <3> QED BY <3>1, <3>2
    <2> QED BY <2>1
  <1>7. AddedOnce(lines, {})
    BY <1>3, <1>6 DEF AddedOnce
  <1>8. CheckedClean(lines, {})
    BY <1>3, <1>5 DEF CheckedClean
  <1>9. BridgeFirst(lines, {})
    <2>1. \A i \in 1..15 : lines[i].op # "drop" /\ (lines[i].part # "bridge" => 1 < i)
      BY <1>2, <1>3, <1>5
    <2> QED BY <1>3, <2>1 DEF BridgeFirst
  <1> QED BY <1>3, <1>7, <1>8, <1>9 DEF LinesFit, lines, B

\* A check before lines that fit, on an empty router.
LEMMA CheckFirstFits ==
    ASSUME NEW rest \in Seq(Line), LinesFit(rest, {})
    PROVE  LET lines == <<Check>> \o rest IN
           lines \in Seq(Line) /\ LinesFit(lines, {}) /\ lines # <<>>
  <1> DEFINE lines == <<Check>> \o rest
             n == Len(rest)
  <1>1. Check \in Line /\ Check.op = "check"
    BY DEF Check, Line, KitParts
  <1>2. /\ lines \in Seq(Line) /\ DOMAIN lines = 1..(n + 1) /\ lines[1] = Check /\ n \in Nat /\ DOMAIN rest = 1..n
        /\ \A i \in 1..(n + 1) : i # 1 => i - 1 \in DOMAIN rest /\ lines[i] = rest[i - 1]
    BY <1>1
  <1>3. \A j \in 1..n : j + 1 \in DOMAIN lines /\ lines[j + 1] = rest[j]
    BY <1>2
  <1> HIDE DEF lines, n
  <1>4. AddedOnce(lines, {})
    <2>1. ASSUME NEW i \in DOMAIN lines, lines[i].op = "add", lines[i].part \in Unique,
                 NEW j \in DOMAIN lines, j < i
          PROVE  lines[j] # lines[i]
      <3>1. i # 1 /\ i - 1 \in DOMAIN rest /\ lines[i] = rest[i - 1]
        BY <1>1, <1>2, <2>1
      <3>2. CASE j = 1
        BY <1>1, <1>2, <2>1, <3>2
      <3>3. CASE j # 1
        <4>1. j - 1 \in DOMAIN rest /\ lines[j] = rest[j - 1] /\ j - 1 < i - 1
          BY <1>2, <2>1, <3>3
        <4> QED BY <2>1, <3>1, <4>1 DEF LinesFit, AddedOnce
      <3> QED BY <3>2, <3>3
    <2> QED BY <2>1 DEF AddedOnce
  <1>5. CheckedClean(lines, {})
    <2>1. ASSUME NEW i \in DOMAIN lines, lines[i].op = "check", NEW j \in DOMAIN lines, j < i
          PROVE  lines[j].op # "add"
      <3>1. i # 1 /\ i - 1 \in DOMAIN rest /\ lines[i] = rest[i - 1]
        BY <1>2, <2>1
      <3>2. CASE j = 1
        BY <1>1, <1>2, <3>2
      <3>3. CASE j # 1
        <4>1. j - 1 \in DOMAIN rest /\ lines[j] = rest[j - 1] /\ j - 1 < i - 1
          BY <1>2, <2>1, <3>3
        <4> QED BY <2>1, <3>1, <4>1 DEF LinesFit, CheckedClean
      <3> QED BY <3>2, <3>3
    <2> QED BY <2>1 DEF CheckedClean
  <1>6. BridgeFirst(lines, {})
    <2>1. ASSUME NEW i \in DOMAIN lines
          PROVE  /\ lines[i].op = "add" /\ lines[i].part # "bridge" =>
                       \E j \in DOMAIN lines : j < i /\ lines[j] = Add("bridge")
                 /\ lines[i].op = "drop" => lines[i].part \notin {"bridge", "hotspot"}
      <3>1. CASE i = 1
        BY <1>1, <1>2, <3>1
      <3>2. CASE i # 1
        <4>1. i - 1 \in DOMAIN rest /\ lines[i] = rest[i - 1]
          BY <1>2, <2>1, <3>2
        <4>2. ASSUME NEW k \in DOMAIN rest, k < i - 1, rest[k] = Add("bridge")
              PROVE  \E j \in DOMAIN lines : j < i /\ lines[j] = Add("bridge")
          <5>1. k + 1 \in DOMAIN lines /\ k + 1 < i /\ lines[k + 1] = Add("bridge")
            BY <1>2, <1>3, <4>2
          <5> QED BY <5>1
        <4> QED BY <4>1, <4>2 DEF LinesFit, BridgeFirst
      <3> QED BY <3>1, <3>2
    <2> QED BY <2>1 DEF BridgeFirst
  <1> QED BY <1>2, <1>4, <1>5, <1>6 DEF LinesFit, lines

\* Taking up a half-built network: the cleanup, the check, and the build.
LEMMA ResumeFits ==
    ASSUME NEW parts, "bridge" \in parts, "hotspot" \notin parts
    PROVE  LET lines == CleanupLines \o <<Check>> \o BuildLines("auto") IN
           lines \in Seq(Line) /\ LinesFit(lines, parts) /\ lines # <<>>
  <1> DEFINE C == CleanupLines
             B == BuildLines("auto")
             lines == C \o <<Check>> \o B
  <1>1. /\ B \in Seq(Line) /\ Len(B) = 14 /\ DOMAIN B = 1..14
        /\ \A i \in 1..14 : B[i].op = "add" /\ B[i].part # "bridge"
        /\ \A i, j \in 1..14 : B[i] = B[j] => i = j
    BY BuildFacts
  <1>2. /\ C \in Seq(Line) /\ Len(C) = 12 /\ DOMAIN C = 1..12
        /\ \A i \in 1..12 : C[i].op = "drop" /\ C[i].part \notin {"bridge", "hotspot"}
        /\ \A p \in {"ports", "address", "pool", "dhcp", "profile", "list", "nat"} : \E j \in 1..12 : C[j] = Drop(p)
    BY CleanupFacts
  <1>3. Check \in Line /\ Check.op = "check"
    BY DEF Check, Line, KitParts
  <1> HIDE DEF B, C
  <1> DEFINE c == <<Check>>
             D == C \o c
  <1>4. D \in Seq(Line) /\ Len(D) = 13 /\ D[13] = Check /\ \A i \in 1..12 : D[i] = C[i]
    <2>1. c \in Seq(Line) /\ Len(c) = 1 /\ c[1] = Check
      BY <1>3, OneLine
    <2>2. D = C \o c
      OBVIOUS
    <2> HIDE DEF c, D
    <2>3. /\ D \in Seq(Line) /\ Len(D) = Len(C) + Len(c) /\ \A i \in 1..Len(C) : D[i] = C[i]
          /\ \A i \in 1..(Len(C) + Len(c)) : i > Len(C) => i - Len(C) \in 1..Len(c) /\ D[i] = c[i - Len(C)]
      <3>1. C \in Seq(Line) /\ c \in Seq(Line)
        BY <1>2, <2>1
      <3>2. IsJoined(D, C, c)
        BY <2>2, <3>1, Joined, Zenon
      <3> QED BY ONLY <3>2 DEF IsJoined
    <2>4. Len(C) + Len(c) = 13 /\ Len(C) = 12 /\ Len(c) = 1
      BY <1>2, <2>1
    <2>5. /\ D \in Seq(Line) /\ Len(D) = 13 /\ \A i \in 1..12 : D[i] = C[i]
          /\ \A i \in 1..13 : i > 12 => D[i] = c[i - 12]
      BY ONLY <2>3, <2>4
    <2>6. D[13] = c[1]
      BY ONLY <2>5
    <2> QED BY ONLY <2>1, <2>5, <2>6
  <1>5. /\ lines \in Seq(Line) /\ DOMAIN lines = 1..27 /\ lines[13] = Check /\ lines # <<>>
        /\ \A i \in 1..12 : lines[i] = C[i]
        /\ \A i \in 1..27 : i > 13 => i - 13 \in 1..14 /\ lines[i] = B[i - 13]
    <2>1. lines = D \o B
      OBVIOUS
    <2> HIDE DEF D, lines
    <2>2. /\ lines \in Seq(Line) /\ DOMAIN lines = 1..(Len(D) + Len(B)) /\ (Len(D) + Len(B) > 0 => lines # <<>>)
          /\ \A i \in 1..Len(D) : lines[i] = D[i]
          /\ \A i \in 1..(Len(D) + Len(B)) : i > Len(D) => i - Len(D) \in 1..Len(B) /\ lines[i] = B[i - Len(D)]
      <3>1. D \in Seq(Line) /\ B \in Seq(Line)
        BY <1>1, <1>4
      <3>2. IsJoined(lines, D, B)
        BY <2>1, <3>1, Joined, Zenon
      <3> QED BY ONLY <3>2 DEF IsJoined
    <2>3. Len(D) + Len(B) = 27 /\ Len(D) = 13 /\ Len(B) = 14
      BY <1>1, <1>4
    <2>4. /\ lines \in Seq(Line) /\ DOMAIN lines = 1..27 /\ lines # <<>>
          /\ \A i \in 1..13 : lines[i] = D[i]
          /\ \A i \in 1..27 : i > 13 => i - 13 \in 1..14 /\ lines[i] = B[i - 13]
      BY ONLY <2>2, <2>3
    <2>5. D[13] = Check /\ \A i \in 1..12 : D[i] = C[i]
      BY <1>4
    <2>6. lines[13] = D[13] /\ \A i \in 1..12 : lines[i] = D[i]
      BY <2>4
    <2> QED BY <2>4, <2>5, <2>6
  <1> HIDE DEF lines, D, c
  <1>r. \A i \in 1..27 : i \in 1..12 \/ i = 13 \/ i > 13
    OBVIOUS
  <1>6. \A i \in 1..27 : \/ i \in 1..12 /\ lines[i].op = "drop" /\ lines[i].part \notin {"bridge", "hotspot"}
                         \/ i = 13 /\ lines[i].op = "check"
                         \/ i > 13 /\ i - 13 \in 1..14 /\ lines[i] = B[i - 13] /\ lines[i].op = "add"
                            /\ lines[i].part # "bridge"
    <2>1. ASSUME NEW i \in 1..27, i \in 1..12  PROVE  lines[i].op = "drop" /\ lines[i].part \notin {"bridge", "hotspot"}
      BY <1>2, <1>5, <2>1
    <2>2. lines[13].op = "check"
      BY <1>3, <1>5
    <2>3. ASSUME NEW i \in 1..27, i > 13
          PROVE  i - 13 \in 1..14 /\ lines[i] = B[i - 13] /\ lines[i].op = "add" /\ lines[i].part # "bridge"
      <3>1. i - 13 \in 1..14 /\ lines[i] = B[i - 13]
        BY <1>5, <2>3
      <3> QED BY <1>1, <3>1
    <2> QED BY <1>r, <2>1, <2>2, <2>3, Zenon
  <1>7. \A p \in {"ports", "address", "pool", "dhcp", "profile", "list", "nat"} :
          \E j \in 1..27 : j < 13 /\ lines[j] = Drop(p)
    <2>1. \A j \in 1..12 : j \in 1..27 /\ j < 13
      OBVIOUS
    <2> QED BY <1>2, <1>5, <2>1
  <1>8. AddedOnce(lines, parts)
    <2>1. ASSUME NEW i \in DOMAIN lines, lines[i].op = "add", lines[i].part \in Unique
          PROVE  /\ lines[i].part \notin parts \/ \E j \in DOMAIN lines : j < i /\ lines[j] = Drop(lines[i].part)
                 /\ \A j \in DOMAIN lines : j < i => lines[j] # lines[i]
      <3>1. i > 13 /\ i - 13 \in 1..14 /\ lines[i] = B[i - 13] /\ lines[i].part # "bridge"
        BY <1>5, <1>6, <2>1
      <3>2. lines[i].part = "hotspot" \/ lines[i].part \in {"ports", "address", "pool", "dhcp", "profile", "list", "nat"}
        BY <2>1, <3>1 DEF Unique
      <3>3. lines[i].part \notin parts \/ \E j \in DOMAIN lines : j < i /\ lines[j] = Drop(lines[i].part)
        <4>1. \A j \in 1..27 : j < 13 => j < i
          <5>1. i \in 1..27 /\ i > 13
            BY <1>5, <3>1
          <5> QED BY <5>1
        <4> QED BY <1>5, <1>7, <3>2, <4>1
      <3>4. ASSUME NEW j \in DOMAIN lines, j < i, lines[j] = lines[i]
            PROVE  FALSE
        <4>1. j - 13 \in 1..14 /\ lines[j] = B[j - 13]
          BY <1>5, <1>6, <2>1, <3>4
        <4>2. j - 13 = i - 13
          BY <1>1, <3>1, <3>4, <4>1
        <4> QED BY <3>1, <3>4, <4>1, <4>2
      <3> QED BY <3>3, <3>4
    <2> QED BY <2>1 DEF AddedOnce
  <1>9. CheckedClean(lines, parts)
    <2>1. ASSUME NEW i \in DOMAIN lines, lines[i].op = "check"
          PROVE  i = 13
      BY <1>5, <1>6, <2>1
    <2>2. \A j \in DOMAIN lines : j < 13 => lines[j].op # "add"
      <3>1. \A j \in 1..27 : j < 13 => j # 13 /\ ~(j > 13)
        OBVIOUS
      <3> QED BY <1>5, <1>6, <3>1
    <2> QED BY <1>5, <1>7, <2>1, <2>2 DEF CheckedClean
  <1>10. BridgeFirst(lines, parts)
    BY <1>5, <1>6 DEF BridgeFirst
  <1> QED BY <1>5, <1>8, <1>9, <1>10 DEF LinesFit, lines, B, C, D, c

-----------------------------------------------------------------------------
(* The steps *)

\* Nothing left to run fits any router.
LEMMA EmptyFits == <<>> \in Seq(Line) /\ \A parts : LinesFit(<<>>, parts)
  BY DEF LinesFit, AddedOnce, CheckedClean, BridgeFirst

\* The scheduler alone fits a router with a bridge.
LEMMA SchedulerFits ==
    ASSUME NEW parts, "bridge" \in parts
    PROVE  <<Add("scheduler")>> \in Seq(Line) /\ LinesFit(<<Add("scheduler")>>, parts) /\ <<Add("scheduler")>> # <<>>
  BY DEF LinesFit, AddedOnce, CheckedClean, BridgeFirst, Add, Line, KitParts, Unique

\* What a kit will run is lines, and fits a router without anything of the
\* owner's; the automatic kit always has some.
LEMMA KitsFit ==
    ASSUME NEW kit, foreign = {}, PartsStand
    PROVE  /\ LinesFit(LinesOf(kit), own)
           /\ kit = "auto" => LinesOf(kit) # <<>>
  <1>1. /\ Hotspots = IF "hotspot" \in own THEN 1 ELSE 0
        /\ Bridges = IF "bridge" \in own THEN 1 ELSE 0
    BY OwnRouter
  <1>2. LinesFit(AutoLines, own) /\ AutoLines # <<>>
    <2>1. CASE "hotspot" \in own
      <3>0. "bridge" \in own /\ Hotspots = 1 /\ Bridges >= 1
        BY <1>1, <2>1 DEF PartsStand
      <3>1. AutoLines = <<Add("scheduler")>> /\ "bridge" \in own
        BY <3>0 DEF AutoLines, HalfBuilt
      <3> QED BY <3>1, SchedulerFits
    <2>2. CASE "hotspot" \notin own /\ "bridge" \in own
      <3>1. AutoLines = CleanupLines \o <<Check>> \o BuildLines("auto")
        BY <1>1, <2>2 DEF AutoLines, PartsStand, HalfBuilt
      <3> QED BY <2>2, <3>1, ResumeFits
    <2>3. CASE "bridge" \notin own
      <3>1. own = {} /\ Hotspots = 0 /\ Bridges = 0
        BY <1>1, <2>3 DEF PartsStand
      <3>2. AutoLines = <<Check, Add("bridge")>> \o BuildLines("auto")
        BY <3>1 DEF AutoLines, HalfBuilt
      <3>3. AutoLines = <<Check>> \o (<<Add("bridge")>> \o BuildLines("auto"))
        <4>1. <<Check, Add("bridge")>> = <<Check>> \o <<Add("bridge")>>
          OBVIOUS
        <4>2. Check \in Line /\ Add("bridge") \in Line /\ BuildLines("auto") \in Seq(Line)
          BY BuildFacts DEF Check, Add, Line, KitParts
        <4>3. \A a, b, c \in Seq(Line) : (a \o b) \o c = a \o (b \o c)
          BY ConcatAssociative
        <4>4. <<Check>> \in Seq(Line) /\ <<Add("bridge")>> \in Seq(Line)
          BY <4>2
        <4> QED BY <3>2, <4>1, <4>2, <4>3, <4>4
      <3>4. (<<Add("bridge")>> \o BuildLines("auto")) \in Seq(Line) /\ LinesFit(<<Add("bridge")>> \o BuildLines("auto"), {})
        BY BuildsFit
      <3> QED BY <3>1, <3>3, <3>4, CheckFirstFits
    <2> QED BY <2>1, <2>2, <2>3
  <1>3. LinesFit(ExistingLines, own)
    <2>1. CASE Hotspots > 0 /\ Bridges > 0
      BY <1>1, <2>1, SchedulerFits DEF ExistingLines
    <2>2. CASE ~(Hotspots > 0 /\ Bridges > 0)
      BY <2>2, EmptyFits DEF ExistingLines
    <2> QED BY <2>1, <2>2
  <1>4. LinesFit(NewLines(kit), own)
    <2>1. CASE Bridges > 0 \/ Hotspots > 0
      BY <2>1, EmptyFits DEF NewLines
    <2>2. CASE ~(Bridges > 0 \/ Hotspots > 0)
      <3>1. own = {}
        BY <1>1, <2>2 DEF PartsStand
      <3>2. NewLines(kit) = <<Add("bridge")>> \o BuildLines(kit)
        BY <2>2 DEF NewLines
      <3> QED BY <3>1, <3>2, BuildsFit
    <2> QED BY <2>1, <2>2
  <1> QED BY <1>2, <1>3, <1>4 DEF LinesOf

\* The lines of any kit on any router are lines.
LEMMA KitLines ==
    ASSUME NEW kit
    PROVE  LinesOf(kit) \in Seq(Line)
  <1>1. <<Add("scheduler")>> \in Seq(Line) /\ <<>> \in Seq(Line)
    BY DEF Add, Line, KitParts
  <1>2. /\ CleanupLines \in Seq(Line) /\ BuildLines("auto") \in Seq(Line) /\ BuildLines(kit) \in Seq(Line)
        /\ <<Check>> \in Seq(Line) /\ <<Add("bridge")>> \in Seq(Line) /\ <<Check, Add("bridge")>> \in Seq(Line)
    <2>1. Check \in Line /\ Add("bridge") \in Line
      BY DEF Check, Add, Line, KitParts
    <2> QED BY <2>1, CleanupFacts, BuildFacts
  <1>3. \A a, b \in Seq(Line) : a \o b \in Seq(Line)
    OBVIOUS
  <1>4. AutoLines \in Seq(Line)
    <2>1. AutoLines \in {<<Add("scheduler")>>, CleanupLines \o <<Check>> \o BuildLines("auto"),
                         <<Check, Add("bridge")>> \o BuildLines("auto"), <<>>}
      BY DEF AutoLines
    <2>2. /\ CleanupLines \o <<Check>> \in Seq(Line)
          /\ CleanupLines \o <<Check>> \o BuildLines("auto") \in Seq(Line)
          /\ <<Check, Add("bridge")>> \o BuildLines("auto") \in Seq(Line)
      BY <1>2, <1>3, Zenon
    <2> QED BY <1>1, <2>1, <2>2, Zenon
  <1>5. ExistingLines \in Seq(Line)
    BY <1>1 DEF ExistingLines
  <1>6. NewLines(kit) \in Seq(Line)
    BY <1>1, <1>2, <1>3 DEF NewLines
  <1> QED BY <1>4, <1>5, <1>6 DEF LinesOf

\* What a step has to leave.
LEMMA SetupInvNext ==
    ASSUME todo' \in Seq(Line), "plain" \notin refused', foreign' = {} => LinesFit(todo', own'),
           foreign' = {} => /\ "poller" \in own' => "hotspot" \in own'
                            /\ "hotspot" \in own' => "bridge" \in own'
                            /\ "bridge" \notin own' => own' = {}
    PROVE  SetupInv'
  <1>1. LinesFit(todo, own)' = LinesFit(todo', own')
    BY DEF LinesFit, AddedOnce, CheckedClean, BridgeFirst
  <1> QED BY <1>1 DEF SetupInv, PartsStand, HalfBuiltResumes

\* Nothing is to run on a router with nothing on it.
LEMMA SetupInitInv == SetupInit => SetupInv
  BY EmptyFits DEF SetupInit, SetupInv, PartsStand, HalfBuiltResumes

\* Every line of a kit and every cut keeps the rest fitting the router.
LEMMA SetupNextInv == SetupInv /\ [SetupNext]_setupVars => SetupInv'
  <1> SUFFICES ASSUME SetupInv, [SetupNext]_setupVars PROVE SetupInv'
    OBVIOUS
  <1>0. todo \in Seq(Line) /\ (foreign = {} => PartsStand /\ LinesFit(todo, own)) /\ "plain" \notin refused
    BY DEF SetupInv, HalfBuiltResumes
  <1>1. ASSUME NEW kit \in Kits_, SetupPaste(kit)
        PROVE  SetupInv'
    <2>1. todo' = LinesOf(kit) /\ UNCHANGED <<own, foreign>>
          /\ refused' = refused \cup {w \in {"plain"} : kit = "auto" /\ todo' = <<>> /\ foreign = {}}
      BY <1>1 DEF SetupPaste
    <2>2. todo' \in Seq(Line)
      BY <2>1, KitLines
    <2>3. foreign = {} => LinesFit(todo', own) /\ (kit = "auto" => todo' # <<>>)
      BY <1>0, <2>1, KitsFit
    <2>4. "plain" \notin refused' /\ own' = own /\ foreign' = foreign
      BY <1>0, <2>1, <2>3
    <2> QED BY <1>0, <2>2, <2>3, <2>4, SetupInvNext DEF PartsStand
  <1>2. ASSUME NEW up \in BOOLEAN, SetupLine(up)
        PROVE  SetupInv'
    <2> DEFINE line == Head(todo)
               fails == \/ line.op = "check" /\ ~CheckPasses(up)
                        \/ line.op = "add" /\ line.part \in Unique \cap own
               new == (own \cup (IF line.op = "add" THEN {line.part} ELSE {}))
                         \ (IF line.op = "drop" THEN {line.part} ELSE {})
    <2>1. /\ todo # <<>> /\ foreign' = foreign
          /\ own' = IF fails THEN own ELSE new
          /\ todo' = IF fails THEN <<>> ELSE Tail(todo)
          /\ refused' = refused \cup {w \in {IF own \cap OwnWan = {} THEN "plain" ELSE "own-wan"} :
                                         fails /\ foreign = {}}
      BY <1>2 DEF SetupLine
    <2>2. line = todo[1] /\ 1 \in DOMAIN todo /\ line \in Line /\ Tail(todo) \in Seq(Line)
          /\ \A j \in DOMAIN todo : ~(j < 1)
      BY <1>0, <2>1
    <2>3. ASSUME foreign = {}, fails
          PROVE  own \cap OwnWan # {}
      <3>1. line.op = "add" => line.part \notin Unique \cap own
        BY <1>0, <2>2, <2>3 DEF LinesFit, AddedOnce
      <3>2. line.op = "check" => {"dhcp", "nat", "address"} \cap own = {}
        BY <1>0, <2>2, <2>3 DEF LinesFit, CheckedClean
      <3>3. line.op = "check" /\ ~CheckPasses(up)
        BY <2>3, <3>1
      <3> QED BY <2>3, <3>2, <3>3 DEF CheckPasses, OwnWan
    <2>4. ASSUME foreign = {}, ~fails
          PROVE  LinesFit(Tail(todo), new)
      <3>1. \/ line.op = "add" /\ new = own \cup {line.part}
            \/ line.op = "drop" /\ new = own \ {line.part}
            \/ line.op = "check" /\ new = own
        BY <2>2 DEF Line
      <3> HIDE DEF new
      <3> QED BY <1>0, <2>1, <2>2, <2>4, <3>1, TailFits
    <2>5. ASSUME foreign = {}, own' = new
          PROVE  PartsStand'
      <3>1. /\ line.op = "add" /\ line.part # "bridge" => "bridge" \in own
            /\ line.op = "drop" => line.part \notin {"bridge", "hotspot"}
        BY <1>0, <2>2, <2>5 DEF LinesFit, BridgeFirst
      <3>2. line.op = "add" => line.part # "poller"
        BY <2>2 DEF Line, KitParts
      <3> QED BY <1>0, <2>5, <3>1, <3>2 DEF PartsStand
    <2>6. CASE fails
      <3>1. own' = own /\ todo' = <<>> /\ foreign' = foreign
        BY <2>1, <2>6
      <3>2. "plain" \notin refused'
        BY <1>0, <2>1, <2>3, <2>6
      <3> HIDE DEF fails, new
      <3> QED BY <1>0, <3>1, <3>2, EmptyFits, SetupInvNext DEF PartsStand
    <2>7. CASE ~fails
      <3>1. own' = new /\ todo' = Tail(todo) /\ "plain" \notin refused'
        <4> HIDE DEF fails, new
        <4> QED BY <1>0, <2>1, <2>7
      <3>2. foreign = {} => LinesFit(todo', own') /\ PartsStand'
        <4> HIDE DEF new
        <4> QED BY <2>4, <2>5, <2>7, <3>1
      <3> HIDE DEF new, fails
      <3> QED BY <2>1, <2>2, <3>1, <3>2, SetupInvNext DEF PartsStand
    <2> QED BY <2>6, <2>7
  <1>3. ASSUME SetupCut
        PROVE  SetupInv'
    BY <1>0, <1>3, EmptyFits, SetupInvNext DEF SetupCut, PartsStand
  <1>4. ASSUME NEW whole \in BOOLEAN, SetupInstall(whole)
        PROVE  SetupInv'
    <2>1. UNCHANGED <<foreign, todo, refused>> /\ own' \in {own \cup {"poller"}, own \ {"poller"}} /\ Hotspots = 1
      BY <1>4 DEF SetupInstall
    <2>2. foreign = {} => "hotspot" \in own /\ "bridge" \in own
      BY <1>0, <2>1, OwnRouter DEF PartsStand
    <2>3. \A p : p # "poller" => (p \in own' <=> p \in own)
      BY <2>1
    <2>4. foreign = {} => LinesFit(todo, own')
      BY <1>0, <2>3 DEF LinesFit, AddedOnce, CheckedClean, BridgeFirst, Unique
    <2> QED BY <1>0, <2>1, <2>2, <2>3, <2>4, SetupInvNext DEF PartsStand
  <1>5. ASSUME SetupSync
        PROVE  SetupInv'
    <2>1. UNCHANGED <<foreign, todo, refused>> /\ own' = own \ {"scheduler"} /\ "poller" \in own
      BY <1>5 DEF SetupSync
    <2>3. \A p : p # "scheduler" => (p \in own' <=> p \in own)
      BY <2>1
    <2>4. foreign = {} => LinesFit(todo, own')
      BY <1>0, <2>3 DEF LinesFit, AddedOnce, CheckedClean, BridgeFirst, Unique
    <2> QED BY <1>0, <2>1, <2>3, <2>4, SetupInvNext DEF PartsStand
  <1>6. ASSUME UNCHANGED setupVars
        PROVE  SetupInv'
    BY <1>0, <1>6, SetupInvNext DEF setupVars, PartsStand
  <1> QED
    <2>1. CASE SetupNext
      BY <2>1, <1>1, <1>2, <1>3, <1>4, <1>5 DEF SetupNext
    <2> QED BY <2>1, <1>6

\* For any router an owner has nothing on, any kits pasted in any order and cut
\* off after any line, and any imports in between: the automatic kit is not
\* refused and none of its lines meets a leftover, unless an advanced kit left
\* an internet line of its own there: a fixed address, a PPPoE client, a DHCP
\* client on another port (router-setup.js automaticRouterDetectionLines, "It
\* can resume one clearly tagged, incomplete Wi-Fi Fiti setup").
THEOREM KitsResume == SetupSpec => []HalfBuiltResumes
  <1>1. SetupInv => HalfBuiltResumes
    BY DEF SetupInv
  <1> QED BY SetupInitInv, SetupNextInv, <1>1, PTL DEF SetupSpec

=============================================================================
