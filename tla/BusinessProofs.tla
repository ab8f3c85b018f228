---------------------------- MODULE BusinessProofs ----------------------------
(***************************************************************************)
(* One account at Tuma for a tenant, for any number of saves and days; the  *)
(* days a business gets for what it pays Wi-Fi Fiti, for any number of      *)
(* checkouts, reports and days; the time a prompt or a code of the original *)
(* hotspot gives, through every crash and retry, and that time left can be  *)
(* used, for any number of purchases and polls; how often a message goes    *)
(* out, and what becomes of the credits bought for it, with any number of   *)
(* workers, purchases and restarts; who may sign in, for any                *)
(* number of emails, workspaces, team members and invites; and who sells on *)
(* a free trial, for any number of workspaces, numbers and payout accounts. *)
(***************************************************************************)
EXTENDS Payouts, PlatformBilling, LegacySite, Messages, Accounts, TrialGuard, Sums, FiniteSetTheorems,
        TLAPS

-----------------------------------------------------------------------------
(* The inductive invariant *)

PyTypeOK ==
    /\ place \in [mode : {"none", "managed", "linked"}, id : PyIds \cup {0},
                  active : BOOLEAN, ended : BOOLEAN]
    /\ atTuma \in [PyIds -> {"none", "on", "off"}]
    /\ inFlight \in BOOLEAN /\ lost \in BOOLEAN /\ sweeping \in {"idle", "off", "on"}
    /\ saving \in [PySaves -> [at : {"idle", "checking", "updating", "creating", "verifying"},
                              id : PyIds \cup {0}]]

\* The guard lets one save through at a time.
OneSave ==
    /\ \A s \in PySaves : saving[s].at # "idle" => inFlight
    /\ \A s, t \in PySaves : saving[s].at # "idle" /\ saving[t].at # "idle" => s = t

\* An account that is known here exists at Tuma.
KnownExist ==
    /\ place.mode = "none" => place = NoPlace
    /\ place.id # 0 => place.id \in Created
    /\ \A s \in PySaves : saving[s].at = "verifying" => saving[s].id \in Created

\* While no creation failed: an account at Tuma is on its way into the
\* tenant's row or the row is there, and nobody creates another.
OneCreated ==
    ~lost => /\ \A i, j \in Created : i = j
             /\ Created # {} => \/ place # NoPlace
                               \/ \E s \in PySaves : saving[s].at = "verifying"
             /\ (\E s \in PySaves : saving[s].at = "creating") => Created = {}

PyInv == PyTypeOK /\ OneSave /\ KnownExist /\ OneCreated

-----------------------------------------------------------------------------
(* The steps *)

\* Ids are numbers from 1.
LEMMA IdsArePositive == 0 \notin PyIds
  BY PayoutsAssumption, FS_CardinalityType

\* A step of the sweep or a prompt tells Tuma of an account that exists.
LEMMA TellingCreatesNothing ==
    ASSUME PyInv, NEW state \in {"on", "off"}, TumaTold(state)
    PROVE  atTuma' \in [PyIds -> {"none", "on", "off"}] /\ Created' = Created
  <1>1. CASE UNCHANGED atTuma
    BY <1>1 DEF PyInv, PyTypeOK, Created
  <1>2. CASE place.id # 0 /\ atTuma' = Told(place.id, state)
    <2>1. place.id \in PyIds /\ atTuma[place.id] # "none"
      BY <1>2 DEF PyInv, KnownExist, Created
    <2> QED BY <1>2, <2>1 DEF PyInv, PyTypeOK, Told, Created
  <1> QED BY <1>1, <1>2 DEF TumaTold

\* Whatever becomes of the row: no save moves and nothing is created.
LEMMA RowSteps ==
    ASSUME PyInv, UNCHANGED <<inFlight, saving, lost>>,
           atTuma' \in [PyIds -> {"none", "on", "off"}], Created' = Created,
           place' \in [mode : {"none", "managed", "linked"}, id : PyIds \cup {0},
                       active : BOOLEAN, ended : BOOLEAN],
           place'.mode = "none" => place' = NoPlace,
           place'.id \in {0, place.id}, place # NoPlace => place' # NoPlace,
           sweeping' \in {"idle", "off", "on"}
    PROVE  PyInv'
  <1>1. PyTypeOK' /\ OneSave'
    BY DEF PyInv, PyTypeOK, OneSave
  <1>2. KnownExist'
    BY DEF PyInv, KnownExist
  <1>3. OneCreated'
    BY DEF PyInv, OneCreated
  <1> QED BY <1>1, <1>2, <1>3 DEF PyInv

LEMMA OwnerRowSteps ==
    ASSUME PyInv,
           \/ StandingChanges \/ NextDay \/ LinkStart \/ Disconnect \/ PySweep
           \/ PromptStart \/ PromptResumes \/ PromptGoes
           \/ \E ok \in BOOLEAN : LinkDone(ok)
           \/ UNCHANGED pyVars
    PROVE  PyInv'
  <1>1. UNCHANGED <<inFlight, saving, lost>>
    BY DEF StandingChanges, NextDay, LinkStart, Disconnect, PySweep, SweepReads, SweepDone,
           PromptStart, PromptResumes, PromptGoes, LinkDone, pyVars
  <1>0. sweeping \in {"idle", "off", "on"} /\ sweeping' \in {"idle", "off", "on"}
    BY DEF StandingChanges, NextDay, LinkStart, Disconnect, PySweep, SweepReads, SweepDone,
           PromptStart, PromptResumes, PromptGoes, LinkDone, pyVars, PyInv, PyTypeOK
  <1>2. place \in [mode : {"none", "managed", "linked"}, id : PyIds \cup {0},
                   active : BOOLEAN, ended : BOOLEAN]
    BY DEF PyInv, PyTypeOK
  <1>3. CASE UNCHANGED <<place, atTuma>>
    BY <1>0, <1>1, <1>2, <1>3, RowSteps DEF PyInv, PyTypeOK, Created, KnownExist
  <1>4. CASE LinkStart
    BY <1>3, <1>4 DEF LinkStart
  <1>5. CASE Disconnect
    <2>1. UNCHANGED atTuma /\ place.mode = "linked" /\ place' = [place EXCEPT !.active = FALSE]
      BY <1>5 DEF Disconnect
    <2>2. /\ place' \in [mode : {"none", "managed", "linked"}, id : PyIds \cup {0},
                         active : BOOLEAN, ended : BOOLEAN]
          /\ place'.mode = "linked" /\ place'.id = place.id /\ place' # NoPlace
      BY <1>2, <2>1 DEF NoPlace
    <2> QED BY <1>0, <1>1, <2>1, <2>2, RowSteps DEF PyInv, PyTypeOK, Created
  <1>6. CASE \E ok \in BOOLEAN : LinkDone(ok)
    <2>1. UNCHANGED atTuma /\ place' \in {place, Linked}
      BY <1>6 DEF LinkDone
    <2>2. Linked \in [mode : {"none", "managed", "linked"}, id : PyIds \cup {0},
                      active : BOOLEAN, ended : BOOLEAN]
          /\ Linked.id = 0 /\ Linked.mode = "linked" /\ Linked # NoPlace
      BY DEF Linked, NoPlace
    <2> QED BY <1>0, <1>1, <1>2, <2>1, <2>2, RowSteps DEF PyInv, PyTypeOK, Created, KnownExist
  <1>7. ASSUME Resumed \in {place'} PROVE
               /\ place' \in [mode : {"none", "managed", "linked"}, id : PyIds \cup {0},
                              active : BOOLEAN, ended : BOOLEAN]
               /\ place'.mode = place.mode /\ place'.id = place.id
               /\ place = NoPlace <=> place' = NoPlace
    <2>1. CASE place = NoPlace
      BY <1>2, <1>7, <2>1 DEF Resumed
    <2>2. CASE place # NoPlace
      <3> DEFINE on == [place EXCEPT !.active = TRUE, !.ended = FALSE]
      <3>1. place' = on
        BY <1>7, <2>2 DEF Resumed
      <3>2. /\ on \in [mode : {"none", "managed", "linked"}, id : PyIds \cup {0},
                        active : BOOLEAN, ended : BOOLEAN]
            /\ on.mode = place.mode /\ on.id = place.id /\ on.active = TRUE
        BY <1>2
      <3>3. NoPlace.active = FALSE
        BY DEF NoPlace
      <3> HIDE DEF on
      <3> QED BY <2>2, <3>1, <3>2, <3>3
    <2> QED BY <2>1, <2>2
  <1>8. CASE SweepReads
    BY <1>3, <1>8 DEF SweepReads
  <1>9. CASE SweepDone
    <2>1. CASE sweeping = "on"
      <3>1. place' = Resumed /\ TumaTold("on")
        BY <1>9, <2>1 DEF SweepDone
      <3> QED BY <1>0, <1>1, <1>7, <3>1, RowSteps, TellingCreatesNothing DEF PyInv, KnownExist
    <2>2. CASE sweeping # "on"
      <3> DEFINE off == [place EXCEPT !.active = FALSE, !.ended = TRUE]
      <3>1. place' = IF place.active THEN off ELSE place
        BY <1>9, <2>2 DEF SweepDone
      <3>2. /\ off \in [mode : {"none", "managed", "linked"}, id : PyIds \cup {0},
                         active : BOOLEAN, ended : BOOLEAN]
            /\ off.mode = place.mode /\ off.id = place.id /\ off.ended
        BY <1>2
      <3>3. place.active => place.mode # "none" /\ off # NoPlace
        <4>1. NoPlace.ended = FALSE /\ NoPlace.active = FALSE
          BY DEF NoPlace
        <4>2. off.ended = TRUE /\ place.active \in BOOLEAN
          BY <1>2
        <4>3. off # NoPlace
          BY <4>1, <4>2
        <4>4. place.active => place # NoPlace
          BY <4>1
        <4> QED BY <4>3, <4>4 DEF PyInv, KnownExist
      <3>4. TumaTold(sweeping) /\ sweeping # "idle"
        BY <1>9 DEF SweepDone
      <3>5. atTuma' \in [PyIds -> {"none", "on", "off"}] /\ Created' = Created
        BY <1>0, <1>9, <2>2, <3>4, TellingCreatesNothing
      <3> HIDE DEF off
      <3> QED BY <1>0, <1>1, <1>2, <3>1, <3>2, <3>3, <3>5, RowSteps DEF PyInv, KnownExist
    <2> QED BY <2>1, <2>2
  <1>10. CASE PromptResumes
    <2>1. place' = Resumed /\ TumaTold("on")
      BY <1>10 DEF PromptResumes
    <2> QED BY <1>0, <1>1, <1>7, <2>1, RowSteps, TellingCreatesNothing DEF PyInv, KnownExist
  <1>11. CASE StandingChanges \/ NextDay \/ PromptStart \/ PromptGoes \/ UNCHANGED pyVars
    BY <1>3, <1>11 DEF StandingChanges, NextDay, PromptStart, PromptGoes, pyVars
  <1> QED BY <1>4, <1>5, <1>6, <1>8, <1>9, <1>10, <1>11 DEF PySweep

\* A save that ends, or writes its row: nothing is created.
LEMMA SaveEnding ==
    ASSUME PyInv, NEW s \in PySaves, SaveEnds(s), UNCHANGED <<atTuma, lost, sweeping>>,
           place' \in [mode : {"none", "managed", "linked"}, id : PyIds \cup {0},
                       active : BOOLEAN, ended : BOOLEAN],
           place'.mode = "none" => place' = NoPlace,
           place'.id # 0 => place'.id \in Created,
           place # NoPlace => place' # NoPlace,
           saving[s].at = "verifying" => place' # NoPlace,
           saving[s].at # "idle"
    PROVE  PyInv'
  <1>1. /\ saving' = [saving EXCEPT ![s] = [at |-> "idle", id |-> 0]] /\ inFlight' = FALSE
        /\ saving \in [PySaves -> [at : {"idle", "checking", "updating", "creating", "verifying"},
                                  id : PyIds \cup {0}]]
    BY DEF SaveEnds, At, PyInv, PyTypeOK
  <1>2. \A t \in PySaves : saving'[t].at = "idle"
    BY <1>1 DEF PyInv, OneSave
  <1>3. Created' = Created
    BY DEF Created
  <1>4. PyTypeOK'
    BY <1>1 DEF PyInv, PyTypeOK
  <1>5. OneSave' /\ KnownExist'
    BY <1>2, <1>3 DEF OneSave, KnownExist
  <1>6. OneCreated'
    <2>1. (\E t \in PySaves : saving[t].at = "verifying") => saving[s].at = "verifying"
      BY DEF PyInv, OneSave
    <2> QED BY <1>2, <1>3, <2>1 DEF PyInv, OneCreated
  <1> QED BY <1>4, <1>5, <1>6 DEF PyInv

\* A save goes from one call to the next; only a creation changes what is at
\* Tuma.
LEMMA SaveMoves ==
    ASSUME PyInv, NEW s \in PySaves, NEW at, NEW id \in PyIds \cup {0}, At(s, at, id),
           at \in {"checking", "updating", "creating", "verifying"},
           UNCHANGED <<place, lost, sweeping>>, inFlight' = TRUE,
           inFlight => saving[s].at # "idle",
           atTuma' \in [PyIds -> {"none", "on", "off"}], Created \subseteq Created',
           saving[s].at # "verifying",
           at \in {"checking", "updating"} => Created' = Created,
           at = "creating" => Created' = Created /\ place = NoPlace,
           at = "verifying" => saving[s].at = "creating" /\ Created' = Created \cup {id}
    PROVE  PyInv'
  <1>1. /\ saving' = [saving EXCEPT ![s] = [at |-> at, id |-> id]]
        /\ saving \in [PySaves -> [at : {"idle", "checking", "updating", "creating", "verifying"},
                                  id : PyIds \cup {0}]]
    BY DEF At, PyInv, PyTypeOK
  <1>2. saving'[s].at = at /\ saving'[s].id = id
    BY <1>1
  <1>3. \A t \in PySaves \ {s} : saving'[t].at = "idle" /\ saving[t].at = "idle"
    BY <1>1 DEF PyInv, OneSave
  <1>4. PyTypeOK'
    BY <1>1 DEF PyInv, PyTypeOK
  <1>5. OneSave'
    BY <1>3 DEF OneSave
  <1>6. KnownExist'
    BY <1>2, <1>3 DEF PyInv, KnownExist
  <1>7. OneCreated'
    <2>1. CASE lost
      BY <2>1 DEF OneCreated
    <2>2. CASE ~lost /\ at = "verifying"
      <3>1. Created = {} /\ Created' = {id}
        BY <2>2 DEF PyInv, OneCreated
      <3> QED BY <1>2, <1>3, <2>2, <3>1 DEF OneCreated
    <2>3. CASE ~lost /\ at # "verifying"
      <3>1. Created' = Created /\ ~\E t \in PySaves : saving[t].at = "verifying"
        BY <1>3, <2>3
      <3>2. at = "creating" => Created = {}
        BY <2>3, <3>1 DEF PyInv, OneCreated
      <3> QED BY <1>2, <1>3, <2>3, <3>1, <3>2 DEF PyInv, OneCreated
    <2> QED BY <2>1, <2>2, <2>3
  <1> QED BY <1>4, <1>5, <1>6, <1>7 DEF PyInv

LEMMA SaveSteps ==
    ASSUME PyInv, NEW s \in PySaves,
           \/ SaveStart(s) \/ SaveReads(s) \/ SaveRefused(s) \/ SaveCreated(s) \/ SaveInserts(s)
           \/ \E done \in BOOLEAN : SaveUpdated(s, done) \/ SaveNotCreated(s, done)
    PROVE  PyInv'
  <1>1. /\ place \in [mode : {"none", "managed", "linked"}, id : PyIds \cup {0},
                       active : BOOLEAN, ended : BOOLEAN]
        /\ place.id \in PyIds \cup {0} /\ (place.mode = "none" => place = NoPlace)
        /\ (place.id # 0 => place.id \in Created)
        /\ atTuma \in [PyIds -> {"none", "on", "off"}]
        /\ inFlight \in BOOLEAN /\ (saving[s].at # "idle" => inFlight)
        /\ saving[s].id \in PyIds \cup {0}
    BY DEF PyInv, PyTypeOK, KnownExist, OneSave
  <1>2. UNCHANGED atTuma => Created' = Created
    BY DEF Created
  <1>3. CASE SaveStart(s)
    BY <1>1, <1>2, <1>3, SaveMoves DEF SaveStart, SaveMayStart
  <1>4. CASE SaveReads(s)
    <2>1. saving[s].at = "checking" /\ UNCHANGED <<place, atTuma, lost, sweeping>>
      BY <1>4 DEF SaveReads
    <2>2. \/ At(s, "updating", place.id) /\ UNCHANGED inFlight
          \/ place.mode = "none" /\ At(s, "creating", 0) /\ UNCHANGED inFlight
          \/ SaveEnds(s)
      BY <1>4 DEF SaveReads
    <2>3. CASE At(s, "updating", place.id) /\ UNCHANGED inFlight
      BY <1>1, <1>2, <2>1, <2>3, SaveMoves
    <2>4. CASE place.mode = "none" /\ At(s, "creating", 0) /\ UNCHANGED inFlight
      BY <1>1, <1>2, <2>1, <2>4, SaveMoves
    <2>5. CASE SaveEnds(s)
      BY <1>1, <2>1, <2>5, SaveEnding
    <2> QED BY <2>2, <2>3, <2>4, <2>5
  <1>5. CASE SaveRefused(s)
    BY <1>1, <1>5, SaveEnding DEF SaveRefused
  <1>6. CASE SaveCreated(s)
    <2>1. PICK i \in FreshId : atTuma' = [atTuma EXCEPT ![i] = "on"] /\ At(s, "verifying", i)
      BY <1>6 DEF SaveCreated
    <2>2. i \in PyIds
      BY DEF FreshId
    <2>3. Created' = Created \cup {i} /\ atTuma' \in [PyIds -> {"none", "on", "off"}]
      BY <1>1, <2>1, <2>2 DEF Created
    <2>4. saving[s].at = "creating" /\ UNCHANGED <<place, lost, sweeping, inFlight>>
      BY <1>6 DEF SaveCreated
    <2> QED BY <1>1, <2>1, <2>2, <2>3, <2>4, SaveMoves
  <1>7. CASE SaveInserts(s)
    <2>1. /\ saving[s].at = "verifying" /\ SaveEnds(s) /\ UNCHANGED <<atTuma, lost, sweeping>>
          /\ place' = IF place = NoPlace THEN Managed(saving[s].id) ELSE place
      BY <1>7 DEF SaveInserts
    <2>2. saving[s].id \in Created
      BY <2>1 DEF PyInv, KnownExist
    <2> DEFINE new == Managed(saving[s].id)
    <2>3. /\ new \in [mode : {"none", "managed", "linked"}, id : PyIds \cup {0},
                       active : BOOLEAN, ended : BOOLEAN]
          /\ new.mode = "managed" /\ new.id = saving[s].id /\ new # NoPlace
      BY <1>1 DEF Managed, NoPlace
    <2> HIDE DEF new
    <2>4. place' \in {new, place} /\ place' # NoPlace
      BY <2>1, <2>3 DEF new
    <2> QED BY <1>1, <2>1, <2>2, <2>3, <2>4, SaveEnding
  <1>8. CASE \E ok \in BOOLEAN : SaveUpdated(s, ok)
    <2>1. /\ saving[s].at = "updating" /\ SaveEnds(s) /\ UNCHANGED <<atTuma, lost, sweeping>>
          /\ \/ place' = place
             \/ place # NoPlace /\ place' = [place EXCEPT !.active = TRUE]
      BY <1>8 DEF SaveUpdated
    <2> DEFINE on == [place EXCEPT !.active = TRUE]
    <2>2. /\ on \in [mode : {"none", "managed", "linked"}, id : PyIds \cup {0},
                      active : BOOLEAN, ended : BOOLEAN]
          /\ on.mode = place.mode /\ on.id = place.id /\ on.active = TRUE
      BY <1>1
    <2>3. NoPlace.active = FALSE
      BY DEF NoPlace
    <2> HIDE DEF on
    <2>4. place' = place \/ (place # NoPlace /\ place' = on)
      BY <2>1 DEF on
    <2> QED BY <1>1, <2>1, <2>2, <2>3, <2>4, SaveEnding
  <1>9. CASE \E done \in BOOLEAN : SaveNotCreated(s, done)
    <2>1. /\ saving[s].at = "creating" /\ SaveEnds(s) /\ UNCHANGED <<place, sweeping>> /\ lost' = TRUE
          /\ \/ UNCHANGED atTuma
             \/ \E i \in FreshId : atTuma' = [atTuma EXCEPT ![i] = "on"]
      BY <1>9 DEF SaveNotCreated
    <2>2. atTuma' \in [PyIds -> {"none", "on", "off"}] /\ Created \subseteq Created'
      BY <1>1, <2>1 DEF FreshId, Created
    <2>3. /\ saving' = [saving EXCEPT ![s] = [at |-> "idle", id |-> 0]] /\ inFlight' = FALSE
          /\ saving \in [PySaves -> [at : {"idle", "checking", "updating", "creating", "verifying"},
                                    id : PyIds \cup {0}]]
      BY <2>1 DEF SaveEnds, At, PyInv, PyTypeOK
    <2>4. \A t \in PySaves : saving'[t].at = "idle"
      BY <2>1, <2>3 DEF PyInv, OneSave
    <2>5. PyTypeOK'
      BY <2>1, <2>2, <2>3 DEF PyInv, PyTypeOK
    <2>6. OneSave' /\ KnownExist' /\ OneCreated'
      BY <1>1, <2>1, <2>2, <2>4 DEF OneSave, KnownExist, OneCreated
    <2> QED BY <2>5, <2>6 DEF PyInv
  <1> QED BY <1>3, <1>4, <1>5, <1>6, <1>7, <1>8, <1>9

-----------------------------------------------------------------------------
(* The theorem *)

LEMMA PyInvHolds == PySpec => []PyInv
  <1>1. PyInit => PyInv
    <2> SUFFICES ASSUME PyInit PROVE PyInv
      OBVIOUS
    <2>1. Created = {} /\ \A s \in PySaves : saving[s].at = "idle"
      BY DEF PyInit, Created, NotSaving
    <2>2. place = NoPlace /\ place.id = 0
      BY DEF PyInit, NoPlace
    <2>3. PyTypeOK
      BY DEF PyInit, PyTypeOK, NoPlace, NotSaving
    <2> QED BY <2>1, <2>2, <2>3 DEF PyInv, OneSave, KnownExist, OneCreated
  <1>2. PyInv /\ [PyNext]_pyVars => PyInv'
    BY OwnerRowSteps, SaveSteps DEF PyNext
  <1> QED BY <1>1, <1>2, PTL DEF PySpec

\* While every creation was answered, the tenant has one account at Tuma at
\* most, for any number of saves and days: the in-flight guard of
\* saveSettlement, and that a row once there never goes, are why.
THEOREM OneAccountAtTuma == PySpec => []OneTumaAccount
  <1>1. PyInv => OneTumaAccount
    <2> SUFFICES ASSUME PyInv, ~lost PROVE Cardinality(Created) <= 1
      BY DEF OneTumaAccount
    <2>1. CASE Created = {}
      BY <2>1, FS_EmptySet
    <2>2. CASE Created # {}
      <3> PICK i \in Created : TRUE
        BY <2>2
      <3>1. Created = {i}
        BY DEF PyInv, OneCreated
      <3>2. Cardinality({i}) = 1
        BY ONLY FS_Singleton
      <3> QED BY ONLY <3>1, <3>2
    <2> QED BY <2>1, <2>2
  <1> QED BY <1>1, PyInvHolds, PTL

-----------------------------------------------------------------------------
(* What a business pays: every step keeps the days of each service equal   *)
(* to the days sold, until the trial is ended early.                       *)

\* What the proofs need of the rows.
Bills == [row : {"none", "asked", "pending", "paid", "failed", "lost"},
          kind : {"none", "services", "upgrade"}, want : [Services -> Nat],
          via : {"none", "tuma", "daraja"}, recent : BOOLEAN,
          payer : {"none", "prompted", "paid", "refused"}, activated : BOOLEAN]

PbTypeOK ==
    /\ pbNow \in Nat /\ trial \in Nat
    /\ service \in [Services -> [ends : Nat, users : Nat]]
    /\ cover \in [Services -> [served : Nat, paid : Nat]]
    /\ bill \in [PbIds -> Bills]

\* While the trial runs nothing is used up, and what was bought starts at its
\* end; its early end gives away at most its own days.
DaysInv(s) ==
    LET days == cover[s].served + Remaining(s)
        sold == PbPeriod * cover[s].paid
    IN  IF TrialRuns
        THEN /\ trial = PbTrial /\ cover[s].served = 0
             /\ service[s].ends = 0 \/ service[s].ends > trial
             /\ days = sold
        ELSE sold <= days /\ days <= sold + PbTrial

PbInv == PbTypeOK /\ \A s \in Services : DaysInv(s)

LEMMA PbConstants == PbPeriod \in Nat /\ PbTrial \in Nat /\ PbPeriod > 0
  BY PlatformAssumption

LEMMA DaysAreNumbers ==
    ASSUME PbTypeOK, NEW s \in Services
    PROVE  /\ service[s].ends \in Nat /\ cover[s].served \in Nat /\ cover[s].paid \in Nat
           /\ LaterOf(pbNow, trial) \in Nat /\ Remaining(s) \in Nat
           /\ PbPeriod * cover[s].paid \in Nat
  <1>1. service[s] \in [ends : Nat, users : Nat] /\ cover[s] \in [served : Nat, paid : Nat]
    BY DEF PbTypeOK
  <1>2. service[s].ends \in Nat /\ cover[s].served \in Nat /\ cover[s].paid \in Nat
    BY <1>1
  <1>3. LaterOf(pbNow, trial) \in Nat
    BY DEF PbTypeOK, LaterOf
  <1>4. Remaining(s) \in Nat
    BY <1>2, <1>3 DEF Remaining
  <1>5. \A x, y \in Nat : x * y \in Nat
    OBVIOUS
  <1> QED BY <1>2, <1>3, <1>4, <1>5, PbConstants

\* Neither the clock, nor a date, nor a payment that counts.
LEMMA SameDays ==
    ASSUME PbInv, pbNow' = pbNow, trial' = trial, cover' = cover,
           \A s \in Services : service'[s].ends = service[s].ends
    PROVE  \A s \in Services : DaysInv(s)'
  BY DEF PbInv, DaysInv, TrialRuns, Remaining, LaterOf

\* A step that writes one bill and no date.
LEMMA BillStep ==
    ASSUME PbInv, UNCHANGED <<pbNow, businessRow>>, NEW i \in PbIds, NEW b \in Bills,
           bill' = [bill EXCEPT ![i] = b]
    PROVE  PbInv'
  <1>1. PbTypeOK'
    BY DEF PbInv, PbTypeOK, businessRow
  <1>2. \A s \in Services : DaysInv(s)'
    BY SameDays DEF businessRow
  <1> QED BY <1>1, <1>2 DEF PbInv

LEMMA QuietBillStep ==
    ASSUME PbInv, UNCHANGED <<pbNow, businessRow, bill>>
    PROVE  PbInv'
  <1>1. PbTypeOK'
    BY DEF PbInv, PbTypeOK, businessRow
  <1>2. \A s \in Services : DaysInv(s)'
    BY SameDays DEF businessRow
  <1> QED BY <1>1, <1>2 DEF PbInv

\* More users in the middle of a period: the dates stay.
LEMMA RaisedType ==
    ASSUME PbTypeOK, NEW want \in [Services -> Nat]
    PROVE  /\ Raised(want) \in [Services -> [ends : Nat, users : Nat]]
           /\ \A s \in Services : Raised(want)[s].ends = service[s].ends
  <1>1. ASSUME NEW s \in Services
        PROVE  /\ Raised(want)[s] \in [ends : Nat, users : Nat]
               /\ Raised(want)[s].ends = service[s].ends
    <2>1. service[s] \in [ends : Nat, users : Nat] /\ want[s] \in Nat
      BY DEF PbTypeOK
    <2>2. Raised(want)[s] = [service[s] EXCEPT !.users = IF want[s] > @ THEN want[s] ELSE @]
      BY DEF Raised
    <2> QED BY <2>1, <2>2
  <1>2. Raised(want) = [s \in Services |-> Raised(want)[s]]
    BY DEF Raised
  <1> QED BY <1>1, <1>2

\* A period bought: it starts where the days end that are there.
LEMMA PeriodBought ==
    ASSUME PbInv, NEW s \in Services, pbNow' = pbNow, trial' = trial,
           service'[s].ends = ServiceExpiry(s),
           cover'[s].served = cover[s].served, cover'[s].paid = cover[s].paid + 1
    PROVE  DaysInv(s)'
  <1> DEFINE ends == service[s].ends
             L == LaterOf(pbNow, trial)
             p == cover[s].paid
             v == cover[s].served
  <1>1. /\ ends \in Nat /\ p \in Nat /\ v \in Nat /\ L \in Nat /\ Remaining(s) \in Nat
        /\ PbPeriod * p \in Nat /\ PbPeriod \in Nat /\ PbPeriod > 0 /\ pbNow \in Nat /\ trial \in Nat
        /\ PbTrial \in Nat
    BY DaysAreNumbers, PbConstants DEF PbInv, PbTypeOK
  <1>2. ServiceExpiry(s) = (IF ends > L THEN ends ELSE L) + PbPeriod
    <2>1. LaterOf(LaterOf(pbNow, ends), trial) = (IF ends > L THEN ends ELSE L)
      <3> HIDE DEF ends
      <3> QED BY <1>1 DEF LaterOf
    <2> QED BY <2>1 DEF ServiceExpiry
  <1>3. Remaining(s)' = Remaining(s) + PbPeriod
    BY <1>1, <1>2 DEF Remaining, LaterOf
  <1>4. PbPeriod * (p + 1) = PbPeriod * p + PbPeriod
    BY <1>1
  <1>5. DaysInv(s)
    BY DEF PbInv
  <1>6. CASE TrialRuns
    <2>1. trial = PbTrial /\ v = 0 /\ Remaining(s) = PbPeriod * p
      BY <1>1, <1>5, <1>6 DEF DaysInv
    <2>2. service'[s].ends > trial
      BY <1>1, <1>2 DEF LaterOf
    <2>3. cover'[s].served + Remaining(s)' = PbPeriod * cover'[s].paid
      BY <1>1, <1>3, <1>4, <2>1
    <2> QED BY <1>1, <1>6, <2>1, <2>2, <2>3 DEF DaysInv, TrialRuns
  <1>7. CASE ~TrialRuns
    <2>1. PbPeriod * p <= v + Remaining(s) /\ v + Remaining(s) <= PbPeriod * p + PbTrial
      BY <1>5, <1>7 DEF DaysInv
    <2>2. /\ PbPeriod * cover'[s].paid <= cover'[s].served + Remaining(s)'
          /\ cover'[s].served + Remaining(s)' <= PbPeriod * cover'[s].paid + PbTrial
      BY <1>1, <1>3, <1>4, <2>1
    <2> QED BY <1>7, <2>2 DEF DaysInv, TrialRuns
  <1> QED BY <1>6, <1>7

\* activateBusinessBilling, once for a payment.
LEMMA ActivateStep ==
    ASSUME PbInv, NEW i \in PbIds, ActivateBusinessBilling(i), pbNow' = pbNow, trial' = trial
    PROVE  /\ service' \in [Services -> [ends : Nat, users : Nat]]
           /\ cover' \in [Services -> [served : Nat, paid : Nat]]
           /\ \A s \in Services : DaysInv(s)'
  <1> DEFINE want == bill[i].want
             chosen == {s \in Services : want[s] > 0}
  <1>1. bill[i] \in Bills /\ PbTypeOK
    BY DEF PbInv, PbTypeOK
  <1>2. want \in [Services -> Nat]
    BY <1>1 DEF Bills
  <1>3. CASE bill[i].activated
    BY <1>1, <1>3, SameDays DEF ActivateBusinessBilling, Granted, PbTypeOK
  <1>4. CASE ~bill[i].activated /\ bill[i].kind = "upgrade"
    <2>1. service' = Raised(want) /\ cover' = cover
      BY <1>4 DEF ActivateBusinessBilling, Granted
    <2> HIDE DEF want
    <2>2. /\ service' \in [Services -> [ends : Nat, users : Nat]]
          /\ \A s \in Services : service'[s].ends = service[s].ends
      BY <1>1, <1>2, <2>1, RaisedType
    <2> QED BY <1>1, <2>1, <2>2, SameDays DEF PbTypeOK
  <1>5. CASE ~bill[i].activated /\ bill[i].kind # "upgrade"
    <2>1. /\ service' = [s \in Services |-> IF s \in chosen
                 THEN [ends |-> ServiceExpiry(s), users |-> want[s]] ELSE service[s]]
          /\ cover' = [s \in Services |-> IF s \in chosen
                 THEN [cover[s] EXCEPT !.paid = @ + 1] ELSE cover[s]]
      BY <1>5 DEF ActivateBusinessBilling, Granted
    <2> HIDE DEF chosen, want
    <2>2. ASSUME NEW s \in Services
          PROVE  /\ service'[s] \in [ends : Nat, users : Nat] /\ cover'[s] \in [served : Nat, paid : Nat]
                 /\ DaysInv(s)'
      <3>1. service[s] \in [ends : Nat, users : Nat] /\ cover[s] \in [served : Nat, paid : Nat]
            /\ want[s] \in Nat
        BY <1>1, <1>2 DEF PbTypeOK
      <3>2. CASE s \in chosen
        <4>1. service'[s] = [ends |-> ServiceExpiry(s), users |-> want[s]]
              /\ cover'[s] = [cover[s] EXCEPT !.paid = @ + 1]
          BY <2>1, <3>2
        <4>2. ServiceExpiry(s) \in Nat
          <5>1. service[s].ends \in Nat /\ pbNow \in Nat /\ trial \in Nat /\ PbPeriod \in Nat
            BY <1>1, PbConstants, DaysAreNumbers DEF PbTypeOK
          <5> QED BY <5>1 DEF ServiceExpiry, LaterOf
        <4>3. /\ service'[s].ends = ServiceExpiry(s) /\ cover'[s].served = cover[s].served
              /\ cover'[s].paid = cover[s].paid + 1
          BY <3>1, <4>1
        <4>4. DaysInv(s)'
          BY <4>3, PeriodBought
        <4> QED BY <3>1, <4>1, <4>2, <4>4
      <3>3. CASE s \notin chosen
        <4>1. service'[s] = service[s] /\ cover'[s] = cover[s]
          BY <2>1, <3>3
        <4>2. DaysInv(s)
          BY DEF PbInv
        <4>3. DaysInv(s)'
          BY <4>1, <4>2 DEF DaysInv, TrialRuns, Remaining, LaterOf
        <4> QED BY <3>1, <4>1, <4>3
      <3> QED BY <3>2, <3>3
    <2> QED BY <2>1, <2>2
  <1> QED BY <1>3, <1>4, <1>5

LEMMA SettleKeepsDays ==
    ASSUME PbInv, NEW i \in PbIds, NEW done \in BOOLEAN, SettleBilling(i, done)
    PROVE  PbInv'
  <1>1. bill[i] \in Bills /\ PbTypeOK /\ pbNow' = pbNow /\ trial' = trial
    BY DEF PbInv, PbTypeOK, SettleBilling
  <1>2. CASE SetPaid(i, done)
    <2> DEFINE b == [bill[i] EXCEPT !.row = "paid", !.recent = FALSE, !.activated = @ \/ done]
    <2>1. b \in Bills
      <3>1. (bill[i].activated \/ done) \in BOOLEAN
        OBVIOUS
      <3> QED BY <1>1, <3>1 DEF Bills
    <2>2. bill' = [bill EXCEPT ![i] = b]
      BY <1>2 DEF SetPaid
    <2> HIDE DEF b
    <2>3. bill' \in [PbIds -> Bills]
      BY <1>1, <2>1, <2>2 DEF PbTypeOK
    <2>4. CASE done
      BY <1>1, <1>2, <2>3, <2>4, ActivateStep DEF SetPaid, PbInv, PbTypeOK
    <2>5. CASE ~done
      <3>1. service' = service /\ cover' = cover
        BY <1>2, <2>5 DEF SetPaid
      <3> QED BY <1>1, <2>3, <3>1, SameDays DEF PbInv, PbTypeOK
    <2> QED BY <2>4, <2>5
  <1>3. CASE SetFailed(i)
    <2> DEFINE b == [bill[i] EXCEPT !.row = IF @ = "paid" THEN @ ELSE "failed", !.recent = FALSE]
    <2>1. b \in Bills
      BY <1>1 DEF Bills
    <2>2. bill' = [bill EXCEPT ![i] = b]
      BY <1>3 DEF SetFailed
    <2> HIDE DEF b
    <2> QED BY <1>1, <1>3, <2>1, <2>2, BillStep DEF SetFailed, businessRow
  <1> QED BY <1>2, <1>3 DEF SettleBilling

-----------------------------------------------------------------------------
(* The other steps *)

LEMMA CheckoutStep ==
    ASSUME PbInv, NEW i \in PbIds, NEW kind \in {"services", "upgrade"}, NEW via \in {"tuma", "daraja"},
           NEW want \in [Services -> Nat], Checkout(i, kind, want, via)
    PROVE  PbInv'
  <1> DEFINE w == [s \in Services |-> IF kind = "services" \/ s \in MoreUsers(want) THEN want[s] ELSE 0]
             b == [NoBill EXCEPT !.row = "asked", !.kind = kind, !.via = via, !.payer = "prompted", !.want = w]
  <1>1. w \in [Services -> Nat]
    OBVIOUS
  <1>2. bill' = [bill EXCEPT ![i] = b] /\ UNCHANGED <<pbNow, businessRow>>
    BY DEF Checkout
  <1> HIDE DEF w
  <1>3. b \in Bills
    <2>1. [s \in Services |-> 0] \in [Services -> Nat]
      OBVIOUS
    <2> QED BY <1>1, <2>1 DEF NoBill, Bills
  <1> HIDE DEF b
  <1> QED BY <1>2, <1>3, BillStep

LEMMA BillWrites ==
    ASSUME PbInv, NEW i \in PbIds, NEW pays \in BOOLEAN,
           RecordPlatformBilling(i) \/ CheckoutAges(i) \/ PayerAnswers(i, pays)
    PROVE  PbInv'
  <1>1. bill[i] \in Bills /\ UNCHANGED <<pbNow, businessRow>>
    BY DEF PbInv, PbTypeOK, RecordPlatformBilling, CheckoutAges, PayerAnswers
  <1>2. /\ [bill[i] EXCEPT !.row = "pending", !.recent = TRUE] \in Bills
        /\ [bill[i] EXCEPT !.recent = FALSE] \in Bills
        /\ [bill[i] EXCEPT !.payer = IF pays THEN "paid" ELSE "refused"] \in Bills
    BY <1>1 DEF Bills
  <1>3. \/ bill' = [bill EXCEPT ![i] = [bill[i] EXCEPT !.row = "pending", !.recent = TRUE]]
        \/ bill' = [bill EXCEPT ![i] = [bill[i] EXCEPT !.recent = FALSE]]
        \/ bill' = [bill EXCEPT ![i] = [bill[i] EXCEPT !.payer = IF pays THEN "paid" ELSE "refused"]]
    BY DEF RecordPlatformBilling, CheckoutAges, PayerAnswers
  <1> QED BY <1>1, <1>2, <1>3, BillStep

LEMMA FreeUpgradeStep ==
    ASSUME PbInv, NEW want \in [Services -> Nat], FreeUpgrade(want)
    PROVE  PbInv'
  <1>1. PbTypeOK /\ service' = Raised(want) /\ UNCHANGED <<pbNow, trial, cover, bill>>
    BY DEF PbInv, FreeUpgrade
  <1>2. /\ service' \in [Services -> [ends : Nat, users : Nat]]
        /\ \A s \in Services : service'[s].ends = service[s].ends
    BY <1>1, RaisedType
  <1> QED BY <1>1, <1>2, SameDays DEF PbInv, PbTypeOK

LEMMA RestartKeepsDays ==
    ASSUME PbInv, PlatformRestarts
    PROVE  PbInv'
  <1>1. bill \in [PbIds -> Bills] /\ UNCHANGED <<pbNow, businessRow>>
    BY DEF PbInv, PbTypeOK, PlatformRestarts
  <1>2. \A b \in Bills : [b EXCEPT !.row = "lost"] \in Bills
    BY DEF Bills
  <1>3. bill' \in [PbIds -> Bills]
    BY <1>1, <1>2 DEF PlatformRestarts
  <1> QED BY <1>1, <1>3, SameDays DEF PbInv, PbTypeOK, businessRow

\* What was bought to start at the trial's end starts now.
LEMMA TrialEndsStep ==
    ASSUME PbInv, TrialEndsEarly
    PROVE  PbInv'
  <1>1. /\ PbTypeOK /\ pbNow < trial /\ trial' = pbNow /\ UNCHANGED <<pbNow, service, cover, bill>>
    BY DEF PbInv, TrialEndsEarly, TrialRuns
  <1>2. ASSUME NEW s \in Services
        PROVE  DaysInv(s)'
    <2>1. /\ service[s].ends \in Nat /\ cover[s].served \in Nat /\ PbPeriod * cover[s].paid \in Nat
          /\ pbNow \in Nat /\ trial \in Nat /\ PbTrial \in Nat
      BY <1>1, DaysAreNumbers, PbConstants DEF PbTypeOK
    <2>2. /\ trial = PbTrial /\ cover[s].served = 0
          /\ service[s].ends = 0 \/ service[s].ends > trial
          /\ cover[s].served + Remaining(s) = PbPeriod * cover[s].paid
      BY <1>1 DEF PbInv, DaysInv, TrialRuns
    <2>3. CASE service[s].ends = 0
      <3>1. Remaining(s) = 0 /\ Remaining(s)' = 0
        BY <1>1, <2>1, <2>3 DEF Remaining, LaterOf
      <3> QED BY <1>1, <2>1, <2>2, <3>1 DEF DaysInv, TrialRuns
    <2>4. CASE service[s].ends > trial
      <3>1. Remaining(s) = service[s].ends - trial /\ Remaining(s)' = service[s].ends - pbNow
        BY <1>1, <2>1, <2>4 DEF Remaining, LaterOf
      <3> QED BY <1>1, <2>1, <2>2, <3>1 DEF DaysInv, TrialRuns
    <2> QED BY <2>2, <2>3, <2>4
  <1> QED BY <1>1, <1>2 DEF PbInv, PbTypeOK

\* A day passes: it is served where the trial is over and days are left.
LEMMA DayPasses ==
    ASSUME PbInv, PbTick
    PROVE  PbInv'
  <1>1. /\ PbTypeOK /\ pbNow' = pbNow + 1 /\ UNCHANGED <<trial, service, bill>>
        /\ cover' = [s \in Services |-> IF ~TrialRuns /\ pbNow < service[s].ends
                       THEN [cover[s] EXCEPT !.served = @ + 1] ELSE cover[s]]
    BY DEF PbInv, PbTick
  <1>2. ASSUME NEW s \in Services
        PROVE  cover'[s] \in [served : Nat, paid : Nat] /\ DaysInv(s)'
    <2>1. /\ service[s].ends \in Nat /\ cover[s].served \in Nat /\ PbPeriod * cover[s].paid \in Nat
          /\ pbNow \in Nat /\ trial \in Nat /\ PbTrial \in Nat
      BY <1>1, DaysAreNumbers, PbConstants DEF PbTypeOK
    <2>2. cover[s] \in [served : Nat, paid : Nat] /\ DaysInv(s)
      BY <1>1 DEF PbInv, PbTypeOK
    <2>3. CASE TrialRuns
      <3>1. cover'[s] = cover[s]
        BY <1>1, <2>3
      <3>2. Remaining(s)' = Remaining(s)
        BY <1>1, <2>1, <2>3 DEF Remaining, LaterOf, TrialRuns
      <3>3. /\ trial = PbTrial /\ cover[s].served = 0
            /\ service[s].ends = 0 \/ service[s].ends > trial
            /\ cover[s].served + Remaining(s) = PbPeriod * cover[s].paid
        BY <2>2, <2>3 DEF DaysInv
      <3> QED BY <1>1, <2>1, <2>2, <3>1, <3>2, <3>3 DEF DaysInv, TrialRuns
    <2>4. CASE ~TrialRuns /\ pbNow < service[s].ends
      <3>1. cover'[s] = [cover[s] EXCEPT !.served = @ + 1]
        BY <1>1, <2>4
      <3>2. /\ cover'[s] \in [served : Nat, paid : Nat]
            /\ cover'[s].served = cover[s].served + 1 /\ cover'[s].paid = cover[s].paid
        BY <2>2, <3>1
      <3>3. Remaining(s)' = Remaining(s) - 1 /\ Remaining(s) \in Nat
        BY <1>1, <2>1, <2>4 DEF Remaining, LaterOf, TrialRuns
      <3>4. cover'[s].served + Remaining(s)' = cover[s].served + Remaining(s)
        BY <2>1, <3>2, <3>3
      <3>5. ~TrialRuns'
        BY <1>1, <2>1, <2>4 DEF TrialRuns
      <3> QED BY <2>2, <2>4, <3>2, <3>4, <3>5 DEF DaysInv
    <2>5. CASE ~TrialRuns /\ ~(pbNow < service[s].ends)
      <3>1. cover'[s] = cover[s]
        BY <1>1, <2>5
      <3>2. Remaining(s)' = Remaining(s) /\ ~TrialRuns'
        BY <1>1, <2>1, <2>5 DEF Remaining, LaterOf, TrialRuns
      <3> QED BY <2>2, <2>5, <3>1, <3>2 DEF DaysInv
    <2> QED BY <2>3, <2>4, <2>5
  <1>3. cover' \in [Services -> [served : Nat, paid : Nat]]
    <2>1. cover' = [s \in Services |-> cover'[s]]
      BY <1>1
    <2> QED BY <1>2, <2>1
  <1>4. PbTypeOK'
    <2>1. pbNow \in Nat /\ pbNow + 1 \in Nat
      BY <1>1 DEF PbTypeOK
    <2> QED BY <1>1, <1>3, <2>1 DEF PbTypeOK
  <1>5. \A s \in Services : DaysInv(s)'
    BY <1>2
  <1> QED BY <1>4, <1>5 DEF PbInv

LEMMA PbInitInv == PbInit => PbInv
  <1> SUFFICES ASSUME PbInit PROVE PbInv
    OBVIOUS
  <1>1. NoBill \in Bills
    <2>1. [s \in Services |-> 0] \in [Services -> Nat]
      OBVIOUS
    <2> QED BY <2>1 DEF NoBill, Bills
  <1>2. PbTypeOK
    BY <1>1, PbConstants DEF PbInit, PbTypeOK
  <1>3. ASSUME NEW s \in Services  PROVE DaysInv(s)
    <2>1. /\ service[s].ends = 0 /\ cover[s].served = 0 /\ cover[s].paid = 0
          /\ trial = PbTrial /\ pbNow = 0
      BY DEF PbInit
    <2>2. PbPeriod * 0 = 0
      BY PbConstants
    <2>3. Remaining(s) = 0
      BY <2>1, PbConstants DEF Remaining, LaterOf
    <2> QED BY <2>1, <2>2, <2>3, PbConstants DEF DaysInv
  <1> QED BY <1>2, <1>3 DEF PbInv

LEMMA PbInvHolds == PbSpec => []PbInv
  <1>1. ASSUME PbInv, PbNext  PROVE PbInv'
    <2>1. \A want \in PbWants : want \in [Services -> Nat]
      BY PlatformAssumption
    <2>2. CASE \E i \in PbIds, kind \in {"services", "upgrade"}, via \in {"tuma", "daraja"},
                  want \in PbWants : Checkout(i, kind, want, via)
      BY <1>1, <2>1, <2>2, CheckoutStep
    <2>3. CASE \E want \in PbWants : FreeUpgrade(want)
      BY <1>1, <2>1, <2>3, FreeUpgradeStep
    <2>4. ASSUME NEW i \in PbIds, NEW b \in BOOLEAN,
                 \/ RecordPlatformBilling(i) \/ CheckoutAges(i) \/ PayerAnswers(i, b)
          PROVE  PbInv'
      BY <1>1, <2>4, BillWrites
    <2>5. ASSUME NEW i \in PbIds, NEW b \in BOOLEAN, BillingCallback(i, b) \/ SweepBilling(i, b)
          PROVE  PbInv'
      BY <1>1, <2>5, SettleKeepsDays DEF BillingCallback, SweepBilling
    <2>6. ASSUME NEW i \in PbIds, GiveUpOnTuma(i)  PROVE PbInv'
      <3> DEFINE b == [bill[i] EXCEPT !.row = IF @ = "paid" THEN @ ELSE "failed", !.recent = FALSE]
      <3>1. b \in Bills
        <4>1. bill[i] \in Bills
          BY <1>1 DEF PbInv, PbTypeOK
        <4> QED BY <4>1 DEF Bills
      <3>2. bill' = [bill EXCEPT ![i] = b] /\ UNCHANGED <<pbNow, businessRow>>
        BY <2>6 DEF GiveUpOnTuma, SetFailed, businessRow
      <3> HIDE DEF b
      <3> QED BY <1>1, <3>1, <3>2, BillStep
    <2>7. ASSUME NEW r, NEW key, RemindersRun(r) \/ Deliver(r) \/ ClaimReminder(r, key)
          PROVE  PbInv'
      BY <1>1, <2>7, QuietBillStep DEF RemindersRun, Deliver, ClaimReminder
    <2>8. CASE PlatformRestarts \/ TrialEndsEarly \/ PbTick
      BY <1>1, <2>8, RestartKeepsDays, TrialEndsStep, DayPasses
    <2> QED BY <1>1, <2>2, <2>3, <2>4, <2>5, <2>6, <2>7, <2>8 DEF PbNext
  <1>2. ASSUME PbInv, UNCHANGED pbVars  PROVE PbInv'
    BY <1>2, QuietBillStep DEF pbVars, businessRow
  <1> QED BY PbInitInv, <1>1, <1>2, PTL DEF PbSpec

\* The days a business was served and those it has left are the days it paid
\* for, whoever reports a payment and however often, and wherever the server
\* stops (activateBusinessBilling, serviceExpiry).
THEOREM PaidDaysAreServed == PbSpec => []PaidDaysAreGiven
  <1>1. PbInv => PaidDaysAreGiven
    <2> SUFFICES ASSUME PbInv, NEW s \in Services
                 PROVE  LET days == cover[s].served + Remaining(s)
                        IN PbPeriod * cover[s].paid <= days /\ days <= PbPeriod * cover[s].paid + PbTrial
      BY DEF PaidDaysAreGiven
    <2>1. /\ cover[s].served \in Nat /\ Remaining(s) \in Nat /\ PbPeriod * cover[s].paid \in Nat
          /\ PbTrial \in Nat
      BY DaysAreNumbers, PbConstants DEF PbInv
    <2> QED BY <2>1 DEF PbInv, DaysInv
  <1> QED BY <1>1, PbInvHolds, PTL

-----------------------------------------------------------------------------
(* The original hotspot: what gives time gives it once.                     *)

Prompts == [status : {"none", "pending", "failed", "paid"}, receipt : BOOLEAN,
            provisioned : BOOLEAN, phone : Phones \cup {None}, mac : Macs \cup {None}]

LegacyTypeOK ==
    /\ tx \in [Pushes -> Prompts] /\ verdict \in [Pushes -> {None, "asked", "paid"}]
    /\ given \in [Sources -> Nat]

\* A payment that gave time and whose mark is there, or was lost with the
\* database, will not give any again.
Closed(p) == tx[p].provisioned \/ (tx[p] = NoTx /\ verdict[p] # None)

\* Between the gift and the mark the process stops once at most.
PromptInv(p) ==
    /\ verdict[p] = None => given[p] = 0 /\ tx[p] = NoTx
    /\ \/ given[p] = 0
       \/ given[p] = 1 /\ (Closed(p) \/ "crash" \in faults)
       \/ given[p] = 2 /\ Closed(p) /\ "crash" \in faults
CodeInv(c) == given[c] = 0 \/ (given[c] = 1 /\ c \in spent)

LegacyInv ==
    /\ LegacyTypeOK
    /\ \A p \in Pushes : PromptInv(p)
    /\ \A c \in Codes : CodeInv(c)

\* A step that touches neither a prompt nor a code.
LEMMA LegacyQuiet ==
    ASSUME LegacyInv, UNCHANGED <<tx, verdict, given, spent>>, faults \subseteq faults'
    PROVE  LegacyInv'
  BY DEF LegacyInv, LegacyTypeOK, PromptInv, CodeInv, Closed

LEMMA NoTxIsEmpty == NoTx.status = "none" /\ ~NoTx.provisioned /\ NoTx \in Prompts
  BY DEF NoTx, None, Prompts

\* A step of one prompt that gives no time.
LEMMA PromptMoves ==
    ASSUME LegacyInv, NEW p \in Pushes, NEW t \in Prompts, NEW v \in {None, "asked", "paid"},
           tx' = [tx EXCEPT ![p] = t], verdict' = [verdict EXCEPT ![p] = v],
           v # None, Closed(p) => t.provisioned \/ t = NoTx,
           UNCHANGED <<given, spent>>, faults \subseteq faults'
    PROVE  LegacyInv'
  <1>1. LegacyTypeOK'
    BY DEF LegacyInv, LegacyTypeOK
  <1>2. ASSUME NEW q \in Pushes  PROVE PromptInv(q)'
    <2>1. tx \in [Pushes -> Prompts] /\ verdict \in [Pushes -> {None, "asked", "paid"}] /\ PromptInv(q)
      BY DEF LegacyInv, LegacyTypeOK
    <2>2. CASE q = p
      BY <2>1, <2>2 DEF PromptInv, Closed
    <2>3. CASE q # p
      <3>1. tx'[q] = tx[q] /\ verdict'[q] = verdict[q]
        BY <2>1, <2>3
      <3> QED BY <2>1, <3>1 DEF PromptInv, Closed
    <2> QED BY <2>2, <2>3
  <1> QED BY <1>1, <1>2 DEF LegacyInv, CodeInv

\* The gift: the mark comes with it, or the process stops in between.
LEMMA FulfilGivesOnce ==
    ASSUME LegacyInv, NEW p \in Pushes, NEW t \in Prompts, Fulfil(p, t),
           tx[p] # NoTx, tx[p].provisioned = t.provisioned, verdict[p] # None,
           UNCHANGED <<verdict, spent>>
    PROVE  LegacyInv'
  <1>1. CASE ~Provisionable(t)
    <2>1. tx' = [tx EXCEPT ![p] = t] /\ verdict' = [verdict EXCEPT ![p] = verdict[p]]
      BY <1>1 DEF Fulfil, LegacyInv, LegacyTypeOK
    <2>2. given' = given /\ faults' = faults /\ verdict[p] \in {None, "asked", "paid"}
      BY <1>1 DEF Fulfil, NoFault, LegacyInv, LegacyTypeOK
    <2> QED BY <2>1, <2>2, PromptMoves DEF Closed
  <1>2. CASE Provisionable(t)
    <2> DEFINE done == [t EXCEPT !.provisioned = TRUE]
    <2>1. /\ given' = [given EXCEPT ![p] = @ + 1] /\ ~t.provisioned
          /\ \/ faults' = faults /\ tx' = [tx EXCEPT ![p] = done]
             \/ "crash" \notin faults /\ faults' = faults \cup {"crash"} /\ tx' = [tx EXCEPT ![p] = t]
      BY <1>2 DEF Fulfil, NoFault, Fault, Provisionable
    <2>2. done \in Prompts /\ done.provisioned
      BY DEF Prompts
    <2> HIDE DEF done
    <2>3. p \in Sources /\ Pushes \subseteq Sources /\ Codes \subseteq Sources
      BY DEF Sources
    <2>4. /\ tx \in [Pushes -> Prompts] /\ given \in [Sources -> Nat]
          /\ verdict \in [Pushes -> {None, "asked", "paid"}]
      BY DEF LegacyInv, LegacyTypeOK
    <2>5. LegacyTypeOK'
      <3>1. given[p] + 1 \in Nat
        BY <2>3, <2>4
      <3> QED BY <2>1, <2>2, <2>3, <2>4, <3>1 DEF LegacyTypeOK
    <2>6. ASSUME NEW q \in Pushes  PROVE PromptInv(q)'
      <3>1. PromptInv(q)
        BY DEF LegacyInv
      <3>2. CASE q # p
        <4>1. tx'[q] = tx[q] /\ given'[q] = given[q] /\ faults \subseteq faults'
          BY <2>1, <2>3, <2>4, <3>2
        <4> QED BY <3>1, <4>1 DEF PromptInv, Closed
      <3>3. CASE q = p
        <4>1. given'[p] = given[p] + 1 /\ ~Closed(p)
          BY <2>1, <2>3, <2>4 DEF Closed
        <4>2. given[p] = 0 \/ (given[p] = 1 /\ "crash" \in faults)
          BY <3>1, <3>3, <4>1 DEF PromptInv
        <4>3. \/ faults' = faults /\ Closed(p)'
              \/ "crash" \notin faults /\ "crash" \in faults'
          BY <2>1, <2>2, <2>4 DEF Closed
        <4> QED BY <3>3, <4>1, <4>2, <4>3 DEF PromptInv
      <3> QED BY <3>2, <3>3
    <2>7. ASSUME NEW c \in Codes  PROVE CodeInv(c)'
      <3>1. c # p /\ CodeInv(c)
        BY LegacyAssumption DEF LegacyInv
      <3>2. given'[c] = given[c]
        BY <2>1, <2>3, <2>4, <3>1
      <3> QED BY <3>1, <3>2 DEF CodeInv
    <2> QED BY <2>5, <2>6, <2>7 DEF LegacyInv
  <1> QED BY <1>1, <1>2

LEMMA CollectedGivesOnce ==
    ASSUME LegacyInv, NEW p \in Pushes, NEW r \in BOOLEAN, Collected(p, r), tx[p] # NoTx
    PROVE  LegacyInv'
  <1> DEFINE t == [tx[p] EXCEPT !.status = "paid", !.receipt = @ \/ r]
  <1>1. tx[p] \in Prompts
    BY DEF LegacyInv, LegacyTypeOK
  <1>2. t \in Prompts /\ t.provisioned = tx[p].provisioned
    BY <1>1 DEF Prompts
  <1>3. Fulfil(p, t) /\ verdict[p] # None /\ UNCHANGED <<verdict, spent>>
    BY DEF Collected, None
  <1> HIDE DEF t
  <1> QED BY <1>2, <1>3, FulfilGivesOnce

\* What gives time apart from prompts: a receipt, or a code that is used up.
LEMMA GiftKeepsPrompts ==
    ASSUME LegacyInv, NEW s \in Codes \cup Receipts, given' = [given EXCEPT ![s] = @ + 1],
           s \in Codes => given[s] = 0 /\ s \in spent', spent \subseteq spent',
           UNCHANGED <<tx, verdict>>, faults \subseteq faults'
    PROVE  LegacyInv'
  <1>1. /\ s \in Sources /\ Pushes \subseteq Sources /\ Codes \subseteq Sources
        /\ given \in [Sources -> Nat]
    BY DEF Sources, LegacyInv, LegacyTypeOK
  <1>2. LegacyTypeOK'
    <2>1. given[s] + 1 \in Nat
      BY <1>1
    <2> QED BY <1>1, <2>1 DEF LegacyInv, LegacyTypeOK
  <1>3. ASSUME NEW p \in Pushes  PROVE PromptInv(p)'
    <2>1. p # s /\ PromptInv(p)
      BY LegacyAssumption DEF LegacyInv
    <2>2. given'[p] = given[p]
      BY <1>1, <2>1
    <2> QED BY <2>1, <2>2 DEF PromptInv, Closed
  <1>4. ASSUME NEW c \in Codes  PROVE CodeInv(c)'
    <2>1. CodeInv(c)
      BY DEF LegacyInv
    <2>2. CASE c = s
      BY <1>1, <2>2 DEF CodeInv
    <2>3. CASE c # s
      <3>1. given'[c] = given[c]
        BY <1>1, <2>3
      <3> QED BY <2>1, <3>1 DEF CodeInv
    <2> QED BY <2>2, <2>3
  <1> QED BY <1>2, <1>3, <1>4 DEF LegacyInv

LEMMA MoneyGivesOnce ==
    ASSUME LegacyInv, MoneyNext
    PROVE  LegacyInv'
  <1>1. ASSUME NEW p \in Pushes, Answer(p)  PROVE LegacyInv'
    <2>1. /\ tx[p] \in Prompts /\ tx' = [tx EXCEPT ![p] = tx[p]]
          /\ verdict' = [verdict EXCEPT ![p] = "paid"] /\ UNCHANGED <<given, spent, faults>>
      BY <1>1 DEF Answer, serverVars, LegacyInv, LegacyTypeOK
    <2> QED BY <2>1, PromptMoves DEF Closed, None
  <1>2. ASSUME NEW p \in Pushes, Query(p) \/ Callback(p)  PROVE LegacyInv'
    <2>1. tx[p] # NoTx /\ \E r \in BOOLEAN : Collected(p, r)
      BY <1>2, NoTxIsEmpty DEF Query, Callback
    <2> QED BY <2>1, CollectedGivesOnce
  <1>3. ASSUME NEW p \in Pushes, LooksFailed(p)  PROVE LegacyInv'
    <2> DEFINE t == [tx[p] EXCEPT !.status = "failed"]
    <2>1. tx[p] \in Prompts /\ verdict[p] = "asked"
      BY <1>3 DEF LooksFailed, LegacyInv, LegacyTypeOK
    <2>2. t \in Prompts /\ t.provisioned = tx[p].provisioned /\ tx[p] # NoTx
      BY <1>3, <2>1 DEF Prompts, LooksFailed, NoTx, None
    <2>3. /\ tx' = [tx EXCEPT ![p] = t] /\ UNCHANGED <<given, spent, faults>>
          /\ verdict' = [verdict EXCEPT ![p] = "asked"]
      BY <1>3, <2>1 DEF LooksFailed, LegacyInv, LegacyTypeOK
    <2> HIDE DEF t
    <2> QED BY <2>2, <2>3, PromptMoves DEF Closed, None
  <1>4. ASSUME NEW p \in Pushes, Sweep(p)  PROVE LegacyInv'
    <2>1. /\ tx[p] \in Prompts /\ tx[p] # NoTx /\ Fulfil(p, tx[p])
          /\ ~tx[p].provisioned /\ UNCHANGED <<verdict, spent>>
      BY <1>4 DEF Sweep, Backlog, NoTx, None, LegacyInv, LegacyTypeOK
    <2>2. verdict[p] # None
      BY <2>1 DEF LegacyInv, PromptInv
    <2> QED BY <2>1, <2>2, FulfilGivesOnce
  <1>5. ASSUME NEW p \in Pushes, NEW phone \in Phones, NEW mac \in {None} \cup Macs, Pay(p, phone, mac)
        PROVE  LegacyInv'
    <2> DEFINE t == [NoTx EXCEPT !.status = "pending", !.phone = phone, !.mac = mac]
    <2>1. t \in Prompts /\ NoTx \in Prompts
      BY DEF Prompts, NoTx, None
    <2>2. /\ tx[p] = NoTx /\ verdict[p] = None /\ verdict' = [verdict EXCEPT ![p] = "asked"]
          /\ UNCHANGED <<given, spent>>
          /\ tx' = [tx EXCEPT ![p] = t] \/ tx' = [tx EXCEPT ![p] = NoTx]
      BY <1>5 DEF Pay, NoFault, Fault, LegacyInv, LegacyTypeOK
    <2>3. faults \subseteq faults'
      BY <1>5 DEF Pay, NoFault, Fault
    <2>4. ~Closed(p)
      BY <2>2 DEF Closed, NoTx
    <2> HIDE DEF t
    <2>5. "asked" \in {None, "asked", "paid"} /\ "asked" # None
      BY DEF None
    <2>6. CASE tx' = [tx EXCEPT ![p] = t]
      BY <2>1, <2>2, <2>3, <2>4, <2>5, <2>6, PromptMoves
    <2>7. CASE tx' = [tx EXCEPT ![p] = NoTx]
      BY <2>1, <2>2, <2>3, <2>4, <2>5, <2>7, PromptMoves
    <2> QED BY <2>2, <2>6, <2>7
  <1>6. ASSUME NEW r \in Receipts, NEW phone \in Phones, ConfirmPaybill(r, phone)
        PROVE  LegacyInv'
    <2>1. r \notin Codes
      BY LegacyAssumption
    <2>2. faults \subseteq faults'
      BY <1>6 DEF ConfirmPaybill, NoFault, Fault
    <2> QED BY <1>6, <2>1, <2>2, GiftKeepsPrompts DEF ConfirmPaybill
  <1>7. ASSUME NEW c \in Codes, NEW phone \in Phones, NEW mac \in Macs, Redeem(c, phone, mac)
        PROVE  LegacyInv'
    <2>1. /\ c \notin spent /\ spent' = spent \cup {c} /\ UNCHANGED <<tx, verdict>>
          /\ faults \subseteq faults'
          /\ given' = [given EXCEPT ![c] = @ + 1] \/ given' = given
      BY <1>7 DEF Redeem, Redeemable, NoFault, Fault
    <2>2. given[c] = 0
      BY <2>1 DEF LegacyInv, CodeInv
    <2>3. CASE given' = given
      BY <2>1, <2>3 DEF LegacyInv, LegacyTypeOK, PromptInv, CodeInv, Closed
    <2>4. CASE given' = [given EXCEPT ![c] = @ + 1]
      BY <2>1, <2>2, <2>4, GiftKeepsPrompts
    <2> QED BY <2>1, <2>3, <2>4
  <1> QED BY <1>1, <1>2, <1>3, <1>4, <1>5, <1>6, <1>7 DEF MoneyNext

\* An empty database forgets the payments, and the codes count as used.
LEMMA FreshGivesOnce ==
    ASSUME LegacyInv, FreshDatabase
    PROVE  LegacyInv'
  <1>1. /\ tx' = [p \in Pushes |-> NoTx] /\ spent' = Codes /\ UNCHANGED <<verdict, given>>
        /\ faults \subseteq faults'
    BY DEF FreshDatabase, Fault
  <1>2. NoTx \in Prompts
    BY DEF Prompts, NoTx, None
  <1>3. LegacyTypeOK'
    BY <1>1, <1>2 DEF LegacyInv, LegacyTypeOK
  <1>4. ASSUME NEW p \in Pushes  PROVE PromptInv(p)'
    BY <1>1 DEF LegacyInv, PromptInv, Closed
  <1>5. ASSUME NEW c \in Codes  PROVE CodeInv(c)'
    BY <1>1 DEF LegacyInv, CodeInv
  <1> QED BY <1>3, <1>4, <1>5 DEF LegacyInv

LEMMA LegacyInvHolds == LegacySpec => []LegacyInv
  <1>1. LegacyInit => LegacyInv
    <2> SUFFICES ASSUME LegacyInit PROVE LegacyInv
      OBVIOUS
    <2>1. NoTx \in Prompts
      BY DEF Prompts, NoTx, None
    <2> QED BY <2>1 DEF LegacyInit, LegacyInv, LegacyTypeOK, PromptInv, CodeInv, Sources
  <1>2. ASSUME LegacyInv, LegacyNext  PROVE LegacyInv'
    <2>1. CASE DeviceNext \/ RouterNext \/ \E phone \in Phones : Rebuild(phone)
      <3>1. UNCHANGED <<tx, verdict, given, spent>>
        BY <2>1 DEF DeviceNext, RouterNext, Syncs, Lookup, Transfer, AddTv, RemoveTv, Rebuild,
                    Sync, Tick, ResetCounters, serverVars
      <3>2. faults \subseteq faults'
        BY <2>1 DEF DeviceNext, RouterNext, Syncs, Lookup, Transfer, AddTv, RemoveTv, Rebuild,
                    Sync, Tick, ResetCounters, Fault, NoFault
      <3> QED BY <1>2, <3>1, <3>2, LegacyQuiet
    <2> QED BY <1>2, <2>1, MoneyGivesOnce, FreshGivesOnce DEF LegacyNext, OperatorNext
  <1>3. ASSUME LegacyInv, UNCHANGED legacyVars  PROVE LegacyInv'
    BY <1>3, LegacyQuiet DEF legacyVars, serverVars
  <1> QED BY <1>1, <1>2, <1>3, PTL DEF LegacySpec

\* A prompt's payment and a voucher give time once, and twice only when the
\* process stopped between the gift and its mark: status page, callbacks,
\* sweep and a lost database in any order (fulfil.js, markProvisioned).
THEOREM TimeIsGivenOnce == LegacySpec => []GivenOnce
  <1>1. LegacyInv => GivenOnce
    BY DEF LegacyInv, PromptInv, CodeInv, GivenOnce
  <1> QED BY <1>1, LegacyInvHolds, PTL

-----------------------------------------------------------------------------
(* The original hotspot: time that is left can be used.                     *)

PhoneUser(l) == <<l, "phone">>
Calm(fs) == fs \cap LocksOut = {} /\ ~({"reset", "overrun"} \subseteq fs)

IsAccount(a) == a \in [total : Nat, used : Nat, expiry : Nat, mac : {a.mac}]
IsUser(r) == r \in [limit : Nat, used : Nat, mac : {r.mac}, on : BOOLEAN]
IsJob(j) == j \in [user : {j.user}, action : {"upsert", "transfer", "revoke"}, total : {j.total}, mac : {j.mac},
                   state : {"new", "ran", "acked"}]
\* A login's own jobs carry a ceiling; only a TV's login is taken away.
IsCeiling(j) == j.action # "revoke" /\ j.total \in Nat

TimeTypeOK ==
    /\ now \in Nat
    /\ DOMAIN acct = Logins /\ \A l \in Logins : IsAccount(acct[l])
    /\ \A l \in Logins : IsUser(user[PhoneUser(l)])
    /\ \E S : jobs \in Seq(S)
    /\ \A i \in DOMAIN jobs : IsJob(jobs[i])
    /\ \A i \in DOMAIN jobs, l \in Logins : jobs[i].user = PhoneUser(l) => IsCeiling(jobs[i])

TimeLeft(l) == IF Running(l) THEN acct[l].expiry - now ELSE 0
NewJobs(l) == {i \in DOMAIN jobs : jobs[i].user = PhoneUser(l) /\ jobs[i].state = "new"}

\* What the router will do for a login once it has run the jobs that wait: the
\* last of them decides.
ComingRoom(l) ==
    LET u == user[PhoneUser(l)] IN
    IF NewJobs(l) = {}
    THEN Running(l) => u.on /\ u.limit >= u.used + TimeLeft(l)
    ELSE \A i \in NewJobs(l) : (\A j \in NewJobs(l) : j <= i) => jobs[i].total >= u.used + TimeLeft(l)

\* Until its counters start again, the router only counts up, under ceilings
\* that only rise.
Rising(l) ==
    LET u == user[PhoneUser(l)] IN
    /\ acct[l].used <= u.used /\ u.used <= u.limit /\ u.limit <= acct[l].total
    /\ \A i \in NewJobs(l) : u.limit <= jobs[i].total /\ jobs[i].total <= acct[l].total

\* The total covers the use, as the router counts it and as it was reported,
\* and the time left.
HasRoom(l) ==
    /\ acct[l].total >= user[PhoneUser(l)].used + TimeLeft(l)
    /\ acct[l].total >= acct[l].used + TimeLeft(l)
    /\ ComingRoom(l)
    /\ "reset" \notin faults => Rising(l)

TimeInv == Calm(faults) => TimeTypeOK /\ \A l \in Logins : HasRoom(l)

LEMMA CalmBefore ==
    ASSUME TimeInv, faults \subseteq faults', Calm(faults')
    PROVE  TimeTypeOK /\ (\A l \in Logins : HasRoom(l)) /\ ("reset" \in faults => "reset" \in faults')
  BY DEF TimeInv, Calm

\* What the types give about a login.
TimeNumbers(l) ==
    /\ now \in Nat /\ TimeLeft(l) \in Nat
    /\ acct[l].total \in Nat /\ acct[l].used \in Nat /\ acct[l].expiry \in Nat
    /\ PhoneUser(l) \in Users
    /\ user[PhoneUser(l)].limit \in Nat /\ user[PhoneUser(l)].used \in Nat
    /\ Len(jobs) \in Nat /\ DOMAIN jobs = 1..Len(jobs)
    /\ \A i \in NewJobs(l) : i \in DOMAIN jobs /\ jobs[i].total \in Nat

LEMMA TimeNumbersHold == TimeTypeOK => \A l \in Logins : TimeNumbers(l)
  <1> SUFFICES ASSUME TimeTypeOK, NEW l \in Logins PROVE TimeNumbers(l)
    OBVIOUS
  <1>1. /\ now \in Nat /\ IsAccount(acct[l]) /\ IsUser(user[PhoneUser(l)])
        /\ \A i \in DOMAIN jobs : jobs[i].user = PhoneUser(l) => IsCeiling(jobs[i])
    BY DEF TimeTypeOK
  <1>2. acct[l].total \in Nat /\ acct[l].used \in Nat /\ acct[l].expiry \in Nat
    BY <1>1 DEF IsAccount
  <1>3. user[PhoneUser(l)].limit \in Nat /\ user[PhoneUser(l)].used \in Nat
    BY <1>1 DEF IsUser
  <1>4. TimeLeft(l) \in Nat
    BY <1>1, <1>2 DEF TimeLeft, Running
  <1>5. PhoneUser(l) \in Users
    BY DEF PhoneUser, Users
  <1>6. Len(jobs) \in Nat /\ DOMAIN jobs = 1..Len(jobs)
    BY DEF TimeTypeOK
  <1>7. \A i \in NewJobs(l) : i \in DOMAIN jobs /\ jobs[i].total \in Nat
    BY <1>1, <1>6 DEF NewJobs, IsCeiling
  <1> QED BY <1>1, <1>2, <1>3, <1>4, <1>5, <1>6, <1>7 DEF TimeNumbers

LEMMA TimeNumbersAfter == TimeTypeOK' => \A l \in Logins : TimeNumbers(l)'
  <1>1. (TimeTypeOK => \A l \in Logins : TimeNumbers(l))'
    BY TimeNumbersHold, PTL
  <1> QED BY <1>1

\* A step that leaves ledger, router and jobs as they are, but for devices.
LEMMA SameTime ==
    ASSUME TimeInv, faults \subseteq faults', UNCHANGED <<now, user, jobs>>,
           DOMAIN acct' = DOMAIN acct,
           \A l \in Logins : IsAccount(acct[l]) =>
               /\ IsAccount(acct'[l]) /\ acct'[l].total = acct[l].total
               /\ acct'[l].used = acct[l].used /\ acct'[l].expiry = acct[l].expiry
    PROVE  TimeInv'
  <1> SUFFICES ASSUME Calm(faults') PROVE TimeTypeOK' /\ \A l \in Logins : HasRoom(l)'
    BY DEF TimeInv
  <1>1. TimeTypeOK /\ (\A l \in Logins : HasRoom(l)) /\ ("reset" \in faults => "reset" \in faults')
    BY CalmBefore
  <1>2. TimeTypeOK'
    BY <1>1 DEF TimeTypeOK
  <1>3. ASSUME NEW l \in Logins PROVE HasRoom(l)'
    <2>1. acct'[l].total = acct[l].total /\ acct'[l].used = acct[l].used /\ acct'[l].expiry = acct[l].expiry
      BY <1>1 DEF TimeTypeOK
    <2>2. (Running(l)' <=> Running(l)) /\ TimeLeft(l)' = TimeLeft(l) /\ NewJobs(l)' = NewJobs(l)
      BY <2>1 DEF Running, TimeLeft, NewJobs
    <2> QED BY <1>1, <2>1, <2>2 DEF HasRoom, ComingRoom, Rising
  <1> QED BY <1>2, <1>3

LEMMA TotalsCarried ==
    ASSUME NEW l, TimeNumbers(l), TimeNumbers(l)', HasRoom(l), NEW gain \in Nat,
           acct'[l].total >= acct[l].total + gain, acct'[l].used = acct[l].used,
           TimeLeft(l)' <= TimeLeft(l) + gain
    PROVE  /\ acct'[l].total >= user[PhoneUser(l)].used + TimeLeft(l)'
           /\ acct'[l].total >= acct'[l].used + TimeLeft(l)'
  <1>1. /\ acct[l].total >= user[PhoneUser(l)].used + TimeLeft(l)
        /\ acct[l].total >= acct[l].used + TimeLeft(l)
    BY DEF HasRoom
  <1>2. /\ acct[l].total \in Nat /\ acct[l].used \in Nat /\ TimeLeft(l) \in Nat
        /\ user[PhoneUser(l)].used \in Nat /\ acct'[l].total \in Nat /\ TimeLeft(l)' \in Nat
    BY DEF TimeNumbers
  <1> QED BY <1>1, <1>2

\* Jobs are added, and a total rises by as much as the time left with it.
LEMMA RoomAdded ==
    ASSUME TimeTypeOK, NEW l \in Logins, HasRoom(l), TimeTypeOK',
           "reset" \in faults => "reset" \in faults',
           UNCHANGED <<now, user>>,
           Len(jobs) <= Len(jobs'), \A i \in DOMAIN jobs : jobs'[i] = jobs[i],
           \A i \in DOMAIN jobs' \ DOMAIN jobs :
               jobs'[i].user = PhoneUser(l) => jobs'[i].state = "new" /\ jobs'[i].total = acct'[l].total,
           NEW gain \in Nat, acct'[l].total >= acct[l].total + gain, acct'[l].used = acct[l].used,
           TimeLeft(l)' <= TimeLeft(l) + gain,
           \/ acct'[l].expiry = acct[l].expiry
           \/ \E i \in DOMAIN jobs' \ DOMAIN jobs : jobs'[i].user = PhoneUser(l)
    PROVE  HasRoom(l)'
  <1> DEFINE u == user[PhoneUser(l)]
  <1>1. TimeNumbers(l) /\ TimeNumbers(l)'
    BY TimeNumbersHold, TimeNumbersAfter
  <1>2. /\ TimeLeft(l) \in Nat /\ acct[l].total \in Nat /\ acct[l].used \in Nat
        /\ u.limit \in Nat /\ u.used \in Nat /\ acct'[l].total \in Nat /\ TimeLeft(l)' \in Nat
        /\ u' = u
    BY <1>1 DEF TimeNumbers
  <1>3. acct'[l].total >= u.used + TimeLeft(l)' /\ acct'[l].total >= acct'[l].used + TimeLeft(l)'
    BY <1>1, TotalsCarried
  <1>4. \A i \in NewJobs(l)' : \/ i \in NewJobs(l) /\ jobs'[i] = jobs[i]
                               \/ i \notin DOMAIN jobs /\ jobs'[i].total = acct'[l].total
    BY DEF NewJobs
  <1>5. NewJobs(l) \subseteq NewJobs(l)'
    BY <1>1 DEF NewJobs, TimeNumbers
  <1>6. ComingRoom(l)'
    <2>1. CASE \E i \in NewJobs(l)' : i \notin DOMAIN jobs
      <3>1. PICK k \in NewJobs(l)' : k \notin DOMAIN jobs
        BY <2>1
      <3>2. ASSUME NEW i \in NewJobs(l)', \A j \in NewJobs(l)' : j <= i
            PROVE  jobs'[i].total >= u.used + TimeLeft(l)'
        <4>1. i \notin DOMAIN jobs
          BY <1>1, <3>1, <3>2 DEF TimeNumbers
        <4>2. jobs'[i].total = acct'[l].total
          BY <1>4, <4>1 DEF NewJobs
        <4> QED BY <1>3, <4>2
      <3> QED BY <1>2, <3>1, <3>2 DEF ComingRoom
    <2>2. CASE NewJobs(l)' \subseteq DOMAIN jobs
      <3>1. NewJobs(l)' = NewJobs(l)
        BY <1>4, <1>5, <2>2
      <3>2. acct'[l].expiry = acct[l].expiry
        BY <2>2 DEF NewJobs
      <3>3. (Running(l)' <=> Running(l)) /\ TimeLeft(l)' = TimeLeft(l)
        BY <3>2 DEF Running, TimeLeft
      <3>4. \A i \in NewJobs(l) : jobs'[i] = jobs[i]
        BY DEF NewJobs
      <3> QED BY <1>2, <3>1, <3>3, <3>4 DEF ComingRoom, HasRoom
    <2> QED BY <2>1, <2>2
  <1>7. "reset" \notin faults' => Rising(l)'
    <2> SUFFICES ASSUME Rising(l) PROVE Rising(l)'
      BY DEF HasRoom
    <2>1. acct'[l].used <= u.used /\ u.used <= u.limit /\ u.limit <= acct'[l].total
      BY <1>2 DEF Rising
    <2>2. ASSUME NEW i \in NewJobs(l)'
          PROVE  u.limit <= jobs'[i].total /\ jobs'[i].total <= acct'[l].total
      <3>1. CASE i \in NewJobs(l) /\ jobs'[i] = jobs[i]
        <4>1. jobs[i].total \in Nat /\ u.limit <= jobs[i].total /\ jobs[i].total <= acct[l].total
          BY <1>1, <3>1 DEF TimeNumbers, Rising
        <4>2. acct[l].total <= acct'[l].total
          BY <1>2
        <4> HIDE DEF u
        <4> QED BY <1>2, <3>1, <4>1, <4>2
      <3>2. CASE jobs'[i].total = acct'[l].total
        BY <1>2, <2>1, <3>2
      <3> QED BY <1>4, <3>1, <3>2
    <2> QED BY <1>2, <2>1, <2>2 DEF Rising
  <1> QED BY <1>2, <1>3, <1>6, <1>7 DEF HasRoom

\* The jobs that a step adds for one login l0, and what they do to the ledger.
LEMMA JobsAdded ==
    ASSUME TimeTypeOK, NEW S, NEW more \in Seq(S), jobs' = jobs \o more,
           \A i \in DOMAIN more : IsJob(more[i]),
           \A i \in DOMAIN more, l \in Logins : more[i].user = PhoneUser(l) => IsCeiling(more[i]),
           UNCHANGED <<now, user>>, DOMAIN acct' = Logins, \A l \in Logins : IsAccount(acct'[l])
    PROVE  /\ TimeTypeOK'
           /\ Len(jobs) <= Len(jobs') /\ \A i \in DOMAIN jobs : jobs'[i] = jobs[i]
           /\ \A i \in DOMAIN jobs' \ DOMAIN jobs : \E k \in DOMAIN more : jobs'[i] = more[k]
           /\ \A k \in DOMAIN more : \E i \in DOMAIN jobs' \ DOMAIN jobs : jobs'[i] = more[k]
  <1>1. PICK T : jobs \in Seq(T)
    BY DEF TimeTypeOK
  <1>2. jobs \in Seq(S \cup T) /\ more \in Seq(S \cup T)
    BY <1>1
  <1>3. /\ Len(jobs) \in Nat /\ Len(more) \in Nat /\ DOMAIN jobs = 1..Len(jobs) /\ DOMAIN more = 1..Len(more)
        /\ jobs' \in Seq(S \cup T) /\ Len(jobs') = Len(jobs) + Len(more) /\ DOMAIN jobs' = 1..Len(jobs')
        /\ \A i \in 1..Len(jobs) : jobs'[i] = jobs[i]
        /\ \A k \in 1..Len(more) : jobs'[Len(jobs) + k] = more[k]
    BY <1>2
  <1>4. ASSUME NEW i \in DOMAIN jobs' \ DOMAIN jobs  PROVE \E k \in DOMAIN more : jobs'[i] = more[k]
    <2>1. i - Len(jobs) \in 1..Len(more) /\ i = Len(jobs) + (i - Len(jobs))
      BY <1>3
    <2> QED BY <1>3, <2>1
  <1>5. ASSUME NEW k \in DOMAIN more  PROVE \E i \in DOMAIN jobs' \ DOMAIN jobs : jobs'[i] = more[k]
    <2>1. Len(jobs) + k \in DOMAIN jobs' \ DOMAIN jobs
      BY <1>3
    <2> QED BY <1>3, <2>1
  <1>6. \A i \in DOMAIN jobs' : (i \in DOMAIN jobs /\ jobs'[i] = jobs[i]) \/ i \in DOMAIN jobs' \ DOMAIN jobs
    BY <1>3
  <1>7. \A i \in DOMAIN jobs' : IsJob(jobs'[i])
    BY <1>4, <1>6 DEF TimeTypeOK
  <1>8. ASSUME NEW i \in DOMAIN jobs', NEW l \in Logins, jobs'[i].user = PhoneUser(l)
        PROVE  IsCeiling(jobs'[i])
    BY <1>4, <1>6, <1>8 DEF TimeTypeOK
  <1>9. \E X : jobs' \in Seq(X)
    BY <1>3
  <1>10. TimeTypeOK'
    BY <1>7, <1>8, <1>9 DEF TimeTypeOK
  <1>11. Len(jobs) <= Len(jobs')
    BY <1>3
  <1> QED BY <1>3, <1>4, <1>5, <1>10, <1>11

\* A step that adds jobs of one login, and raises its total by at least what it
\* raises the time left.
AddsJobs(l0, more, gain) ==
    /\ \E S : more \in Seq(S)
    /\ jobs' = jobs \o more
    /\ \A i \in DOMAIN more : IsJob(more[i]) /\ more[i].state = "new"
    /\ \A i \in DOMAIN more, l \in Logins : more[i].user = PhoneUser(l) =>
           l = l0 /\ more[i].action # "revoke" /\ more[i].total = acct'[l0].total
    /\ DOMAIN acct' = DOMAIN acct /\ \A l \in Logins : l # l0 => acct'[l] = acct[l]
    /\ now \in Nat /\ l0 \in Logins /\ IsAccount(acct[l0]) =>
           /\ IsAccount(acct'[l0]) /\ acct'[l0].used = acct[l0].used
           /\ acct'[l0].total >= acct[l0].total + gain /\ TimeLeft(l0)' <= TimeLeft(l0) + gain
           /\ acct'[l0].expiry = acct[l0].expiry \/ \E i \in DOMAIN more : more[i].user = PhoneUser(l0)

LEMMA JobsStep ==
    ASSUME TimeInv, faults \subseteq faults', UNCHANGED <<now, user>>,
           NEW l0, NEW more, NEW gain \in Nat, AddsJobs(l0, more, gain)
    PROVE  TimeInv'
  <1> USE DEF AddsJobs
  <1> SUFFICES ASSUME Calm(faults') PROVE TimeTypeOK' /\ \A l \in Logins : HasRoom(l)'
    BY DEF TimeInv
  <1>1. TimeTypeOK /\ (\A l \in Logins : HasRoom(l)) /\ ("reset" \in faults => "reset" \in faults')
    BY CalmBefore
  <1>2. now \in Nat /\ DOMAIN acct' = Logins /\ \A l \in Logins : IsAccount(acct[l]) /\ IsAccount(acct'[l])
    BY <1>1 DEF TimeTypeOK
  <1>3. \A i \in DOMAIN more, l \in Logins : more[i].user = PhoneUser(l) => IsCeiling(more[i])
    BY <1>2 DEF IsCeiling, IsAccount
  <1>4. /\ TimeTypeOK'
        /\ Len(jobs) <= Len(jobs') /\ \A i \in DOMAIN jobs : jobs'[i] = jobs[i]
        /\ \A i \in DOMAIN jobs' \ DOMAIN jobs : \E k \in DOMAIN more : jobs'[i] = more[k]
        /\ \A k \in DOMAIN more : \E i \in DOMAIN jobs' \ DOMAIN jobs : jobs'[i] = more[k]
    <2>1. PICK S : more \in Seq(S)
      OBVIOUS
    <2> QED BY <1>1, <1>2, <1>3, <2>1, JobsAdded
  <1>5. ASSUME NEW l \in Logins PROVE HasRoom(l)'
    <2>1. \A i \in DOMAIN jobs' \ DOMAIN jobs :
              jobs'[i].user = PhoneUser(l) => jobs'[i].state = "new" /\ jobs'[i].total = acct'[l].total
      <3> SUFFICES ASSUME NEW i \in DOMAIN jobs' \ DOMAIN jobs, jobs'[i].user = PhoneUser(l)
                   PROVE  jobs'[i].state = "new" /\ jobs'[i].total = acct'[l].total
        OBVIOUS
      <3>1. PICK k \in DOMAIN more : jobs'[i] = more[k]
        BY <1>4
      <3>2. l = l0 /\ more[k].total = acct'[l0].total /\ more[k].state = "new"
        BY <3>1
      <3> QED BY <3>1, <3>2
    <2>2. CASE l = l0
      <3>1. /\ acct'[l].used = acct[l].used
            /\ acct'[l].total >= acct[l].total + gain /\ TimeLeft(l)' <= TimeLeft(l) + gain
            /\ \/ acct'[l].expiry = acct[l].expiry
               \/ \E i \in DOMAIN jobs' \ DOMAIN jobs : jobs'[i].user = PhoneUser(l)
        <4>1. /\ acct'[l].used = acct[l].used
              /\ acct'[l].total >= acct[l].total + gain /\ TimeLeft(l)' <= TimeLeft(l) + gain
              /\ acct'[l].expiry = acct[l].expiry \/ \E i \in DOMAIN more : more[i].user = PhoneUser(l)
          BY <1>2, <2>2
        <4>2. ASSUME NEW k \in DOMAIN more, more[k].user = PhoneUser(l)
              PROVE  \E i \in DOMAIN jobs' \ DOMAIN jobs : jobs'[i].user = PhoneUser(l)
          <5>1. PICK i \in DOMAIN jobs' \ DOMAIN jobs : jobs'[i] = more[k]
            BY <1>4
          <5> QED BY <4>2, <5>1
        <4> QED BY <4>1, <4>2
      <3> QED BY <1>1, <1>4, <2>1, <3>1, RoomAdded
    <2>3. CASE l # l0
      <3>1. acct'[l] = acct[l] /\ acct[l].total \in Nat
        BY <1>2, <2>3 DEF IsAccount
      <3>2. TimeLeft(l)' = TimeLeft(l)
        BY <3>1 DEF TimeLeft, Running
      <3>3. TimeLeft(l) \in Nat
        BY <1>1, TimeNumbersHold DEF TimeNumbers
      <3>4. acct'[l].total >= acct[l].total + 0 /\ TimeLeft(l)' <= TimeLeft(l) + 0
        BY <3>1, <3>2, <3>3
      <3>5. acct'[l].used = acct[l].used /\ acct'[l].expiry = acct[l].expiry /\ 0 \in Nat
        BY <3>1
      <3> HIDE DEF TimeInv
      <3> QED BY <1>1, <1>4, <2>1, <3>4, <3>5, RoomAdded
    <2> QED BY <2>2, <2>3
  <1> QED BY <1>4, <1>5

LEMMA JobIsNew ==
    ASSUME NEW u, NEW action \in {"upsert", "transfer", "revoke"}, NEW total, NEW mac
    PROVE  LET j == Job(u, action, total, mac) IN
           IsJob(j) /\ j.state = "new" /\ j.user = u /\ j.action = action /\ j.total = total
  BY DEF Job, IsJob

LEMMA PhoneUserOne == ASSUME NEW k, NEW l, PhoneUser(k) = PhoneUser(l) PROVE k = l
  BY DEF PhoneUser

LEMMA PhoneNotTv == ASSUME NEW k, NEW l PROVE <<k, "tv">> # PhoneUser(l)
  BY DEF PhoneUser

LEMMA TimeGranted ==
    ASSUME TimeInv, NEW l, NEW mac, GrantTime(l, mac), UNCHANGED <<now, user>>, faults \subseteq faults'
    PROVE  TimeInv'
  <1> DEFINE total == NewTotal(acct[l])
             phone == Job(PhoneUser(l), "upsert", total, mac)
             tv == Job(<<l, "tv">>, "upsert", total, Tv)
             tail == IF tvs = l THEN <<tv>> ELSE <<>>
             more == <<phone>> \o tail
             a == [total |-> total, used |-> acct[l].used, expiry |-> NewExpiry(acct[l]),
                   mac |-> IF mac = None THEN acct[l].mac ELSE mac]
  <1>0. CASE ~Calm(faults')
    BY <1>0 DEF TimeInv
  <1>1. CASE Calm(faults')
    <2>1. TimeTypeOK
      BY <1>1, CalmBefore
    <2>2. PICK T : jobs \in Seq(T)
      BY <2>1 DEF TimeTypeOK
    <2>3. acct' = [acct EXCEPT ![l] = a] /\ jobs' = (jobs \o <<phone>>) \o tail
      BY DEF GrantTime, PhoneUser
    <2>4. /\ IsJob(phone) /\ phone.state = "new" /\ phone.user = PhoneUser(l) /\ phone.action = "upsert"
          /\ phone.total = total
          /\ IsJob(tv) /\ tv.state = "new" /\ tv.user = <<l, "tv">>
      BY JobIsNew
    <2>5. a.total = total /\ a.used = acct[l].used /\ a.expiry = NewExpiry(acct[l])
          /\ (total \in Nat /\ acct[l].used \in Nat /\ NewExpiry(acct[l]) \in Nat => IsAccount(a))
      BY DEF IsAccount
    <2> HIDE DEF total, phone, tv, a
    <2>6. jobs' = jobs \o more /\ more \in Seq({phone, tv})
      <3> HIDE DEF tail
      <3>1. tail \in Seq({phone, tv})
        <4>1. tail = <<tv>> \/ tail = <<>>
          BY DEF tail
        <4>2. <<tv>> \in Seq({phone, tv}) /\ <<>> \in Seq({phone, tv})
          OBVIOUS
        <4> QED BY <4>1, <4>2
      <3>2. jobs \in Seq(T \cup {phone, tv}) /\ <<phone>> \in Seq(T \cup {phone, tv}) /\ tail \in Seq(T \cup {phone, tv})
        BY <2>2, <3>1
      <3>3. (jobs \o <<phone>>) \o tail = jobs \o (<<phone>> \o tail)
        BY <3>2
      <3> QED BY <2>3, <3>1, <3>3
    <2>7. \A i \in DOMAIN more : more[i] \in {phone, tv}
      BY <2>6
    <2>8. 1 \in DOMAIN more /\ more[1] = phone
      OBVIOUS
    <2> HIDE DEF more, tail
    <2>9. \A i \in DOMAIN more : IsJob(more[i]) /\ more[i].state = "new"
      BY <2>4, <2>7
    <2>10. ASSUME l \in Logins PROVE acct'[l] = a
      BY <2>1, <2>3, <2>10 DEF TimeTypeOK
    <2>11. DOMAIN acct' = DOMAIN acct /\ \A k \in Logins : k # l => acct'[k] = acct[k]
      BY <2>1, <2>3 DEF TimeTypeOK
    <2>12. ASSUME NEW i \in DOMAIN more, NEW k \in Logins, more[i].user = PhoneUser(k)
           PROVE  k = l /\ more[i].action # "revoke" /\ more[i].total = acct'[l].total
      <3>1. more[i] = phone
        BY <2>4, <2>7, <2>12, PhoneNotTv
      <3>2. k = l
        BY <2>4, <2>12, <3>1, PhoneUserOne
      <3>3. acct'[l].total = total
        BY <2>5, <2>10, <3>2
      <3> QED BY <2>4, <3>1, <3>2, <3>3
    <2>13. ASSUME now \in Nat, l \in Logins, IsAccount(acct[l])
           PROVE  /\ IsAccount(acct'[l]) /\ acct'[l].used = acct[l].used
                  /\ acct'[l].total >= acct[l].total + Length /\ TimeLeft(l)' <= TimeLeft(l) + Length
      <3>1. Length \in Nat /\ acct[l].total \in Nat /\ acct[l].used \in Nat /\ acct[l].expiry \in Nat
        BY <2>13, LegacyAssumption DEF IsAccount
      <3>2. total \in Nat /\ total >= acct[l].total + Length
        BY <3>1 DEF total, NewTotal, Larger
      <3>3. /\ NewExpiry(acct[l]) \in Nat
            /\ NewExpiry(acct[l]) = (IF now > acct[l].expiry THEN now ELSE acct[l].expiry) + Length
        BY <2>13, <3>1 DEF NewExpiry, Larger
      <3>4. acct'[l] = a
        BY <2>10, <2>13
      <3>5. TimeLeft(l)' <= TimeLeft(l) + Length
        <4>1. acct'[l].expiry = NewExpiry(acct[l])
          BY <2>5, <3>4
        <4>2. TimeLeft(l)' = IF NewExpiry(acct[l]) > now THEN NewExpiry(acct[l]) - now ELSE 0
          BY <4>1 DEF TimeLeft, Running
        <4> QED BY <2>13, <3>1, <3>3, <4>2 DEF TimeLeft, Running
      <3> QED BY <2>5, <3>1, <3>2, <3>3, <3>4, <3>5
    <2>14. \E i \in DOMAIN more : more[i].user = PhoneUser(l)
      BY <2>4, <2>8
    <2>15. Length \in Nat
      BY LegacyAssumption
    <2>16. AddsJobs(l, more, Length)
      BY <2>6, <2>9, <2>11, <2>12, <2>13, <2>14 DEF AddsJobs
    <2> QED BY <2>15, <2>16, JobsStep
  <1> QED BY <1>0, <1>1

\* A single job, for a device that joins, moves or leaves.
LEMMA JobAppended ==
    ASSUME TimeInv, NEW l, NEW j, IsJob(j), j.state = "new", jobs' = Append(jobs, j),
           \A k \in Logins : j.user = PhoneUser(k) =>
               k = l /\ j.action # "revoke" /\ j.total = acct'[l].total,
           DOMAIN acct' = DOMAIN acct, \A k \in Logins : k # l => acct'[k] = acct[k],
           l \in Logins /\ IsAccount(acct[l]) =>
               /\ IsAccount(acct'[l]) /\ acct'[l].used = acct[l].used
               /\ acct'[l].total = acct[l].total /\ acct'[l].expiry = acct[l].expiry,
           UNCHANGED <<now, user>>, faults \subseteq faults'
    PROVE  TimeInv'
  <1>0. CASE ~Calm(faults')
    BY <1>0 DEF TimeInv
  <1>1. CASE Calm(faults')
    <2>1. TimeTypeOK
      BY <1>1, CalmBefore
    <2>2. PICK T : jobs \in Seq(T)
      BY <2>1 DEF TimeTypeOK
    <2>3. jobs' = jobs \o <<j>> /\ <<j>> \in Seq({j})
      BY <2>2
    <2>4. \A i \in DOMAIN <<j>> : <<j>>[i] = j
      OBVIOUS
    <2>5. ASSUME now \in Nat, l \in Logins, IsAccount(acct[l])
          PROVE  /\ IsAccount(acct'[l]) /\ acct'[l].used = acct[l].used
                 /\ acct'[l].total >= acct[l].total + 0 /\ TimeLeft(l)' <= TimeLeft(l) + 0
                 /\ acct'[l].expiry = acct[l].expiry
      <3>1. /\ IsAccount(acct'[l]) /\ acct'[l].used = acct[l].used
            /\ acct'[l].total = acct[l].total /\ acct'[l].expiry = acct[l].expiry
            /\ acct[l].total \in Nat /\ acct[l].expiry \in Nat
        BY <2>5 DEF IsAccount
      <3>2. TimeLeft(l)' = TimeLeft(l) /\ TimeLeft(l) \in Nat
        BY <2>5, <3>1 DEF TimeLeft, Running
      <3> QED BY <3>1, <3>2
    <2>6. \A i \in DOMAIN <<j>> : IsJob(<<j>>[i]) /\ <<j>>[i].state = "new"
      BY <2>4
    <2>7. \A i \in DOMAIN <<j>>, k \in Logins : <<j>>[i].user = PhoneUser(k) =>
               k = l /\ <<j>>[i].action # "revoke" /\ <<j>>[i].total = acct'[l].total
      BY <2>4
    <2>8. AddsJobs(l, <<j>>, 0)
      BY <2>3, <2>5, <2>6, <2>7 DEF AddsJobs
    <2> QED BY <2>8, JobsStep
  <1> QED BY <1>0, <1>1

-----------------------------------------------------------------------------
(* The script of a poll, block by block *)

ScriptIs(g, late, n) ==
    g = [i \in 0..n |-> IF i = 0 THEN RunExpiry(user)
                        ELSE IF Waiting(jobs[i], late) THEN RunJob(g[i - 1], jobs[i]) ELSE g[i - 1]]

LEMMA ScriptExists ==
    ASSUME NEW late, NEW n \in Nat
    PROVE  \E g : ScriptIs(g, late, n)
  <1> DEFINE T == {k \in Nat : ~ \E g : ScriptIs(g, late, k)}
  <1> SUFFICES ASSUME T # {} PROVE FALSE
    OBVIOUS
  <1>1. PICK m \in T : \A k \in T : m <= k
    <2> HIDE DEF T
    <2>1. T \subseteq Nat
      BY DEF T
    <2> QED BY <2>1, SmallestNumber
  <1>2. CASE m = 0
    <2>1. ScriptIs([i \in 0..0 |-> RunExpiry(user)], late, 0)
      BY DEF ScriptIs
    <2> QED BY <1>2, <2>1
  <1>3. CASE m # 0
    <2>1. m - 1 \in Nat /\ m \in Nat /\ ~(m <= m - 1)
      BY <1>3
    <2>2. PICK g : ScriptIs(g, late, m - 1)
      BY <1>1, <2>1
    <2> DEFINE last == IF Waiting(jobs[m], late) THEN RunJob(g[m - 1], jobs[m]) ELSE g[m - 1]
               h == [i \in 0..m |-> IF i = m THEN last ELSE g[i]]
    <2>3. \A i \in 0..m : i # m => i \in 0..(m - 1) /\ h[i] = g[i]
      BY <2>1
    <2>4. h[m] = last /\ h[m - 1] = g[m - 1]
      BY <2>1, <2>3
    <2>5. \A i \in 0..(m - 1) :
              g[i] = IF i = 0 THEN RunExpiry(user)
                     ELSE IF Waiting(jobs[i], late) THEN RunJob(g[i - 1], jobs[i]) ELSE g[i - 1]
      BY <2>2 DEF ScriptIs
    <2>6. \A i \in 0..m : i # m /\ i # 0 => i - 1 \in 0..m /\ h[i - 1] = g[i - 1]
      BY <2>1, <2>3
    <2> HIDE DEF h
    <2>7. ASSUME NEW i \in 0..m
          PROVE  h[i] = IF i = 0 THEN RunExpiry(user)
                        ELSE IF Waiting(jobs[i], late) THEN RunJob(h[i - 1], jobs[i]) ELSE h[i - 1]
      <3>1. CASE i = m
        BY <1>3, <2>4, <3>1
      <3>2. CASE i # m
        BY <2>3, <2>5, <2>6, <3>2
      <3> QED BY <3>1, <3>2
    <2>8. h = [i \in 0..m |-> h[i]]
      BY DEF h
    <2>9. h = [i \in 0..m |-> IF i = 0 THEN RunExpiry(user)
                              ELSE IF Waiting(jobs[i], late) THEN RunJob(h[i - 1], jobs[i]) ELSE h[i - 1]]
      BY <2>7, <2>8, Zenon
    <2>10. ScriptIs(h, late, m)
      BY <2>9 DEF ScriptIs
    <2> QED BY <2>10
  <1> QED BY <1>2, <1>3

LEMMA ScriptRuns ==
    ASSUME NEW late, Len(jobs) \in Nat
    PROVE  \E g : ScriptIs(g, late, Len(jobs)) /\ RunScript(late) = g[Len(jobs)]
  <1>1. \E g : ScriptIs(g, late, Len(jobs))
    BY ScriptExists
  <1> QED BY <1>1 DEF ScriptIs, RunScript

\* A login after n blocks: the last job so far decides, and no block touches
\* the counter.
AfterBlocks(users, n, l) ==
    LET done == {k \in NewJobs(l) : k <= n}
        u == user[PhoneUser(l)]
        r == users[PhoneUser(l)]
    IN  /\ DOMAIN users = Users /\ users = [v \in Users |-> users[v]]
        /\ IsUser(r) /\ r.used = u.used
        /\ IF done = {} THEN r.limit = u.limit /\ (Running(l) => r.on = u.on)
           ELSE r.on /\ \E k \in done : (\A j \in done : j <= k) /\ r.limit = jobs[k].total

LEMMA OneBlock ==
    ASSUME TimeTypeOK, NEW l \in Logins, NEW users, NEW n \in DOMAIN jobs, AfterBlocks(users, n - 1, l),
           NEW late
    PROVE  AfterBlocks(IF Waiting(jobs[n], late) THEN RunJob(users, jobs[n]) ELSE users, n, l)
  <1> DEFINE p == PhoneUser(l)
             done == {k \in NewJobs(l) : k <= n}
             before == {k \in NewJobs(l) : k <= n - 1}
  <1>1. TimeNumbers(l)
    BY TimeNumbersHold
  <1>2. n \in Nat /\ p \in Users /\ \A k \in NewJobs(l) : k \in Nat /\ jobs[k].total \in Nat
    BY <1>1 DEF TimeNumbers
  <1>3. IsJob(jobs[n]) /\ (jobs[n].user = p => IsCeiling(jobs[n]))
    BY DEF TimeTypeOK
  <1>4. Waiting(jobs[n], late) <=> jobs[n].state = "new"
    BY <1>3 DEF Waiting, IsJob
  <1>5. /\ DOMAIN users = Users /\ users = [v \in Users |-> users[v]]
        /\ IsUser(users[p]) /\ users[p].used = user[p].used
        /\ IF before = {} THEN users[p].limit = user[p].limit /\ (Running(l) => users[p].on = user[p].on)
           ELSE users[p].on /\ \E k \in before : (\A j \in before : j <= k) /\ users[p].limit = jobs[k].total
    BY DEF AfterBlocks
  <1>6. CASE n \notin NewJobs(l)
    <2>1. done = before
      BY <1>2, <1>6
    <2> DEFINE r == IF Waiting(jobs[n], late) THEN RunJob(users, jobs[n]) ELSE users
    <2>2. jobs[n].user # p \/ ~Waiting(jobs[n], late)
      BY <1>4, <1>6 DEF NewJobs
    <2>3. r[p] = users[p] /\ DOMAIN r = Users /\ r = [v \in Users |-> r[v]]
      BY <1>2, <1>5, <2>2 DEF RunJob
    <2> HIDE DEF r
    <2>4. AfterBlocks(r, n, l)
      BY <1>5, <2>1, <2>3 DEF AfterBlocks
    <2> QED BY <2>4 DEF r
  <1>7. CASE n \in NewJobs(l)
    <2> DEFINE r == RunJob(users, jobs[n])
    <2>1. jobs[n].user = p /\ Waiting(jobs[n], late) /\ jobs[n].action # "revoke" /\ jobs[n].total \in Nat
      BY <1>3, <1>4, <1>7 DEF NewJobs, IsCeiling
    <2>2. r = [users EXCEPT ![p] = [limit |-> jobs[n].total, used |-> @.used, on |-> TRUE,
                                    mac |-> IF jobs[n].mac = None THEN @.mac ELSE jobs[n].mac]]
      BY <2>1 DEF RunJob
    <2>3. /\ r[p] = [limit |-> jobs[n].total, used |-> users[p].used, on |-> TRUE,
                     mac |-> IF jobs[n].mac = None THEN users[p].mac ELSE jobs[n].mac]
          /\ DOMAIN r = Users /\ r = [v \in Users |-> r[v]]
      BY <1>2, <1>5, <2>2
    <2> HIDE DEF r
    <2>4. IsUser(r[p]) /\ r[p].used = user[p].used /\ r[p].on /\ r[p].limit = jobs[n].total
      <3>1. users[p].used \in Nat
        BY <1>5 DEF IsUser
      <3> QED BY <1>5, <2>1, <2>3, <3>1 DEF IsUser
    <2>5. n \in done /\ \A j \in done : j <= n
      BY <1>2, <1>7
    <2>6. AfterBlocks(r, n, l)
      BY <2>3, <2>4, <2>5 DEF AfterBlocks
    <2> QED BY <2>1, <2>6 DEF r
  <1> QED BY <1>6, <1>7

LEMMA ScriptFor ==
    ASSUME TimeTypeOK, NEW l \in Logins, NEW late
    PROVE  AfterBlocks(RunScript(late), Len(jobs), l)
  <1>1. TimeNumbers(l)
    BY TimeNumbersHold
  <1>2. Len(jobs) \in Nat /\ DOMAIN jobs = 1..Len(jobs) /\ PhoneUser(l) \in Users
    BY <1>1 DEF TimeNumbers
  <1>3. PICK g : ScriptIs(g, late, Len(jobs)) /\ RunScript(late) = g[Len(jobs)]
    BY <1>2, ScriptRuns
  <1> DEFINE T == {i \in 0..Len(jobs) : ~AfterBlocks(g[i], i, l)}
  <1> SUFFICES ASSUME T # {} PROVE FALSE
    BY <1>2, <1>3
  <1>4. PICK m \in T : \A i \in T : m <= i
    <2>1. T \subseteq Nat
      BY <1>2
    <2> HIDE DEF T
    <2> QED BY <2>1, SmallestNumber
  <1>5. m \in 0..Len(jobs) /\ ~AfterBlocks(g[m], m, l)
    BY <1>4
  <1>6. CASE m = 0
    <2>1. g[0] = RunExpiry(user)
      BY <1>2, <1>3 DEF ScriptIs
    <2> DEFINE r == RunExpiry(user)
               u == user[PhoneUser(l)]
    <2>2. /\ DOMAIN r = Users /\ r = [v \in Users |-> r[v]]
          /\ r[PhoneUser(l)] = u \/ (~Running(l) /\ r[PhoneUser(l)] = [u EXCEPT !.on = FALSE])
      <3>1. PhoneUser(l)[1] = l
        BY DEF PhoneUser
      <3>2. Expired(l) => ~Running(l)
        BY <1>1 DEF Expired, Running, TimeNumbers
      <3> QED BY <1>2, <3>1, <3>2 DEF RunExpiry
    <2>3. IsUser(u)
      BY DEF TimeTypeOK
    <2>4. [u EXCEPT !.on = FALSE].used = u.used /\ [u EXCEPT !.on = FALSE].limit = u.limit
          /\ IsUser([u EXCEPT !.on = FALSE])
      BY <2>3 DEF IsUser
    <2>5. {k \in NewJobs(l) : k <= 0} = {}
      BY <1>1 DEF TimeNumbers
    <2> HIDE DEF r, u
    <2>6. AfterBlocks(r, 0, l)
      BY <2>2, <2>3, <2>4, <2>5 DEF AfterBlocks, u
    <2> QED BY <1>5, <1>6, <2>1, <2>6 DEF r
  <1>7. CASE m # 0
    <2>1. m \in DOMAIN jobs /\ m - 1 \in 0..Len(jobs) /\ ~(m <= m - 1)
      BY <1>2, <1>5, <1>7
    <2>2. AfterBlocks(g[m - 1], m - 1, l)
      BY <1>4, <2>1
    <2>3. g[m] = IF Waiting(jobs[m], late) THEN RunJob(g[m - 1], jobs[m]) ELSE g[m - 1]
      BY <1>3, <1>5, <1>7 DEF ScriptIs
    <2>4. AfterBlocks(g[m], m, l)
      BY <2>1, <2>2, <2>3, OneBlock
    <2> QED BY <1>5, <2>4
  <1> QED BY <1>6, <1>7

LEMMA PollKeepsTime ==
    ASSUME TimeInv, NEW late \in BOOLEAN, Sync(late)
    PROVE  TimeInv'
  <1> SUFFICES ASSUME Calm(faults') PROVE TimeTypeOK' /\ \A l \in Logins : HasRoom(l)'
    BY DEF TimeInv
  <1>1. faults' = faults /\ user' = RunScript(late)
    BY DEF Sync, NoFault, Fault, Calm, LocksOut
  <1>2. now' = now /\ acct' = [l \in Logins |-> Reported(l)]
        /\ jobs' = [i \in DOMAIN jobs |->
               [jobs[i] EXCEPT !.state = IF @ = "ran" THEN "acked"
                                         ELSE IF Waiting(jobs[i], late) THEN "ran" ELSE @]]
    BY DEF Sync, Fault, Calm, LocksOut
  <1>3. TimeTypeOK /\ \A l \in Logins : HasRoom(l)
    BY <1>1, CalmBefore
  <1>4. \A l \in Logins : TimeNumbers(l) /\ AfterBlocks(user', Len(jobs), l)
    BY <1>1, <1>3, TimeNumbersHold, ScriptFor
  <1>5. Len(jobs) \in Nat /\ DOMAIN jobs = 1..Len(jobs)
    BY <1>3 DEF TimeTypeOK
  <1>6. ASSUME NEW i \in DOMAIN jobs
        PROVE  /\ IsJob(jobs'[i]) /\ jobs'[i].state # "new"
               /\ jobs'[i].user = jobs[i].user /\ jobs'[i].action = jobs[i].action
               /\ jobs'[i].total = jobs[i].total
    <2>1. IsJob(jobs[i])
      BY <1>3 DEF TimeTypeOK
    <2>2. \E st \in {"ran", "acked"} : jobs'[i] = [jobs[i] EXCEPT !.state = st]
      BY <1>2, <2>1 DEF IsJob, Waiting
    <2> QED BY <2>1, <2>2 DEF IsJob
  <1>7. ASSUME NEW l \in Logins
        PROVE  /\ IsAccount(acct'[l]) /\ acct'[l].expiry = acct[l].expiry
               /\ \/ acct'[l].total = acct[l].total /\ acct'[l].used = acct[l].used
                  \/ /\ acct'[l].used = user[PhoneUser(l)].used
                     /\ \/ user[PhoneUser(l)].used >= acct[l].used /\ acct'[l].total = acct[l].total
                        \/ /\ user[PhoneUser(l)].used < acct[l].used
                           /\ acct'[l].total = acct[l].total - (acct[l].used - user[PhoneUser(l)].used)
    <2> DEFINE a == acct[l]
               used == user[PhoneUser(l)].used
               back == IF used < a.used THEN a.used - used ELSE 0
               total == IF back > a.total THEN 0 ELSE a.total - back
    <2>1. /\ IsAccount(a) /\ used \in Nat /\ a.total \in Nat /\ a.used \in Nat
          /\ a.total >= a.used
      <3>1. a.total >= a.used + TimeLeft(l)
        BY <1>3 DEF HasRoom
      <3>2. IsAccount(a)
        BY <1>3 DEF TimeTypeOK
      <3>3. used \in Nat /\ a.total \in Nat /\ a.used \in Nat /\ TimeLeft(l) \in Nat
        BY <1>4 DEF TimeNumbers
      <3> HIDE DEF a
      <3> QED BY <3>1, <3>2, <3>3
    <2>2. acct'[l] = a \/ acct'[l] = [a EXCEPT !.used = used, !.total = total]
      <3>1. acct'[l] = Reported(l)
        BY <1>2
      <3>2. [a EXCEPT !.used = used, !.total = IF back > @ THEN 0 ELSE @ - back]
                = [a EXCEPT !.used = used, !.total = total]
        BY <2>1 DEF IsAccount
      <3> QED BY <3>1, <3>2 DEF Reported, PhoneUser
    <2>3. /\ total \in Nat
          /\ \/ used >= a.used /\ total = a.total
             \/ used < a.used /\ total = a.total - (a.used - used)
      BY <2>1
    <2> HIDE DEF total, used, a
    <2>4. LET b == [a EXCEPT !.used = used, !.total = total] IN
          IsAccount(b) /\ b.used = used /\ b.total = total /\ b.expiry = a.expiry
      BY <2>1, <2>3 DEF IsAccount
    <2> QED BY <2>1, <2>2, <2>3, <2>4 DEF a, used
  <1>8. TimeTypeOK'
    <2>1. DOMAIN jobs' = DOMAIN jobs /\ \E S : jobs' \in Seq(S)
      <3>1. jobs' = [i \in 1..Len(jobs) |-> jobs'[i]]
        BY <1>2, <1>5
      <3>2. \A i \in 1..Len(jobs) : jobs'[i] \in {jobs'[k] : k \in 1..Len(jobs)}
        OBVIOUS
      <3>3. jobs' \in Seq({jobs'[k] : k \in 1..Len(jobs)})
        BY <1>5, <3>1, <3>2
      <3> QED BY <1>2, <3>3
    <2>2. \A i \in DOMAIN jobs' : IsJob(jobs'[i])
      BY <1>6, <2>1
    <2>3. \A i \in DOMAIN jobs', l \in Logins : jobs'[i].user = PhoneUser(l) => IsCeiling(jobs'[i])
      BY <1>3, <1>6, <2>1 DEF TimeTypeOK, IsCeiling
    <2>4. DOMAIN acct' = Logins /\ \A l \in Logins : IsAccount(acct'[l])
      BY <1>2, <1>7
    <2>5. \A l \in Logins : IsUser(user'[PhoneUser(l)])
      BY <1>4 DEF AfterBlocks
    <2> QED BY <1>2, <1>3, <2>1, <2>2, <2>3, <2>4, <2>5 DEF TimeTypeOK
  <1>9. ASSUME NEW l \in Logins PROVE HasRoom(l)'
    <2> DEFINE p == PhoneUser(l)
    <2>1. TimeNumbers(l) /\ TimeNumbers(l)'
      BY <1>3, <1>8, TimeNumbersHold, TimeNumbersAfter
    <2>2. /\ user'[p].used = user[p].used
          /\ IF NewJobs(l) = {} THEN user'[p].limit = user[p].limit /\ (Running(l) => user'[p].on = user[p].on)
             ELSE user'[p].on /\ \E k \in NewJobs(l) : (\A j \in NewJobs(l) : j <= k) /\ user'[p].limit = jobs[k].total
      <3>1. {k \in NewJobs(l) : k <= Len(jobs)} = NewJobs(l)
        BY <2>1 DEF TimeNumbers
      <3> QED BY <1>4, <3>1 DEF AfterBlocks
    <2>3. /\ (Running(l)' <=> Running(l)) /\ TimeLeft(l)' = TimeLeft(l)
          /\ NewJobs(l)' = {}
      <3>1. acct'[l].expiry = acct[l].expiry /\ now' = now
        BY <1>2, <1>7
      <3>2. NewJobs(l)' = {}
        BY <1>2, <1>6 DEF NewJobs
      <3> QED BY <3>1, <3>2 DEF Running, TimeLeft
    <2>n. /\ acct[l].total \in Nat /\ acct[l].used \in Nat /\ TimeLeft(l) \in Nat
          /\ user[p].used \in Nat /\ user[p].limit \in Nat
      BY <2>1 DEF TimeNumbers
    <2>4. acct'[l].total >= user[p].used + TimeLeft(l) /\ acct'[l].total >= acct'[l].used + TimeLeft(l)
      <3>1. acct[l].total >= user[p].used + TimeLeft(l) /\ acct[l].total >= acct[l].used + TimeLeft(l)
        BY <1>3 DEF HasRoom
      <3> HIDE DEF p
      <3>2. \/ acct'[l].total = acct[l].total /\ acct'[l].used = acct[l].used
            \/ acct'[l].used = user[p].used /\ acct'[l].total = acct[l].total
            \/ /\ acct'[l].used = user[p].used
               /\ acct'[l].total = acct[l].total - (acct[l].used - user[p].used)
        BY <1>7 DEF p
      <3> QED BY <2>n, <3>1, <3>2
    <2>5. ComingRoom(l)'
      <3> SUFFICES ASSUME Running(l)
                   PROVE  user'[p].on /\ user'[p].limit >= user[p].used + TimeLeft(l)
        BY <2>2, <2>3 DEF ComingRoom
      <3>1. ComingRoom(l)
        BY <1>3 DEF HasRoom
      <3>2. CASE NewJobs(l) = {}
        BY <2>2, <3>1, <3>2 DEF ComingRoom
      <3>3. CASE NewJobs(l) # {}
        BY <2>2, <3>1, <3>3 DEF ComingRoom
      <3> QED BY <3>2, <3>3
    <2>6. ASSUME "reset" \notin faults PROVE Rising(l)'
      <3>1. Rising(l)
        BY <1>3, <2>6 DEF HasRoom
      <3>2. acct[l].used <= user[p].used /\ user[p].used <= user[p].limit /\ user[p].limit <= acct[l].total
        BY <3>1 DEF Rising
      <3>3. acct'[l].used <= user[p].used /\ acct'[l].total = acct[l].total
        BY <1>7, <2>n, <3>2
      <3>4. user[p].limit <= user'[p].limit /\ user'[p].limit <= acct[l].total
        <4>1. CASE NewJobs(l) = {}
          BY <2>2, <2>n, <3>2, <4>1
        <4>2. CASE NewJobs(l) # {}
          BY <2>2, <3>1, <4>2 DEF Rising
        <4> QED BY <4>1, <4>2
      <3>5. user'[p].limit \in Nat
        BY <2>1 DEF TimeNumbers
      <3>6. user[p].used <= user'[p].limit
        BY <2>n, <3>2, <3>4, <3>5
      <3> QED BY <2>2, <2>3, <3>3, <3>4, <3>6 DEF Rising
    <2> QED BY <1>1, <2>2, <2>3, <2>4, <2>5, <2>6 DEF HasRoom
  <1> QED BY <1>8, <1>9

\* Time passes: whoever is used has some left, or is used past the end under a
\* ceiling that never came down.
LEMMA ClockKeepsTime ==
    ASSUME TimeInv, NEW online \in SUBSET {u \in Users : MayUse(u)}, Tick(online)
    PROVE  TimeInv'
  <1> SUFFICES ASSUME Calm(faults') PROVE TimeTypeOK' /\ \A l \in Logins : HasRoom(l)'
    BY DEF TimeInv
  <1>1. /\ now' = now + 1 /\ UNCHANGED <<acct, jobs>> /\ \A u \in online : MayUse(u)
        /\ user' = [u \in Users |-> IF u \in online THEN [user[u] EXCEPT !.used = @ + 1] ELSE user[u]]
        /\ faults \subseteq faults' /\ ("reset" \in faults' => "reset" \in faults)
        /\ "overrun" \in faults' \/ \A u \in online : Running(u[1])
    BY DEF Tick, serverVars, NoFault, Fault
  <1>2. TimeTypeOK /\ (\A l \in Logins : HasRoom(l)) /\ ("reset" \in faults => "reset" \in faults')
    BY <1>1, CalmBefore
  <1>3. \A l \in Logins : TimeNumbers(l) /\ IsUser(user[PhoneUser(l)])
    BY <1>2, TimeNumbersHold DEF TimeTypeOK
  <1>4. ASSUME NEW l \in Logins
        PROVE  LET u == user[PhoneUser(l)]
                   r == user'[PhoneUser(l)]
               IN  /\ IsUser(r) /\ r.limit = u.limit /\ r.on = u.on
                   /\ r.used = IF PhoneUser(l) \in online THEN u.used + 1 ELSE u.used
    <2>1. PhoneUser(l) \in Users /\ IsUser(user[PhoneUser(l)])
      BY <1>3 DEF TimeNumbers
    <2>2. user'[PhoneUser(l)] = IF PhoneUser(l) \in online THEN [user[PhoneUser(l)] EXCEPT !.used = @ + 1]
                                ELSE user[PhoneUser(l)]
      BY <1>1, <2>1
    <2> QED BY <2>1, <2>2 DEF IsUser
  <1>5. TimeTypeOK'
    <2>1. \A l \in Logins : IsUser(user'[PhoneUser(l)])
      BY <1>4
    <2> QED BY <1>1, <1>2, <2>1 DEF TimeTypeOK
  <1>6. ASSUME NEW l \in Logins PROVE HasRoom(l)'
    <2> DEFINE p == PhoneUser(l)
    <2>1. /\ now \in Nat /\ acct[l].total \in Nat /\ acct[l].used \in Nat /\ acct[l].expiry \in Nat
          /\ TimeLeft(l) \in Nat /\ user[p].used \in Nat /\ user[p].limit \in Nat
          /\ \A i \in NewJobs(l) : jobs[i].total \in Nat
      BY <1>3 DEF TimeNumbers
    <2>2. /\ user'[p].limit = user[p].limit /\ user'[p].on = user[p].on
          /\ user'[p].used = IF p \in online THEN user[p].used + 1 ELSE user[p].used
      BY <1>4
    <2>3. /\ acct' = acct /\ jobs' = jobs /\ NewJobs(l)' = NewJobs(l)
          /\ TimeLeft(l)' <= TimeLeft(l) /\ TimeLeft(l)' \in Nat
          /\ (Running(l)' => Running(l)) /\ (Running(l) => TimeLeft(l)' = TimeLeft(l) - 1)
          /\ (~Running(l) => TimeLeft(l)' = 0 /\ TimeLeft(l) = 0)
      <3>1. acct' = acct /\ jobs' = jobs /\ now' = now + 1
        BY <1>1
      <3>2. NewJobs(l)' = NewJobs(l)
        BY <3>1 DEF NewJobs
      <3> QED BY <2>1, <3>1, <3>2 DEF TimeLeft, Running
    <2>4. /\ acct[l].total >= user[p].used + TimeLeft(l) /\ acct[l].total >= acct[l].used + TimeLeft(l)
          /\ ComingRoom(l)
      BY <1>2 DEF HasRoom
    <2>5. CASE p \notin online \/ Running(l)
      <3>1. user'[p].used + TimeLeft(l)' <= user[p].used + TimeLeft(l) /\ user'[p].used \in Nat
        BY <2>1, <2>2, <2>3, <2>5
      <3>2. acct[l].total >= user'[p].used + TimeLeft(l)' /\ acct[l].total >= acct[l].used + TimeLeft(l)'
        BY <2>1, <2>3, <2>4, <3>1
      <3>3. ComingRoom(l)'
        <4>1. CASE NewJobs(l) = {}
          BY <2>1, <2>2, <2>3, <2>4, <3>1, <4>1 DEF ComingRoom
        <4>2. CASE NewJobs(l) # {}
          <5>1. ASSUME NEW i \in NewJobs(l), \A j \in NewJobs(l) : j <= i
                PROVE  jobs[i].total >= user'[p].used + TimeLeft(l)'
            <6>1. jobs[i].total >= user[p].used + TimeLeft(l)
              BY <2>4, <4>2, <5>1 DEF ComingRoom
            <6> QED BY <2>1, <2>3, <3>1, <6>1
          <5> QED BY <2>3, <4>2, <5>1 DEF ComingRoom
        <4> QED BY <4>1, <4>2
      <3>4. ASSUME "reset" \notin faults' PROVE Rising(l)'
        <4>1. Rising(l)
          BY <1>2, <3>4 DEF HasRoom
        <4>2. p \in online => user[p].used < user[p].limit
          BY <1>1 DEF MayUse
        <4>3. acct[l].used <= user'[p].used /\ user'[p].used <= user'[p].limit
          BY <2>1, <2>2, <4>1, <4>2 DEF Rising
        <4> QED BY <2>2, <2>3, <4>1, <4>3 DEF Rising
      <3> QED BY <2>3, <3>2, <3>3, <3>4 DEF HasRoom
    <2>6. CASE p \in online /\ ~Running(l)
      <3>1. p[1] = l
        BY DEF PhoneUser
      <3>2. "overrun" \in faults'
        BY <1>1, <2>6, <3>1
      <3>3. "reset" \notin faults' /\ "reset" \notin faults
        BY <1>1, <3>2 DEF Calm
      <3>4. Rising(l) /\ user[p].used < user[p].limit
        BY <1>1, <1>2, <2>6, <3>3 DEF HasRoom, MayUse
      <3>5. user'[p].used = user[p].used + 1 /\ user'[p].used <= user[p].limit
        BY <2>1, <2>2, <2>6, <3>4
      <3>6. acct[l].total >= user'[p].used + TimeLeft(l)' /\ acct[l].total >= acct[l].used + TimeLeft(l)'
        BY <2>1, <2>3, <2>4, <2>6, <3>4, <3>5 DEF Rising
      <3>7. ComingRoom(l)'
        <4>1. ASSUME NEW i \in NewJobs(l) PROVE jobs[i].total >= user'[p].used + TimeLeft(l)'
          <5>1. user[p].limit <= jobs[i].total
            BY <3>4 DEF Rising
          <5> QED BY <2>1, <2>3, <2>6, <3>5, <5>1
        <4> QED BY <2>3, <2>6, <4>1 DEF ComingRoom
      <3>8. Rising(l)'
        <4>1. acct[l].used <= user'[p].used
          BY <2>1, <3>4, <3>5 DEF Rising
        <4> QED BY <2>2, <2>3, <3>4, <3>5, <4>1 DEF Rising
      <3> QED BY <2>3, <3>6, <3>7, <3>8 DEF HasRoom
    <2> QED BY <2>5, <2>6
  <1> QED BY <1>5, <1>6

\* The counters start again: there is more room under every ceiling.
LEMMA ResetKeepsTime ==
    ASSUME TimeInv, ResetCounters
    PROVE  TimeInv'
  <1> SUFFICES ASSUME Calm(faults') PROVE TimeTypeOK' /\ \A l \in Logins : HasRoom(l)'
    BY DEF TimeInv
  <1>1. /\ UNCHANGED <<now, acct, jobs>> /\ user' = [u \in Users |-> [user[u] EXCEPT !.used = 0]]
        /\ faults \subseteq faults' /\ "reset" \in faults'
    BY DEF ResetCounters, serverVars, Fault
  <1>2. TimeTypeOK /\ \A l \in Logins : HasRoom(l)
    BY <1>1, CalmBefore
  <1>3. \A l \in Logins : TimeNumbers(l)
    BY <1>2, TimeNumbersHold
  <1>4. ASSUME NEW l \in Logins
        PROVE  LET u == user[PhoneUser(l)]
                   r == user'[PhoneUser(l)]
               IN  IsUser(r) /\ r.limit = u.limit /\ r.on = u.on /\ r.used = 0
    <2>1. PhoneUser(l) \in Users /\ IsUser(user[PhoneUser(l)])
      BY <1>2, <1>3 DEF TimeNumbers, TimeTypeOK
    <2>2. user'[PhoneUser(l)] = [user[PhoneUser(l)] EXCEPT !.used = 0]
      BY <1>1, <2>1
    <2> QED BY <2>1, <2>2 DEF IsUser
  <1>5. TimeTypeOK'
    <2>1. \A l \in Logins : IsUser(user'[PhoneUser(l)])
      BY <1>4
    <2> QED BY <1>1, <1>2, <2>1 DEF TimeTypeOK
  <1>6. ASSUME NEW l \in Logins PROVE HasRoom(l)'
    <2> DEFINE p == PhoneUser(l)
    <2>1. /\ acct[l].total \in Nat /\ acct[l].used \in Nat
          /\ TimeLeft(l) \in Nat /\ user[p].used \in Nat /\ user[p].limit \in Nat
          /\ \A i \in NewJobs(l) : jobs[i].total \in Nat
      BY <1>3 DEF TimeNumbers
    <2>2. user'[p].limit = user[p].limit /\ user'[p].on = user[p].on /\ user'[p].used = 0
      BY <1>4
    <2>3. /\ acct' = acct /\ jobs' = jobs /\ NewJobs(l)' = NewJobs(l)
          /\ TimeLeft(l)' = TimeLeft(l) /\ (Running(l)' <=> Running(l))
      BY <1>1 DEF NewJobs, TimeLeft, Running
    <2>4. /\ acct[l].total >= user[p].used + TimeLeft(l) /\ acct[l].total >= acct[l].used + TimeLeft(l)
          /\ ComingRoom(l)
      BY <1>2 DEF HasRoom
    <2>5. acct[l].total >= user'[p].used + TimeLeft(l)'
      BY <2>1, <2>2, <2>3, <2>4
    <2>6. ComingRoom(l)'
      <3>1. CASE NewJobs(l) = {}
        BY <2>1, <2>2, <2>3, <2>4, <3>1 DEF ComingRoom
      <3>2. CASE NewJobs(l) # {}
        <4>1. ASSUME NEW i \in NewJobs(l), \A j \in NewJobs(l) : j <= i
              PROVE  jobs[i].total >= user'[p].used + TimeLeft(l)'
          <5>1. jobs[i].total >= user[p].used + TimeLeft(l)
            BY <2>4, <3>2, <4>1 DEF ComingRoom
          <5> QED BY <2>1, <2>2, <2>3, <5>1
        <4> QED BY <2>3, <3>2, <4>1 DEF ComingRoom
      <3> QED BY <3>1, <3>2
    <2> QED BY <1>1, <2>3, <2>4, <2>5, <2>6 DEF HasRoom
  <1> QED BY <1>5, <1>6

-----------------------------------------------------------------------------
(* The steps of money, devices and the operator *)

LEMMA AsideKeepsTime ==
    ASSUME TimeInv, UNCHANGED <<now, acct, jobs, user>>, faults \subseteq faults'
    PROVE  TimeInv'
  BY SameTime

LEMMA FulfilKeepsTime ==
    ASSUME TimeInv, NEW p, NEW t, Fulfil(p, t), UNCHANGED <<now, user>>
    PROVE  TimeInv'
  <1>1. faults \subseteq faults'
    BY DEF Fulfil, NoFault, Fault
  <1>2. CASE Provisionable(t)
    BY <1>1, <1>2, TimeGranted DEF Fulfil
  <1>3. CASE ~Provisionable(t)
    BY <1>1, <1>3, AsideKeepsTime DEF Fulfil
  <1> QED BY <1>2, <1>3

LEMMA MoneyKeepsTime == ASSUME TimeInv, MoneyNext PROVE TimeInv'
  <1>1. ASSUME NEW p \in Pushes, Answer(p) \/ LooksFailed(p) PROVE TimeInv'
    BY <1>1, AsideKeepsTime DEF Answer, LooksFailed, serverVars
  <1>2. ASSUME NEW p \in Pushes, Query(p) \/ Callback(p) \/ Sweep(p) PROVE TimeInv'
    <2>1. UNCHANGED <<now, user>> /\ \E t : Fulfil(p, t)
      BY <1>2 DEF Query, Callback, Sweep, Collected
    <2> QED BY <2>1, FulfilKeepsTime
  <1>3. ASSUME NEW p \in Pushes, NEW phone \in Phones, NEW mac \in {None} \cup Macs, Pay(p, phone, mac)
        PROVE  TimeInv'
    <2>1. UNCHANGED <<now, acct, jobs, user>> /\ faults \subseteq faults'
      BY <1>3 DEF Pay, NoFault, Fault
    <2> QED BY <2>1, AsideKeepsTime
  <1>4. ASSUME NEW r \in Receipts, NEW phone \in Phones, ConfirmPaybill(r, phone) PROVE TimeInv'
    <2>1. GrantTime(<<phone, None>>, None) /\ UNCHANGED <<now, user>> /\ faults \subseteq faults'
      BY <1>4 DEF ConfirmPaybill, NoFault, Fault
    <2> QED BY <2>1, TimeGranted
  <1>5. ASSUME NEW c \in Codes, NEW phone \in Phones, NEW mac \in Macs, Redeem(c, phone, mac) PROVE TimeInv'
    <2>1. /\ UNCHANGED <<now, user>> /\ faults \subseteq faults'
          /\ GrantTime(<<phone, None>>, mac) \/ UNCHANGED <<acct, jobs>>
      BY <1>5 DEF Redeem, NoFault, Fault
    <2> QED BY <2>1, TimeGranted, AsideKeepsTime
  <1> QED BY <1>1, <1>2, <1>3, <1>4, <1>5 DEF MoneyNext

LEMMA DeviceKeepsTime == ASSUME TimeInv, DeviceNext PROVE TimeInv'
  <1> SUFFICES ASSUME Calm(faults') PROVE TimeInv'
    BY DEF TimeInv
  <1>0. faults' = faults
    BY DEF DeviceNext, Lookup, Transfer, AddTv, RemoveTv
  <1>1. ASSUME NEW l \in Logins, NEW mac, acct' = [acct EXCEPT ![l].mac = mac]
        PROVE  /\ DOMAIN acct' = DOMAIN acct /\ \A k \in Logins : k # l => acct'[k] = acct[k]
               /\ IsAccount(acct'[l]) /\ acct'[l].used = acct[l].used
               /\ acct'[l].total = acct[l].total /\ acct'[l].expiry = acct[l].expiry
    <2>1. DOMAIN acct = Logins /\ IsAccount(acct[l])
      BY <1>0, CalmBefore DEF TimeTypeOK
    <2>2. /\ acct'[l] = [acct[l] EXCEPT !.mac = mac] /\ DOMAIN acct' = Logins
          /\ \A k \in Logins : k # l => acct'[k] = acct[k]
      BY <1>1, <2>1
    <2> QED BY <2>1, <2>2 DEF IsAccount
  <1>2. ASSUME NEW l \in Logins, NEW mac \in Macs, Lookup(l, mac) PROVE TimeInv'
    <2>1. acct' = [acct EXCEPT ![l].mac = mac] /\ UNCHANGED <<now, user, jobs, faults>>
      BY <1>2 DEF Lookup
    <2>2. /\ DOMAIN acct' = DOMAIN acct
          /\ \A k \in Logins : IsAccount(acct[k]) =>
                /\ IsAccount(acct'[k]) /\ acct'[k].total = acct[k].total
                /\ acct'[k].used = acct[k].used /\ acct'[k].expiry = acct[k].expiry
      BY <1>1, <2>1
    <2> QED BY <2>1, <2>2, SameTime
  <1>3. ASSUME NEW l \in Logins, NEW mac \in Macs, Transfer(l, mac) PROVE TimeInv'
    <2> DEFINE j == Job(PhoneUser(l), "transfer", acct[l].total, mac)
    <2>1. acct' = [acct EXCEPT ![l].mac = mac] /\ jobs' = Append(jobs, j) /\ UNCHANGED <<now, user, faults>>
      BY <1>3 DEF Transfer, PhoneUser
    <2>2. IsJob(j) /\ j.state = "new" /\ j.user = PhoneUser(l) /\ j.action = "transfer" /\ j.total = acct[l].total
      BY JobIsNew
    <2>3. \A k \in Logins : j.user = PhoneUser(k) => k = l
      BY <2>2, PhoneUserOne
    <2> HIDE DEF j
    <2>4. /\ DOMAIN acct' = DOMAIN acct /\ \A k \in Logins : k # l => acct'[k] = acct[k]
          /\ IsAccount(acct'[l]) /\ acct'[l].used = acct[l].used
          /\ acct'[l].total = acct[l].total /\ acct'[l].expiry = acct[l].expiry
      BY <1>1, <2>1
    <2>5. \A k \in Logins : j.user = PhoneUser(k) =>
              k = l /\ j.action # "revoke" /\ j.total = acct'[l].total
      BY <2>2, <2>3, <2>4
    <2> QED BY <2>1, <2>2, <2>4, <2>5, JobAppended
  <1>4. ASSUME NEW mac \in Macs, AddTv(mac) PROVE TimeInv'
    <2> DEFINE l == AccountByMac(mac)
               j == Job(<<l, "tv">>, "upsert", acct[l].total, Tv)
    <2>1. jobs' = Append(jobs, j) /\ UNCHANGED <<now, user, acct, faults>>
      BY <1>4 DEF AddTv
    <2>2. IsJob(j) /\ j.state = "new" /\ j.user = <<l, "tv">>
      BY JobIsNew
    <2> HIDE DEF j, l
    <2>3. \A k \in Logins : j.user # PhoneUser(k)
      BY <2>2, PhoneNotTv
    <2> QED BY <2>1, <2>2, <2>3, JobAppended
  <1>5. ASSUME NEW mac \in Macs, RemoveTv(mac) PROVE TimeInv'
    <2> DEFINE l == AccountByMac(mac)
               j == Job(<<l, "tv">>, "revoke", 1, None)
    <2>1. jobs' = Append(jobs, j) /\ UNCHANGED <<now, user, acct, faults>>
      BY <1>5 DEF RemoveTv
    <2>2. IsJob(j) /\ j.state = "new" /\ j.user = <<l, "tv">>
      BY JobIsNew
    <2> HIDE DEF j, l
    <2>3. \A k \in Logins : j.user # PhoneUser(k)
      BY <2>2, PhoneNotTv
    <2> QED BY <2>1, <2>2, <2>3, JobAppended
  <1> QED BY <1>2, <1>3, <1>4, <1>5 DEF DeviceNext

\* Both are among the faults that may lock a customer out.
LEMMA OperatorKeepsTime == ASSUME TimeInv, OperatorNext PROVE TimeInv'
  <1>1. "fresh" \in faults' \/ "rebuild" \in faults'
    BY DEF OperatorNext, FreshDatabase, Rebuild, Fault
  <1> QED BY <1>1 DEF TimeInv, Calm, LocksOut

LEMMA TimeInvHolds == LegacySpec => []TimeInv
  <1>1. LegacyInit => TimeInv
    <2> SUFFICES ASSUME LegacyInit PROVE TimeInv
      OBVIOUS
    <2>1. /\ now = 1 /\ acct = [l \in Logins |-> NoAccount] /\ jobs = <<>> /\ user = [u \in Users |-> NoUser]
      BY DEF LegacyInit
    <2>2. IsAccount(NoAccount) /\ IsUser(NoUser)
      BY DEF IsAccount, IsUser, NoAccount, NoUser
    <2>3. \A l \in Logins : acct[l] = NoAccount /\ PhoneUser(l) \in Users /\ user[PhoneUser(l)] = NoUser
      BY <2>1 DEF PhoneUser, Users
    <2>4. DOMAIN jobs = {} /\ \E S : jobs \in Seq(S)
      BY <2>1
    <2>5. TimeTypeOK
      BY <2>1, <2>2, <2>3, <2>4 DEF TimeTypeOK
    <2>6. ASSUME NEW l \in Logins PROVE HasRoom(l)
      <3>1. NewJobs(l) = {}
        BY <2>4 DEF NewJobs
      <3>2. ~Running(l) /\ TimeLeft(l) = 0
        BY <2>1, <2>3 DEF Running, TimeLeft, NoAccount
      <3>3. /\ acct[l].total = 0 /\ acct[l].used = 0
            /\ user[PhoneUser(l)].used = 0 /\ user[PhoneUser(l)].limit = 0
        BY <2>3 DEF NoAccount, NoUser
      <3> QED BY <3>1, <3>2, <3>3 DEF HasRoom, ComingRoom, Rising
    <2> QED BY <2>5, <2>6 DEF TimeInv
  <1>2. TimeInv /\ [LegacyNext]_legacyVars => TimeInv'
    <2> SUFFICES ASSUME TimeInv, [LegacyNext]_legacyVars PROVE TimeInv'
      OBVIOUS
    <2>1. CASE MoneyNext
      BY <2>1, MoneyKeepsTime
    <2>2. CASE DeviceNext
      BY <2>2, DeviceKeepsTime
    <2>3. CASE OperatorNext
      BY <2>3, OperatorKeepsTime
    <2>4. CASE RouterNext
      BY <2>4, PollKeepsTime, ClockKeepsTime, ResetKeepsTime DEF RouterNext, Syncs
    <2>5. CASE UNCHANGED legacyVars
      <3>1. UNCHANGED <<now, acct, jobs, user, faults>>
        BY <2>5 DEF legacyVars, serverVars
      <3> QED BY <3>1, AsideKeepsTime
    <2> QED BY <2>1, <2>2, <2>3, <2>4, <2>5 DEF LegacyNext
  <1> QED BY <1>1, <1>2, PTL DEF LegacySpec

\* Nobody with time left is locked out: once the jobs of a login are done it is
\* on, under a ceiling with room for all of the time, for any number of
\* payments, codes, receipts, devices and polls and however long a sale is;
\* but for the faults the property names (grantTime, the sync's ledger and
\* jobToScript).
THEOREM PaidTimeIsUsable == LegacySpec => []PaidTimeUsable
  <1>1. TimeInv => PaidTimeUsable
    <2> SUFFICES ASSUME TimeInv, Calm(faults), NEW l \in Logins, Running(l), Quiet(PhoneUser(l))
                 PROVE  /\ user[PhoneUser(l)].on
                        /\ user[PhoneUser(l)].limit >= user[PhoneUser(l)].used + (acct[l].expiry - now)
      BY DEF PaidTimeUsable, NotLockedOut, Calm, PhoneUser
    <2>1. HasRoom(l)
      BY DEF TimeInv
    <2>2. NewJobs(l) = {}
      BY DEF NewJobs, Quiet, OpenJobs
    <2> QED BY <2>1, <2>2 DEF HasRoom, ComingRoom, TimeLeft
  <1> QED BY <1>1, TimeInvHolds, PTL

-----------------------------------------------------------------------------
(* Messages: no row is sent twice by two runs of a worker.                  *)

NoteRow == [status : {"none", "pending", "sending", "sent", "failed"},
            attempts : Nat, due : BOOLEAN, old : BOOLEAN]

MessagesTypeOK ==
    /\ stops \in Nat /\ out \in [Texts \cup Notes -> Nat] /\ errors \in [Notes -> Nat]
    /\ texts \in [Texts -> [status : {"none", "queued", "sent", "failed"}, trial : BOOLEAN]]
    /\ batches \in [Runs -> [rows : Seq(Texts), taken : BOOLEAN]]
    /\ notes \in [Notes -> NoteRow]
    /\ rounds \in [Runs -> [rows : Seq(Notes), at : {"read", "claimed", "taken"}]]

\* Only one batch has rows, each of them once and still queued.
BatchesInv ==
    /\ \A r, s \in Runs : batches[r].rows # <<>> /\ batches[s].rows # <<>> => r = s
    /\ \A r \in Runs :
        /\ batches[r].taken => batches[r].rows # <<>>
        /\ \A i \in DOMAIN batches[r].rows : texts[batches[r].rows[i]].status = "queued"
        /\ \A i, j \in DOMAIN batches[r].rows : batches[r].rows[i] = batches[r].rows[j] => i = j

\* The provider has the text, and the worker waits for the answer.
InHand(t) == \E r \in Runs : batches[r].taken /\ batches[r].rows[1] = t

\* A text that may still go out has gone out before a restart only.
TextInv(t) ==
    /\ out[t] <= 1 + stops
    /\ texts[t].status \in {"none", "queued"} /\ ~InHand(t) => out[t] <= stops

TextsInv == BatchesInv /\ \A t \in Texts : TextInv(t)

\* A claimed note is one run's.
Claimed(r) == rounds[r].rows # <<>> /\ rounds[r].at \in {"claimed", "taken"}
RoundsInv ==
    /\ \A r \in Runs : rounds[r].rows = <<>> => rounds[r].at = "read"
    /\ \A r \in Runs : Claimed(r) => notes[rounds[r].rows[1]].status = "sending"
    /\ \A r, s \in Runs : Claimed(r) /\ Claimed(s) /\ rounds[r].rows[1] = rounds[s].rows[1] => r = s

MaySend(n) ==
    \/ notes[n].status \in {"none", "pending"}
    \/ \E r \in Runs : rounds[r].rows # <<>> /\ rounds[r].rows[1] = n /\ rounds[r].at = "claimed"
NoteInv(n) ==
    /\ out[n] <= 1 + stops + errors[n]
    /\ MaySend(n) => out[n] <= stops + errors[n]

NotesInv == RoundsInv /\ \A n \in Notes : NoteInv(n)

MessagesInv == MessagesTypeOK /\ TextsInv /\ NotesInv

LEMMA FirstRow ==
    ASSUME NEW S, NEW q \in Seq(S), q # <<>>
    PROVE  /\ 1 \in DOMAIN q /\ Head(q) = q[1] /\ q[1] \in S /\ Tail(q) \in Seq(S)
           /\ \A i \in DOMAIN Tail(q) : i + 1 \in DOMAIN q /\ i + 1 # 1 /\ Tail(q)[i] = q[i + 1]
  OBVIOUS

\* What a worker reads is a sequence of different rows.
LEMMA OrdersAreSequences ==
    ASSUME NEW T, IsFiniteSet(T), NEW S \in SUBSET T, NEW q \in Orders(S)
    PROVE  /\ q \in Seq(T) /\ \A i \in DOMAIN q : q[i] \in S
           /\ \A i, j \in DOMAIN q : q[i] = q[j] => i = j
  <1>1. Cardinality(S) \in Nat
    BY FS_Subset, FS_CardinalityType
  <1>2. q \in [1..Cardinality(S) -> S] /\ \A i, j \in DOMAIN q : q[i] = q[j] => i = j
    BY DEF Orders
  <1> QED BY <1>1, <1>2

LEMMA TextsStay ==
    ASSUME TextsInv, UNCHANGED <<texts, batches, stops>>, \A t \in Texts : out'[t] = out[t]
    PROVE  TextsInv'
  <1>1. BatchesInv'
    BY DEF TextsInv, BatchesInv
  <1>2. ASSUME NEW t \in Texts  PROVE TextInv(t)'
    BY DEF TextsInv, TextInv, InHand
  <1> QED BY <1>1, <1>2 DEF TextsInv

LEMMA NotesStay ==
    ASSUME NotesInv, UNCHANGED <<rounds, errors, stops>>, \A n \in Notes : out'[n] = out[n],
           \A n \in Notes : notes'[n].status = notes[n].status,
           rounds \in [Runs -> [rows : Seq(Notes), at : {"read", "claimed", "taken"}]]
    PROVE  NotesInv'
  <1>1. ASSUME NEW r \in Runs, Claimed(r)  PROVE rounds[r].rows[1] \in Notes
    BY <1>1, FirstRow DEF Claimed
  <1>2. RoundsInv'
    BY <1>1 DEF NotesInv, RoundsInv, Claimed
  <1>3. ASSUME NEW n \in Notes  PROVE NoteInv(n)'
    BY DEF NotesInv, NoteInv, MaySend
  <1> QED BY <1>2, <1>3 DEF NotesInv

\* Everything but the two workers' tables.
LEMMA MessagesStay ==
    ASSUME MessagesInv, UNCHANGED <<texts, batches, notes, rounds, out, errors, stops>>
    PROVE  MessagesInv'
  <1>1. MessagesTypeOK'
    BY DEF MessagesInv, MessagesTypeOK
  <1>2. TextsInv' /\ NotesInv'
    BY TextsStay, NotesStay DEF MessagesInv, MessagesTypeOK
  <1> QED BY <1>1, <1>2 DEF MessagesInv

\* More restarts are allowed for, where only the count of them moves.
LEMMA StopKeepsSent ==
    ASSUME MessagesInv, stops' \in {stops, stops + 1},
           UNCHANGED <<texts, batches, notes, rounds, out, errors>>
    PROVE  MessagesInv'
  <1>1. MessagesTypeOK' /\ stops' >= stops
    BY DEF MessagesInv, MessagesTypeOK
  <1>2. BatchesInv' /\ RoundsInv'
    BY DEF MessagesInv, TextsInv, NotesInv, BatchesInv, RoundsInv, Claimed
  <1>3. ASSUME NEW t \in Texts  PROVE TextInv(t)'
    BY <1>1 DEF MessagesInv, MessagesTypeOK, TextsInv, TextInv, InHand
  <1>4. ASSUME NEW n \in Notes  PROVE NoteInv(n)'
    BY <1>1 DEF MessagesInv, MessagesTypeOK, NotesInv, NoteInv, MaySend
  <1> QED BY <1>1, <1>2, <1>3, <1>4 DEF MessagesInv, TextsInv, NotesInv

LEMMA CreditSteps ==
    ASSUME MessagesInv,
           \/ \E p \in Purchases : ActivateSmsPurchase(p)
           \/ \E delta \in {-PackSize, 1} : Adjust(delta)
           \/ Pause \/ TrialOver
    PROVE  MessagesInv'
  <1>1. UNCHANGED <<texts, batches, notes, rounds, out, errors>>
    BY DEF ActivateSmsPurchase, Adjust, Pause, TrialOver, waVars
  <1>2. stops' \in {stops, stops + 1}
    BY DEF ActivateSmsPurchase, Adjust, Pause, TrialOver, Stop, NoStop
  <1> QED BY <1>1, <1>2, StopKeepsSent

LEMMA EnqueueStep ==
    ASSUME MessagesInv, NEW t \in Texts, Enqueue(t)
    PROVE  MessagesInv'
  <1>1. /\ texts[t].status = "none" /\ UNCHANGED <<batches, notes, rounds, out, errors, stops>>
        /\ \E new \in [status : {"queued"}, trial : BOOLEAN] : texts' = [texts EXCEPT ![t] = new]
    BY DEF Enqueue, waVars, MessagesInv, MessagesTypeOK
  <1>2. MessagesTypeOK'
    BY <1>1 DEF MessagesInv, MessagesTypeOK
  <1>3. /\ texts'[t].status = "queued" /\ \A x \in Texts : x # t => texts'[x] = texts[x]
        /\ \A r \in Runs : \A i \in DOMAIN batches[r].rows : batches[r].rows[i] \in Texts
    BY <1>1 DEF MessagesInv, MessagesTypeOK
  <1>4. BatchesInv'
    BY <1>1, <1>3 DEF MessagesInv, TextsInv, BatchesInv
  <1>5. ASSUME NEW x \in Texts  PROVE TextInv(x)'
    <2>1. TextInv(x) /\ TextInv(t)
      BY DEF MessagesInv, TextsInv
    <2> QED BY <1>1, <1>3, <2>1 DEF TextInv, InHand
  <1>6. NotesInv'
    BY <1>1, NotesStay DEF MessagesInv, MessagesTypeOK
  <1> QED BY <1>2, <1>4, <1>5, <1>6 DEF MessagesInv, TextsInv

LEMMA SmsBatchStep ==
    ASSUME MessagesInv, NEW r \in Runs, SmsBatch(r)
    PROVE  MessagesInv'
  <1> DEFINE Queue == {t \in Texts : texts[t].status = "queued"}
  <1>1. PICK rows \in Orders(Queue) : rows # <<>> /\ batches' = [batches EXCEPT ![r].rows = rows]
    BY DEF SmsBatch
  <1>2. /\ \A s \in Runs : batches[s].rows = <<>> /\ UNCHANGED <<texts, notes, rounds, out, errors, stops>>
    BY DEF SmsBatch, MayStart, waVars
  <1>3. /\ rows \in Seq(Texts) /\ \A i \in DOMAIN rows : rows[i] \in Texts /\ texts[rows[i]].status = "queued"
        /\ \A i, j \in DOMAIN rows : rows[i] = rows[j] => i = j
    BY OrdersAreSequences, MessagesAssumption
  <1>4. /\ batches \in [Runs -> [rows : Seq(Texts), taken : BOOLEAN]]
        /\ \A s \in Runs : ~batches[s].taken
    BY <1>2 DEF MessagesInv, MessagesTypeOK, TextsInv, BatchesInv
  <1>5. /\ batches' \in [Runs -> [rows : Seq(Texts), taken : BOOLEAN]]
        /\ \A s \in Runs : ~batches'[s].taken
        /\ batches'[r].rows = rows /\ \A s \in Runs : s # r => batches'[s].rows = <<>>
    BY <1>1, <1>2, <1>3, <1>4
  <1>6. MessagesTypeOK'
    BY <1>2, <1>5 DEF MessagesInv, MessagesTypeOK
  <1>7. BatchesInv'
    <2>1. DOMAIN <<>> = {}
      OBVIOUS
    <2> QED BY <1>2, <1>3, <1>5, <2>1 DEF BatchesInv
  <1>8. ASSUME NEW t \in Texts  PROVE TextInv(t)'
    BY <1>2, <1>4, <1>5 DEF MessagesInv, TextsInv, TextInv, InHand
  <1>9. NotesInv'
    BY <1>2, NotesStay DEF MessagesInv, MessagesTypeOK
  <1> QED BY <1>6, <1>7, <1>8, <1>9 DEF MessagesInv, TextsInv

LEMMA SmsTakenStep ==
    ASSUME MessagesInv, NEW r \in Runs, SmsTaken(r)
    PROVE  MessagesInv'
  <1> DEFINE rows == batches[r].rows
             h == rows[1]
  <1>1. /\ batches \in [Runs -> [rows : Seq(Texts), taken : BOOLEAN]]
        /\ out \in [Texts \cup Notes -> Nat] /\ stops \in Nat
    BY DEF MessagesInv, MessagesTypeOK
  <1>2. /\ rows # <<>> /\ ~batches[r].taken
        /\ UNCHANGED <<texts, notes, rounds, errors, stops>>
        /\ batches' = [batches EXCEPT ![r].taken = TRUE]
    BY DEF SmsTaken, waVars
  <1>3. h \in Texts /\ h \notin Notes /\ 1 \in DOMAIN rows /\ out' = [out EXCEPT ![h] = @ + 1]
    BY <1>1, <1>2, FirstRow, MessagesAssumption DEF SmsTaken
  <1>4. /\ batches' \in [Runs -> [rows : Seq(Texts), taken : BOOLEAN]]
        /\ \A s \in Runs : batches'[s].rows = batches[s].rows
        /\ batches'[r].taken /\ \A s \in Runs : s # r => batches'[s].taken = batches[s].taken
    BY <1>1, <1>2
  <1>5. /\ out' \in [Texts \cup Notes -> Nat] /\ out'[h] = out[h] + 1
        /\ \A m \in Texts \cup Notes : m # h => out'[m] = out[m]
    <2>1. out[h] + 1 \in Nat
      BY <1>1, <1>3
    <2> QED BY <1>1, <1>3, <2>1
  <1>6. MessagesTypeOK'
    BY <1>2, <1>4, <1>5 DEF MessagesInv, MessagesTypeOK
  <1>7. BatchesInv'
    BY <1>2, <1>4 DEF MessagesInv, TextsInv, BatchesInv
  <1>8. ASSUME NEW t \in Texts  PROVE TextInv(t)'
    <2>1. TextInv(t)
      BY DEF MessagesInv, TextsInv
    <2>2. CASE t = h
      <3>1. \A s \in Runs : s # r => batches[s].rows = <<>> /\ ~batches[s].taken
        BY <1>2 DEF MessagesInv, TextsInv, BatchesInv
      <3>2. ~InHand(h) /\ texts[h].status = "queued"
        BY <1>2, <1>3, <3>1 DEF InHand, MessagesInv, TextsInv, BatchesInv
      <3>3. out[h] <= stops
        BY <2>1, <2>2, <3>2 DEF TextInv
      <3>4. InHand(h)'
        BY <1>4 DEF InHand
      <3> QED BY <1>1, <1>2, <1>3, <1>5, <2>2, <3>3, <3>4 DEF TextInv
    <2>3. CASE t # h
      <3>1. InHand(t) => InHand(t)'
        BY <1>2, <1>4 DEF InHand
      <3>2. out'[t] = out[t]
        BY <1>5, <2>3
      <3> QED BY <1>2, <2>1, <3>1, <3>2 DEF TextInv
    <2> QED BY <2>2, <2>3
  <1>9. NotesInv'
    <2>1. \A n \in Notes : out'[n] = out[n]
      BY <1>3, <1>5
    <2> QED BY <1>2, <2>1, NotesStay DEF MessagesInv, MessagesTypeOK
  <1> QED BY <1>6, <1>7, <1>8, <1>9 DEF MessagesInv, TextsInv

LEMMA SmsAnsweredStep ==
    ASSUME MessagesInv, NEW r \in Runs, NEW ok \in BOOLEAN, SmsAnswered(r, ok)
    PROVE  MessagesInv'
  <1> DEFINE rows == batches[r].rows
             h == rows[1]
  <1>1. /\ batches \in [Runs -> [rows : Seq(Texts), taken : BOOLEAN]]
        /\ texts \in [Texts -> [status : {"none", "queued", "sent", "failed"}, trial : BOOLEAN]]
    BY DEF MessagesInv, MessagesTypeOK
  <1>2. rows # <<>> /\ rows \in Seq(Texts) /\ UNCHANGED <<notes, rounds, out, errors, stops>>
    BY <1>1 DEF SmsAnswered, waVars
  <1>3. /\ h \in Texts /\ 1 \in DOMAIN rows /\ Head(rows) = h /\ Tail(rows) \in Seq(Texts)
        /\ \A i \in DOMAIN Tail(rows) : i + 1 \in DOMAIN rows /\ i + 1 # 1 /\ Tail(rows)[i] = rows[i + 1]
    BY <1>2, FirstRow
  <1>4. texts[h].status = "queued"
    BY <1>3 DEF MessagesInv, TextsInv, BatchesInv
  <1>5. /\ texts' = [texts EXCEPT ![h].status = IF ok THEN "sent" ELSE "failed"]
        /\ batches' = [batches EXCEPT ![r] = [rows |-> Tail(rows), taken |-> FALSE]]
    BY <1>1, <1>3, <1>4 DEF SmsAnswered
  <1>6. /\ texts' \in [Texts -> [status : {"none", "queued", "sent", "failed"}, trial : BOOLEAN]]
        /\ texts'[h].status \in {"sent", "failed"} /\ \A t \in Texts : t # h => texts'[t] = texts[t]
    BY <1>1, <1>3, <1>5
  <1>7. /\ batches' \in [Runs -> [rows : Seq(Texts), taken : BOOLEAN]]
        /\ batches'[r].rows = Tail(rows) /\ ~batches'[r].taken
        /\ \A s \in Runs : s # r => batches'[s] = batches[s]
    BY <1>1, <1>3, <1>5
  <1>8. \A s \in Runs : s # r => batches[s].rows = <<>> /\ ~batches[s].taken
    BY <1>2 DEF MessagesInv, TextsInv, BatchesInv
  <1>9. MessagesTypeOK'
    BY <1>2, <1>6, <1>7 DEF MessagesInv, MessagesTypeOK
  <1>10. BatchesInv'
    <2>1. \A i \in DOMAIN rows : rows[i] \in Texts /\ texts[rows[i]].status = "queued"
      BY <1>2 DEF MessagesInv, TextsInv, BatchesInv
    <2>2. \A i, j \in DOMAIN rows : rows[i] = rows[j] => i = j
      BY DEF MessagesInv, TextsInv, BatchesInv
    <2>3. ASSUME NEW i \in DOMAIN Tail(rows)
          PROVE  texts'[Tail(rows)[i]].status = "queued"
      <3>1. Tail(rows)[i] # h /\ Tail(rows)[i] \in Texts /\ texts[Tail(rows)[i]].status = "queued"
        BY <1>3, <2>1, <2>2
      <3> QED BY <1>6, <3>1
    <2>4. \A i, j \in DOMAIN Tail(rows) : Tail(rows)[i] = Tail(rows)[j] => i = j
      <3>1. \A i \in DOMAIN Tail(rows) : i \in Int
        BY <1>3
      <3> QED BY <1>3, <2>2, <3>1
    <2>5. DOMAIN <<>> = {}
      OBVIOUS
    <2>6. \A s \in Runs : s # r => batches'[s].rows = <<>> /\ ~batches'[s].taken
      BY <1>7, <1>8
    <2> QED BY <1>7, <2>3, <2>4, <2>5, <2>6 DEF BatchesInv
  <1>11. ASSUME NEW t \in Texts  PROVE TextInv(t)'
    <2>1. TextInv(t)
      BY DEF MessagesInv, TextsInv
    <2>2. CASE t = h
      BY <1>2, <1>6, <2>1, <2>2 DEF TextInv
    <2>3. CASE t # h
      <3>1. ~InHand(t)
        BY <1>8, <2>3 DEF InHand
      <3> QED BY <1>2, <1>6, <2>1, <2>3, <3>1 DEF TextInv
    <2> QED BY <2>2, <2>3
  <1>12. NotesInv'
    BY <1>2, NotesStay DEF MessagesInv, MessagesTypeOK
  <1> QED BY <1>9, <1>10, <1>11, <1>12 DEF MessagesInv, TextsInv

LEMMA TextsAside ==
    ASSUME MessagesInv, UNCHANGED <<texts, batches, stops>>, \A t \in Texts : out'[t] = out[t]
    PROVE  TextsInv'
  BY TextsStay DEF MessagesInv

LEMMA WaitingNotes ==
    ASSUME MessagesInv, NEW n \in Notes, EnqueuePayment(n) \/ WaitsOver(n)
    PROVE  MessagesInv'
  <1>1. /\ notes \in [Notes -> NoteRow]
        /\ rounds \in [Runs -> [rows : Seq(Notes), at : {"read", "claimed", "taken"}]]
        /\ UNCHANGED <<texts, batches, rounds, out, errors, stops>>
    BY DEF EnqueuePayment, WaitsOver, smsVars, MessagesInv, MessagesTypeOK
  <1>2. \A r \in Runs : Claimed(r) => rounds[r].rows[1] \in Notes
    BY <1>1, FirstRow DEF Claimed
  <1>3. /\ notes' \in [Notes -> NoteRow]
        /\ \A m \in Notes : notes'[m].status = notes[m].status
                              \/ (notes[m].status = "none" /\ notes'[m].status = "pending")
    <2>1. notes[n] \in NoteRow
      BY <1>1
    <2>2. PICK row \in NoteRow : /\ notes' = [notes EXCEPT ![n] = row]
                                /\ (row.status = notes[n].status
                                     \/ (notes[n].status = "none" /\ row.status = "pending"))
      <3>1. CASE EnqueuePayment(n)
        <4>1. [notes[n] EXCEPT !.status = "pending"] \in NoteRow
          BY <2>1 DEF NoteRow
        <4>2. notes' = [notes EXCEPT ![n] = [notes[n] EXCEPT !.status = "pending"]]
          BY <1>1, <3>1 DEF EnqueuePayment
        <4>3. notes[n].status = "none" /\ [notes[n] EXCEPT !.status = "pending"].status = "pending"
          BY <2>1, <3>1 DEF EnqueuePayment, NoteRow
        <4> QED BY <4>1, <4>2, <4>3
      <3>2. CASE WaitsOver(n)
        <4>1. /\ [notes[n] EXCEPT !.due = TRUE] \in NoteRow /\ [notes[n] EXCEPT !.old = TRUE] \in NoteRow
              /\ [notes[n] EXCEPT !.due = TRUE].status = notes[n].status
              /\ [notes[n] EXCEPT !.old = TRUE].status = notes[n].status
          BY <2>1 DEF NoteRow
        <4>2. \/ notes' = [notes EXCEPT ![n] = [notes[n] EXCEPT !.due = TRUE]]
              \/ notes' = [notes EXCEPT ![n] = [notes[n] EXCEPT !.old = TRUE]]
          BY <1>1, <3>2 DEF WaitsOver
        <4> QED BY <4>1, <4>2
      <3> QED BY <3>1, <3>2
    <2>3. notes' \in [Notes -> NoteRow] /\ notes'[n] = row /\ \A m \in Notes : m # n => notes'[m] = notes[m]
      <3>1. notes \in [Notes -> NoteRow] /\ notes' = [notes EXCEPT ![n] = row]
        BY <1>1, <2>2
      <3> QED BY <3>1
    <2>4. ASSUME NEW m \in Notes
          PROVE  \/ notes'[m].status = notes[m].status
                 \/ notes[m].status = "none" /\ notes'[m].status = "pending"
      BY <2>2, <2>3
    <2> QED BY <2>3, <2>4
  <1>4. RoundsInv'
    BY <1>1, <1>2, <1>3 DEF MessagesInv, NotesInv, RoundsInv, Claimed
  <1>5. ASSUME NEW m \in Notes  PROVE NoteInv(m)'
    BY <1>1, <1>3 DEF MessagesInv, NotesInv, NoteInv, MaySend
  <1>6. MessagesTypeOK'
    BY <1>1, <1>3 DEF MessagesInv, MessagesTypeOK
  <1> QED BY <1>1, <1>4, <1>5, <1>6, TextsAside DEF MessagesInv, NotesInv

LEMMA WaRoundStep ==
    ASSUME MessagesInv, NEW r \in Runs, WaRound(r)
    PROVE  MessagesInv'
  <1> DEFINE Claimable == {n \in Notes : notes[n].status = "pending" /\ notes[n].due}
  <1>1. PICK rows \in Orders(Claimable) : rows # <<>> /\ rounds' = [rounds EXCEPT ![r].rows = rows]
    BY DEF WaRound
  <1>2. rounds[r].rows = <<>> /\ UNCHANGED <<texts, batches, notes, out, errors, stops>>
    BY DEF WaRound, smsVars
  <1>3. rows \in Seq(Notes)
    BY OrdersAreSequences, MessagesAssumption
  <1>4. /\ rounds \in [Runs -> [rows : Seq(Notes), at : {"read", "claimed", "taken"}]]
        /\ rounds[r].at = "read"
    BY <1>2 DEF MessagesInv, MessagesTypeOK, NotesInv, RoundsInv
  <1>5. /\ rounds' \in [Runs -> [rows : Seq(Notes), at : {"read", "claimed", "taken"}]]
        /\ rounds'[r].at = "read" /\ rounds'[r].rows # <<>>
        /\ \A s \in Runs : s # r => rounds'[s] = rounds[s]
    BY <1>1, <1>3, <1>4
  <1>6. \A s \in Runs : Claimed(s)' => s # r /\ Claimed(s)
    BY <1>5 DEF Claimed
  <1>7. RoundsInv'
    BY <1>2, <1>5, <1>6 DEF MessagesInv, NotesInv, RoundsInv
  <1>8. ASSUME NEW n \in Notes  PROVE NoteInv(n)'
    BY <1>2, <1>5 DEF MessagesInv, NotesInv, NoteInv, MaySend
  <1>9. MessagesTypeOK'
    BY <1>2, <1>5 DEF MessagesInv, MessagesTypeOK
  <1> QED BY <1>2, <1>7, <1>8, <1>9, TextsAside DEF MessagesInv, NotesInv

\* A step of the run r at its first row: the claim, the provider, the answer.
LEMMA RunFacts ==
    ASSUME MessagesInv, NEW r \in Runs, rounds[r].rows # <<>>
    PROVE  /\ rounds \in [Runs -> [rows : Seq(Notes), at : {"read", "claimed", "taken"}]]
           /\ notes \in [Notes -> NoteRow]
           /\ out \in [Texts \cup Notes -> Nat] /\ errors \in [Notes -> Nat] /\ stops \in Nat
           /\ Head(rounds[r].rows) = rounds[r].rows[1] /\ rounds[r].rows[1] \in Notes
           /\ Next1(rounds[r]) \in [rows : Seq(Notes), at : {"read"}]
           /\ \A s \in Runs : Claimed(s) => rounds[s].rows[1] \in Notes
  <1>1. /\ rounds \in [Runs -> [rows : Seq(Notes), at : {"read", "claimed", "taken"}]]
        /\ notes \in [Notes -> NoteRow]
        /\ out \in [Texts \cup Notes -> Nat] /\ errors \in [Notes -> Nat] /\ stops \in Nat
    BY DEF MessagesInv, MessagesTypeOK
  <1>2. /\ Head(rounds[r].rows) = rounds[r].rows[1] /\ rounds[r].rows[1] \in Notes
        /\ Tail(rounds[r].rows) \in Seq(Notes)
    BY <1>1, FirstRow
  <1>3. \A s \in Runs : Claimed(s) => rounds[s].rows[1] \in Notes
    BY <1>1, FirstRow DEF Claimed
  <1> QED BY <1>1, <1>2, <1>3 DEF Next1

LEMMA ClaimedRow ==
    ASSUME NEW x \in NoteRow
    PROVE  LET row == [x EXCEPT !.status = "sending", !.attempts = @ + 1, !.old = FALSE]
           IN  row \in NoteRow /\ row.status = "sending"
  <1>1. x.attempts \in Nat /\ x.attempts + 1 \in Nat
    BY DEF NoteRow
  <1> QED BY <1>1 DEF NoteRow

LEMMA WaClaimStep ==
    ASSUME MessagesInv, NEW r \in Runs, WaClaim(r)
    PROVE  MessagesInv'
  <1> DEFINE n == rounds[r].rows[1]
  <1>1. /\ rounds[r].rows # <<>> /\ rounds[r].at = "read" /\ Head(rounds[r].rows) = n /\ n \in Notes
        /\ rounds \in [Runs -> [rows : Seq(Notes), at : {"read", "claimed", "taken"}]]
        /\ notes \in [Notes -> NoteRow]
        /\ Next1(rounds[r]) \in [rows : Seq(Notes), at : {"read"}]
        /\ \A s \in Runs : Claimed(s) => rounds[s].rows[1] \in Notes
    BY RunFacts DEF WaClaim
  <1>2. UNCHANGED <<texts, batches, out, errors, stops>>
    BY DEF WaClaim, smsVars
  <1>3. CASE ~Claims(n)
    <2>1. rounds' = [rounds EXCEPT ![r] = Next1(@)] /\ notes' = notes
      BY <1>1, <1>3 DEF WaClaim
    <2>2. /\ rounds' \in [Runs -> [rows : Seq(Notes), at : {"read", "claimed", "taken"}]]
          /\ rounds'[r].at = "read" /\ \A s \in Runs : s # r => rounds'[s] = rounds[s]
      BY <1>1, <2>1
    <2>3. \A s \in Runs : Claimed(s)' => s # r /\ Claimed(s)
      BY <2>2 DEF Claimed
    <2>4. RoundsInv'
      BY <2>1, <2>2, <2>3 DEF MessagesInv, NotesInv, RoundsInv
    <2>5. ASSUME NEW m \in Notes  PROVE NoteInv(m)'
      BY <1>2, <2>1, <2>2 DEF MessagesInv, NotesInv, NoteInv, MaySend
    <2>6. MessagesTypeOK'
      BY <1>2, <2>1, <2>2 DEF MessagesInv, MessagesTypeOK
    <2> QED BY <1>2, <2>4, <2>5, <2>6, TextsAside DEF MessagesInv, NotesInv
  <1>4. CASE Claims(n)
    <2>1. /\ rounds' = [rounds EXCEPT ![r].at = "claimed"] /\ notes[n].status = "pending"
          /\ notes' = [notes EXCEPT ![n] = [notes[n] EXCEPT !.status = "sending", !.attempts = @ + 1, !.old = FALSE]]
      BY <1>1, <1>4 DEF WaClaim, Claims
    <2>2. /\ rounds' \in [Runs -> [rows : Seq(Notes), at : {"read", "claimed", "taken"}]]
          /\ rounds'[r].at = "claimed" /\ rounds'[r].rows = rounds[r].rows
          /\ \A s \in Runs : s # r => rounds'[s] = rounds[s]
      BY <1>1, <2>1
    <2>3. /\ notes' \in [Notes -> NoteRow]
          /\ notes'[n].status = "sending" /\ \A m \in Notes : m # n => notes'[m] = notes[m]
      <3> DEFINE row == [notes[n] EXCEPT !.status = "sending", !.attempts = @ + 1, !.old = FALSE]
      <3>1. row \in NoteRow /\ row.status = "sending"
        <4>1. notes[n] \in NoteRow
          BY <1>1
        <4> QED BY <4>1, ClaimedRow
      <3>2. notes' = [notes EXCEPT ![n] = row]
        BY <1>1, <2>1
      <3> HIDE DEF row
      <3> QED BY <1>1, <3>1, <3>2
    <2>4. \A s \in Runs : s # r => (Claimed(s)' <=> Claimed(s)) /\ rounds'[s].rows[1] = rounds[s].rows[1]
      BY <2>2 DEF Claimed
    <2>5. \A s \in Runs : Claimed(s) => rounds[s].rows[1] # n
      BY <2>1 DEF MessagesInv, NotesInv, RoundsInv
    <2>6. RoundsInv'
      <3>1. \A s \in Runs : rounds'[s].rows = <<>> => rounds'[s].at = "read"
        BY <1>1, <2>2 DEF MessagesInv, NotesInv, RoundsInv
      <3>2. \A s \in Runs : Claimed(s)' => notes'[rounds'[s].rows[1]].status = "sending"
        <4>1. rounds'[r].rows[1] = n
          BY <2>2
        <4>2. ASSUME NEW s \in Runs, s # r, Claimed(s)'
              PROVE  notes'[rounds'[s].rows[1]].status = "sending"
          <5>1. Claimed(s) /\ rounds'[s].rows[1] = rounds[s].rows[1] /\ rounds[s].rows[1] # n
            BY <2>4, <2>5, <4>2
          <5>2. notes[rounds[s].rows[1]].status = "sending" /\ rounds[s].rows[1] \in Notes
            BY <1>1, <5>1 DEF MessagesInv, NotesInv, RoundsInv, Claimed
          <5> QED BY <2>3, <5>1, <5>2
        <4> QED BY <2>3, <4>1, <4>2
      <3>3. \A s, x \in Runs : Claimed(s)' /\ Claimed(x)' /\ rounds'[s].rows[1] = rounds'[x].rows[1] => s = x
        <4>1. \A s, x \in Runs : Claimed(s) /\ Claimed(x) /\ rounds[s].rows[1] = rounds[x].rows[1] => s = x
          BY DEF MessagesInv, NotesInv, RoundsInv
        <4>2. rounds'[r].rows[1] = n
          BY <2>2
        <4>3. \A s \in Runs : s # r /\ Claimed(s)' => rounds'[s].rows[1] # n /\ Claimed(s)
          BY <2>4, <2>5
        <4> QED BY <2>4, <4>1, <4>2, <4>3
      <3> QED BY <3>1, <3>2, <3>3 DEF RoundsInv
    <2>7. ASSUME NEW m \in Notes  PROVE NoteInv(m)'
      <3>1. MaySend(m)' => MaySend(m)
        BY <2>1, <2>2, <2>3 DEF MaySend
      <3> QED BY <1>2, <3>1 DEF MessagesInv, NotesInv, NoteInv
    <2>8. MessagesTypeOK'
      BY <1>2, <2>2, <2>3 DEF MessagesInv, MessagesTypeOK
    <2> QED BY <1>2, <2>6, <2>7, <2>8, TextsAside DEF MessagesInv, NotesInv
  <1> QED BY <1>3, <1>4

LEMMA WaTakenStep ==
    ASSUME MessagesInv, NEW r \in Runs, WaTaken(r)
    PROVE  MessagesInv'
  <1> DEFINE n == rounds[r].rows[1]
  <1>1. /\ rounds[r].rows # <<>> /\ rounds[r].at = "claimed" /\ Head(rounds[r].rows) = n /\ n \in Notes
        /\ rounds \in [Runs -> [rows : Seq(Notes), at : {"read", "claimed", "taken"}]]
        /\ out \in [Texts \cup Notes -> Nat] /\ errors \in [Notes -> Nat] /\ stops \in Nat
    BY RunFacts DEF WaTaken
  <1>2. /\ UNCHANGED <<texts, batches, notes, errors, stops>>
        /\ rounds' = [rounds EXCEPT ![r].at = "taken"] /\ out' = [out EXCEPT ![n] = @ + 1]
    BY <1>1 DEF WaTaken, smsVars
  <1>3. /\ rounds' \in [Runs -> [rows : Seq(Notes), at : {"read", "claimed", "taken"}]]
        /\ rounds'[r].at = "taken" /\ rounds'[r].rows = rounds[r].rows
        /\ \A s \in Runs : s # r => rounds'[s] = rounds[s]
    BY <1>1, <1>2
  <1>4. /\ out' \in [Texts \cup Notes -> Nat] /\ out'[n] = out[n] + 1
        /\ \A m \in Texts \cup Notes : m # n => out'[m] = out[m]
    <2>1. out[n] + 1 \in Nat
      BY <1>1
    <2> QED BY <1>1, <1>2, <2>1
  <1>5. \A s \in Runs : (Claimed(s)' <=> Claimed(s)) /\ rounds'[s].rows = rounds[s].rows
    BY <1>1, <1>3 DEF Claimed
  <1>6. RoundsInv'
    BY <1>1, <1>2, <1>3, <1>5 DEF MessagesInv, NotesInv, RoundsInv
  <1>7. ASSUME NEW m \in Notes  PROVE NoteInv(m)'
    <2>1. NoteInv(m)
      BY DEF MessagesInv, NotesInv
    <2>2. CASE m = n
      <3>1. Claimed(r) /\ MaySend(n) /\ notes[n].status = "sending"
        BY <1>1 DEF Claimed, MaySend, MessagesInv, NotesInv, RoundsInv
      <3>2. ~MaySend(n)'
        <4>1. \A s \in Runs : s # r /\ rounds[s].rows # <<>> /\ rounds[s].rows[1] = n => rounds[s].at # "claimed"
          BY <3>1 DEF MessagesInv, NotesInv, RoundsInv, Claimed
        <4> QED BY <1>2, <1>3, <3>1, <4>1 DEF MaySend
      <3> QED BY <1>1, <1>2, <1>4, <2>1, <2>2, <3>1, <3>2 DEF NoteInv
    <2>3. CASE m # n
      <3>1. MaySend(m)' => MaySend(m)
        BY <1>2, <1>3 DEF MaySend
      <3> QED BY <1>2, <1>4, <2>1, <2>3, <3>1 DEF NoteInv
    <2> QED BY <2>2, <2>3
  <1>8. MessagesTypeOK'
    BY <1>2, <1>3, <1>4 DEF MessagesInv, MessagesTypeOK
  <1>9. \A t \in Texts : out'[t] = out[t]
    BY <1>1, <1>4, MessagesAssumption
  <1> QED BY <1>2, <1>6, <1>7, <1>8, <1>9, TextsAside DEF MessagesInv, NotesInv

LEMMA WaAnsweredStep ==
    ASSUME MessagesInv, NEW r \in Runs, NEW ok \in BOOLEAN, WaAnswered(r, ok)
    PROVE  MessagesInv'
  <1> DEFINE n == rounds[r].rows[1]
  <1>1. /\ rounds[r].rows # <<>> /\ rounds[r].at \in {"claimed", "taken"}
        /\ Head(rounds[r].rows) = n /\ n \in Notes /\ (ok => rounds[r].at = "taken")
        /\ rounds \in [Runs -> [rows : Seq(Notes), at : {"read", "claimed", "taken"}]]
        /\ notes \in [Notes -> NoteRow]
        /\ out \in [Texts \cup Notes -> Nat] /\ errors \in [Notes -> Nat] /\ stops \in Nat
        /\ Next1(rounds[r]) \in [rows : Seq(Notes), at : {"read"}]
        /\ \A s \in Runs : Claimed(s) => rounds[s].rows[1] \in Notes
    BY RunFacts DEF WaAnswered
  <1>2. /\ UNCHANGED <<texts, batches, out, stops>>
        /\ rounds' = [rounds EXCEPT ![r] = Next1(@)]
        /\ errors' = IF ok THEN errors ELSE [errors EXCEPT ![n] = @ + 1]
    BY <1>1 DEF WaAnswered, smsVars
  <1>3. PICK row \in NoteRow : /\ notes' = [notes EXCEPT ![n] = row]
                              /\ row.status # "sending" /\ (ok => row.status = "sent")
    <2>1. notes[n] \in NoteRow
      BY <1>1
    <2>2. CASE ok
      <3>1. /\ [notes[n] EXCEPT !.status = "sent"] \in NoteRow
            /\ [notes[n] EXCEPT !.status = "sent"].status = "sent"
        BY <2>1 DEF NoteRow
      <3>2. notes' = [notes EXCEPT ![n] = [notes[n] EXCEPT !.status = "sent"]]
        BY <1>1, <2>2 DEF WaAnswered
      <3> QED BY <3>1, <3>2
    <2>3. CASE ~ok
      <3> DEFINE end == IF notes[n].attempts >= NoteTries THEN "failed" ELSE "pending"
                 row == [notes[n] EXCEPT !.due = FALSE, !.status = end]
      <3>1. end \in {"failed", "pending"}
        OBVIOUS
      <3>2. notes' = [notes EXCEPT ![n] = row]
        BY <1>1, <2>3 DEF WaAnswered
      <3> HIDE DEF end
      <3>3. row \in NoteRow /\ row.status = end
        BY <2>1, <3>1 DEF NoteRow
      <3> QED BY <2>3, <3>1, <3>2, <3>3
    <2> QED BY <2>2, <2>3
  <1>4. /\ notes' \in [Notes -> NoteRow]
        /\ notes'[n] = row /\ \A m \in Notes : m # n => notes'[m] = notes[m]
    BY <1>1, <1>3
  <1>5. /\ rounds' \in [Runs -> [rows : Seq(Notes), at : {"read", "claimed", "taken"}]]
        /\ rounds'[r].at = "read" /\ \A s \in Runs : s # r => rounds'[s] = rounds[s]
    BY <1>1, <1>2
  <1>6. /\ errors' \in [Notes -> Nat] /\ (ok => errors' = errors)
        /\ (~ok => errors'[n] = errors[n] + 1) /\ \A m \in Notes : m # n => errors'[m] = errors[m]
    <2>1. errors[n] + 1 \in Nat
      BY <1>1
    <2> QED BY <1>1, <1>2, <2>1
  <1>7. Claimed(r)
    BY <1>1 DEF Claimed
  <1>8. \A s \in Runs : Claimed(s)' => s # r /\ Claimed(s) /\ rounds[s].rows[1] # n
    BY <1>5, <1>7 DEF Claimed, MessagesInv, NotesInv, RoundsInv
  <1>9. RoundsInv'
    <2>1. \A s \in Runs : rounds'[s].rows = <<>> => rounds'[s].at = "read"
      BY <1>5 DEF MessagesInv, NotesInv, RoundsInv
    <2>2. \A s \in Runs : Claimed(s)' => notes'[rounds'[s].rows[1]].status = "sending"
      BY <1>1, <1>4, <1>5, <1>8 DEF MessagesInv, NotesInv, RoundsInv
    <2>3. \A s, x \in Runs : Claimed(s)' /\ Claimed(x)' /\ rounds'[s].rows[1] = rounds'[x].rows[1] => s = x
      BY <1>5, <1>8 DEF MessagesInv, NotesInv, RoundsInv
    <2> QED BY <2>1, <2>2, <2>3 DEF RoundsInv
  <1>10. ASSUME NEW m \in Notes  PROVE NoteInv(m)'
    <2>1. NoteInv(m)
      BY DEF MessagesInv, NotesInv
    <2>2. CASE m # n
      <3>1. MaySend(m)' => MaySend(m)
        BY <1>4, <1>5, <2>2 DEF MaySend
      <3> QED BY <1>2, <1>6, <2>1, <2>2, <3>1 DEF NoteInv
    <2>3. CASE m = n /\ ok
      <3>1. ~MaySend(m)'
        BY <1>3, <1>4, <1>5, <1>8, <2>3 DEF MaySend, Claimed
      <3> QED BY <1>2, <1>6, <2>1, <2>3, <3>1 DEF NoteInv
    <2>4. CASE m = n /\ ~ok
      BY <1>1, <1>2, <1>6, <2>1, <2>4 DEF NoteInv
    <2> QED BY <2>2, <2>3, <2>4
  <1>11. MessagesTypeOK'
    BY <1>2, <1>4, <1>5, <1>6 DEF MessagesInv, MessagesTypeOK
  <1> QED BY <1>2, <1>9, <1>10, <1>11, TextsAside DEF MessagesInv, NotesInv

\* A restart: what was with the provider may go out once more.
LEMMA MsRestartStep ==
    ASSUME MessagesInv, MsRestart
    PROVE  MessagesInv'
  <1>1. /\ stops' = stops + 1 /\ batches' = [r \in Runs |-> Idle] /\ rounds' = [r \in Runs |-> NoRound]
        /\ UNCHANGED <<texts, out, errors>>
        /\ notes' = [n \in Notes |-> IF notes[n].status = "sending" /\ notes[n].old
                                 THEN [notes[n] EXCEPT !.status = "pending"] ELSE notes[n]]
    BY DEF MsRestart, Stop
  <1>2. Idle \in [rows : Seq(Texts), taken : BOOLEAN] /\ ~Idle.taken /\ Idle.rows = <<>>
    BY DEF Idle
  <1>3. /\ NoRound \in [rows : Seq(Notes), at : {"read", "claimed", "taken"}]
        /\ NoRound.rows = <<>> /\ NoRound.at = "read"
    BY DEF NoRound
  <1>4. MessagesTypeOK'
    <2>1. /\ notes \in [Notes -> NoteRow] /\ stops + 1 \in Nat
      BY DEF MessagesInv, MessagesTypeOK
    <2>2. ASSUME NEW n \in Notes  PROVE notes'[n] \in NoteRow
      <3>1. notes[n] \in NoteRow
        BY <2>1
      <3>2. [notes[n] EXCEPT !.status = "pending"] \in NoteRow
        BY <3>1 DEF NoteRow
      <3> QED BY <1>1, <3>1, <3>2
    <2>3. notes' \in [Notes -> NoteRow]
      <3>1. notes' = [n \in Notes |-> notes'[n]]
        BY <1>1
      <3> QED BY <2>2, <3>1
    <2> QED BY <1>1, <1>2, <1>3, <2>1, <2>3 DEF MessagesInv, MessagesTypeOK
  <1>5. DOMAIN <<>> = {}
    OBVIOUS
  <1>6. BatchesInv'
    BY <1>1, <1>2, <1>5 DEF BatchesInv
  <1>7. RoundsInv'
    BY <1>1, <1>3 DEF RoundsInv, Claimed
  <1>8. ASSUME NEW t \in Texts  PROVE TextInv(t)'
    <2>1. out[t] \in Nat /\ stops \in Nat /\ out[t] <= 1 + stops
      BY DEF MessagesInv, MessagesTypeOK, TextsInv, TextInv
    <2> QED BY <1>1, <2>1 DEF TextInv
  <1>9. ASSUME NEW n \in Notes  PROVE NoteInv(n)'
    <2>1. /\ out[n] \in Nat /\ stops \in Nat /\ errors[n] \in Nat
          /\ out[n] <= 1 + stops + errors[n]
      BY DEF MessagesInv, MessagesTypeOK, NotesInv, NoteInv
    <2> QED BY <1>1, <2>1 DEF NoteInv
  <1> QED BY <1>4, <1>6, <1>7, <1>8, <1>9 DEF MessagesInv, TextsInv, NotesInv

LEMMA MessagesInvHolds == MsSpec => []MessagesInv
  <1>1. MsInit => MessagesInv
    <2> SUFFICES ASSUME MsInit PROVE MessagesInv
      OBVIOUS
    <2>1. /\ Idle \in [rows : Seq(Texts), taken : BOOLEAN] /\ ~Idle.taken /\ Idle.rows = <<>>
          /\ NoRound \in [rows : Seq(Notes), at : {"read", "claimed", "taken"}]
          /\ NoRound.rows = <<>> /\ NoRound.at = "read" /\ DOMAIN <<>> = {}
      BY DEF Idle, NoRound
    <2>2. [status |-> "none", attempts |-> 0, due |-> TRUE, old |-> FALSE] \in NoteRow
      BY DEF NoteRow
    <2>3. [status |-> "none", trial |-> FALSE] \in [status : {"none", "queued", "sent", "failed"}, trial : BOOLEAN]
      OBVIOUS
    <2>4. MessagesTypeOK
      BY <2>1, <2>2, <2>3 DEF MsInit, MessagesTypeOK
    <2>5. BatchesInv /\ RoundsInv
      BY <2>1 DEF MsInit, BatchesInv, RoundsInv, Claimed
    <2>6. (\A t \in Texts : TextInv(t)) /\ (\A n \in Notes : NoteInv(n))
      BY DEF MsInit, TextInv, NoteInv
    <2> QED BY <2>4, <2>5, <2>6 DEF MessagesInv, TextsInv, NotesInv
  <1>2. ASSUME MessagesInv, MsNext  PROVE MessagesInv'
    BY <1>2, CreditSteps, EnqueueStep, SmsBatchStep, SmsTakenStep, SmsAnsweredStep, WaitingNotes,
       WaRoundStep, WaClaimStep, WaTakenStep, WaAnsweredStep, MsRestartStep
       DEF MsNext, SmsNext, WaNext
  <1>3. ASSUME MessagesInv, UNCHANGED msVars  PROVE MessagesInv'
    BY <1>3, MessagesStay DEF msVars, smsVars, waVars
  <1> QED BY <1>1, <1>2, <1>3, PTL DEF MsSpec

\* A message goes out once, but for restarts between the provider and its
\* answer and a note's retries after errors, however the runs of the two
\* workers overlap (smsBatchRunning, markSending).
THEOREM MessagesGoOutOnce == MsSpec => []SentOnce
  <1>1. MessagesInv => SentOnce
    BY DEF MessagesInv, TextsInv, NotesInv, TextInv, NoteInv, SentOnce
  <1> QED BY <1>1, MessagesInvHolds, PTL
-----------------------------------------------------------------------------
(* Messages: credits add up.                                                *)

CreditsTypeOK ==
    /\ credits \in [available : Nat, reserved : Nat, used : Nat] /\ corrected \in Int
    /\ bought \in [Purchases -> [paid : BOOLEAN, granted : BOOLEAN]]
    /\ IsFiniteSet({p \in Purchases : Paid(p)})
    /\ \A t \in Texts : texts[t].status = "none" => ~texts[t].trial

LEMMA SumOfIsSum == ASSUME NEW S PROVE SumOf(S) = Sum(Segments, S)
  BY DEF SumOf, Sum

CreditsInv == CreditsTypeOK /\ CreditsAddUp

LEMMA CreditsFacts ==
    ASSUME CreditsInv, MessagesInv
    PROVE  /\ credits \in [available : Nat, reserved : Nat, used : Nat]
           /\ Queued \subseteq Texts /\ IsFiniteSet(Queued) /\ credits.reserved = Sum(Segments, Queued)
           /\ \A t \in Queued : Segments[t] <= credits.reserved
  <1>1. credits \in [available : Nat, reserved : Nat, used : Nat] /\ Queued \subseteq Texts
    BY DEF CreditsInv, CreditsTypeOK, Queued
  <1>2. IsFiniteSet(Queued)
    BY <1>1, MessagesAssumption, FS_Subset
  <1>3. credits.reserved = Sum(Segments, Queued)
    BY DEF CreditsInv, CreditsAddUp, SumOf, Sum
  <1>4. \A t \in Queued : Segments[t] \in Nat
    BY <1>1, MessagesAssumption
  <1>5. \A t \in Queued : Segments[t] <= Sum(Segments, Queued)
    BY <1>2, <1>4, SumIsNat
  <1> QED BY <1>1, <1>2, <1>3, <1>5

\* A step that moves no purchase keeps the books if it moves the account by
\* what it moves among the queued texts.
LEMMA BooksKept ==
    ASSUME CreditsInv, UNCHANGED bought,
           credits' \in [available : Nat, reserved : Nat, used : Nat], corrected' \in Int,
           (credits'.available + credits'.reserved + credits'.used) - corrected' =
               (credits.available + credits.reserved + credits.used) - corrected,
           credits'.reserved = Sum(Segments, Queued'),
           \A t \in Texts : texts'[t].status = "none" => ~texts'[t].trial
    PROVE  CreditsInv'
  <1>1. credits'.reserved = SumOf(Queued)'
    BY SumOfIsSum
  <1>2. {p \in Purchases : Paid(p)}' = {p \in Purchases : Paid(p)}
    BY DEF Paid
  <1>3. CreditsTypeOK'
    BY <1>2 DEF CreditsInv, CreditsTypeOK
  <1> PICK n \in Nat : n = Cardinality({p \in Purchases : Paid(p)})
    BY FS_CardinalityType DEF CreditsInv, CreditsTypeOK
  <1>4. PackSize * n \in Nat
    BY MessagesAssumption
  <1>5. credits.available + credits.reserved + credits.used = PackSize * n + corrected
    BY DEF CreditsInv, CreditsAddUp
  <1>6. credits'.available + credits'.reserved + credits'.used = PackSize * n + corrected'
    BY <1>4, <1>5 DEF CreditsInv, CreditsTypeOK
  <1> QED BY <1>1, <1>2, <1>3, <1>6 DEF CreditsInv, CreditsAddUp

\* The account is as it was, and so is every text that counts.
LEMMA BooksAside ==
    ASSUME CreditsInv, MessagesInv, UNCHANGED <<bought, credits, corrected>>, Queued' = Queued,
           \A t \in Texts : texts'[t].status = "none" => ~texts'[t].trial
    PROVE  CreditsInv'
  BY CreditsFacts, BooksKept DEF CreditsInv, CreditsTypeOK

LEMMA EnqueueBooks ==
    ASSUME CreditsInv, MessagesInv, NEW t \in Texts, Enqueue(t)
    PROVE  CreditsInv'
  <1>1. /\ texts \in [Texts -> [status : {"none", "queued", "sent", "failed"}, trial : BOOLEAN]]
        /\ texts[t].status = "none" /\ UNCHANGED <<bought, corrected>> /\ Segments[t] \in Nat
    BY MessagesAssumption DEF Enqueue, MessagesInv, MessagesTypeOK
  <1>2. CASE credits' = credits /\ texts' = [texts EXCEPT ![t] = [status |-> "queued", trial |-> TRUE]]
    <2>1. Queued' = Queued
      BY <1>1, <1>2 DEF Queued
    <2>2. \A y \in Texts : texts'[y].status = "none" => ~texts'[y].trial
      BY <1>1, <1>2 DEF CreditsInv, CreditsTypeOK
    <2> QED BY <1>1, <1>2, <2>1, <2>2, BooksAside
  <1>3. CASE /\ texts' = [texts EXCEPT ![t].status = "queued"]
             /\ credits.available >= Segments[t]
             /\ credits' = [credits EXCEPT !.available = @ - Segments[t], !.reserved = @ + Segments[t]]
    <2>1. ~texts[t].trial
      BY <1>1 DEF CreditsInv, CreditsTypeOK
    <2>2. Queued' = Queued \cup {t} /\ t \notin Queued
      BY <1>1, <1>3, <2>1 DEF Queued
    <2>3. \A y \in Queued \cup {t} : Segments[y] \in Int
      BY CreditsFacts, MessagesAssumption
    <2>4. Sum(Segments, Queued') = Sum(Segments, Queued) + Segments[t]
      BY <2>2, <2>3, CreditsFacts, SumOfOneMore
    <2>5. /\ credits' \in [available : Nat, reserved : Nat, used : Nat]
          /\ credits'.available + credits'.reserved + credits'.used
               = credits.available + credits.reserved + credits.used
          /\ credits'.reserved = credits.reserved + Segments[t]
      <3> PICK n \in Nat : n = Segments[t]
        BY <1>1
      <3> PICK a \in Nat, b \in Nat, c \in Nat : credits = [available |-> a, reserved |-> b, used |-> c]
        BY CreditsFacts
      <3>2. n <= a /\ credits' = [credits EXCEPT !.available = @ - n, !.reserved = @ + n]
        BY <1>3
      <3>1. credits' = [available |-> a - n, reserved |-> b + n, used |-> c]
        BY <3>2
      <3>3. a - n \in Nat
        BY <3>2
      <3> QED BY <3>1, <3>3
    <2>6. \A y \in Texts : texts'[y].status = "none" => ~texts'[y].trial
      BY <1>1, <1>3 DEF CreditsInv, CreditsTypeOK
    <2> QED BY <1>1, <2>4, <2>5, <2>6, CreditsFacts, BooksKept DEF CreditsInv, CreditsTypeOK
  <1> QED BY <1>2, <1>3 DEF Enqueue

\* An answer settles the first of the batch's texts, which is still queued.
LEMMA AnswerBooks ==
    ASSUME CreditsInv, MessagesInv, NEW r \in Runs, NEW ok \in BOOLEAN, SmsAnswered(r, ok)
    PROVE  CreditsInv'
  <1> DEFINE h == batches[r].rows[1]
  <1>1. /\ texts \in [Texts -> [status : {"none", "queued", "sent", "failed"}, trial : BOOLEAN]]
        /\ batches[r].rows # <<>> /\ batches[r].rows \in Seq(Texts)
        /\ UNCHANGED <<bought, corrected>>
    BY DEF SmsAnswered, MessagesInv, MessagesTypeOK
  <1>2. Head(batches[r].rows) = h /\ h \in Texts /\ 1 \in DOMAIN batches[r].rows
    BY <1>1, FirstRow
  <1>3. texts[h].status = "queued"
    BY <1>2 DEF MessagesInv, TextsInv, BatchesInv
  <1>4. /\ texts' = [texts EXCEPT ![h].status = IF ok THEN "sent" ELSE "failed"]
        /\ credits' = IF texts[h].trial THEN credits ELSE Settlement(h, ok)
    BY <1>1, <1>2, <1>3 DEF SmsAnswered
  <1>5. \A y \in Texts : texts'[y].status = "none" => ~texts'[y].trial
    BY <1>1, <1>2, <1>4 DEF CreditsInv, CreditsTypeOK
  <1> HIDE DEF h
  <1>6. Queued' = Queued \ {h}
    BY <1>1, <1>2, <1>4 DEF Queued
  <1>7. CASE texts[h].trial
    <2>1. Queued' = Queued
      BY <1>6, <1>7 DEF Queued
    <2> QED BY <1>1, <1>4, <1>5, <1>7, <2>1, BooksAside
  <1>8. CASE ~texts[h].trial
    <2>1. h \in Queued
      BY <1>2, <1>3, <1>8 DEF Queued
    <2>2. \A y \in Queued : Segments[y] \in Int
      BY CreditsFacts, MessagesAssumption
    <2>3. Sum(Segments, Queued) = Segments[h] + Sum(Segments, Queued \ {h})
          /\ IsFiniteSet(Queued \ {h})
      BY <2>1, <2>2, CreditsFacts, SumAdds, FS_Subset
    <2>4. Sum(Segments, Queued \ {h}) \in Int
      BY <2>2, <2>3, SumAdds
    <2>5. Segments[h] <= credits.reserved /\ Segments[h] \in Nat
      BY <1>2, <2>1, CreditsFacts, MessagesAssumption
    <2>6. Less(credits.reserved, Segments[h]) = credits.reserved - Segments[h]
      BY <2>5, CreditsFacts DEF Less
    <2>7. /\ credits' \in [available : Nat, reserved : Nat, used : Nat]
          /\ credits'.available + credits'.reserved + credits'.used
               = credits.available + credits.reserved + credits.used
          /\ credits'.reserved = credits.reserved - Segments[h]
      <3> PICK n \in Nat : n = Segments[h]
        BY <2>5
      <3> PICK a \in Nat, b \in Nat, c \in Nat : credits = [available |-> a, reserved |-> b, used |-> c]
        BY CreditsFacts
      <3>1. n <= b /\ Less(b, n) = b - n
        BY <2>5, <2>6
      <3>2. credits' = IF ok THEN [available |-> a, reserved |-> b - n, used |-> c + n]
                             ELSE [available |-> a + n, reserved |-> b - n, used |-> c]
        <4>1. /\ ok => credits' = [credits EXCEPT !.reserved = Less(@, n), !.used = @ + n]
              /\ ~ok => credits' = [credits EXCEPT !.reserved = Less(@, n), !.available = @ + n]
          BY <1>4, <1>8 DEF Settlement
        <4>2. ok => credits' = [available |-> a, reserved |-> b - n, used |-> c + n]
          BY <3>1, <4>1
        <4>3. ~ok => credits' = [available |-> a + n, reserved |-> b - n, used |-> c]
          BY <3>1, <4>1
        <4> QED BY <4>2, <4>3
      <3> QED BY <3>1, <3>2
    <2>8. credits'.reserved = Sum(Segments, Queued')
      <3> PICK n \in Nat, rest \in Int : n = Segments[h] /\ rest = Sum(Segments, Queued \ {h})
        BY <2>4, <2>5
      <3>1. credits.reserved = n + rest /\ credits'.reserved = credits.reserved - n
        BY <2>3, <2>7, CreditsFacts
      <3> QED BY <1>6, <3>1
    <2>9. /\ (credits'.available + credits'.reserved + credits'.used) - corrected' =
               (credits.available + credits.reserved + credits.used) - corrected
          /\ corrected' \in Int
      <3>1. corrected' = corrected /\ corrected \in Int
        BY <1>1 DEF CreditsInv, CreditsTypeOK
      <3> QED BY <2>7, <3>1
    <2> QED BY <1>1, <1>5, <2>7, <2>8, <2>9, BooksKept
  <1> QED BY <1>7, <1>8

LEMMA PurchaseBooks ==
    ASSUME CreditsInv, MessagesInv, NEW p \in Purchases, ActivateSmsPurchase(p)
    PROVE  CreditsInv'
  <1> DEFINE paid == {q \in Purchases : Paid(q)}
  <1>1. /\ bought \in [Purchases -> [paid : BOOLEAN, granted : BOOLEAN]]
        /\ credits' = Completed(p) /\ UNCHANGED <<texts, corrected>>
        /\ \/ bought' = [bought EXCEPT ![p] = [paid |-> TRUE, granted |-> TRUE]]
           \/ bought' = [bought EXCEPT ![p].paid = TRUE]
    BY DEF ActivateSmsPurchase, CreditsInv, CreditsTypeOK
  <1>2. bought' \in [Purchases -> [paid : BOOLEAN, granted : BOOLEAN]] /\ paid' = paid \cup {p}
    <2>1. /\ bought' \in [Purchases -> [paid : BOOLEAN, granted : BOOLEAN]] /\ bought'[p].paid
          /\ \A q \in Purchases : q # p => bought'[q].paid = bought[q].paid
      <3>1. CASE bought' = [bought EXCEPT ![p] = [paid |-> TRUE, granted |-> TRUE]]
        BY <1>1, <3>1
      <3>2. CASE bought' = [bought EXCEPT ![p].paid = TRUE]
        BY <1>1, <3>2
      <3> QED BY <1>1, <3>1, <3>2
    <2> QED BY <2>1 DEF Paid
  <1>3. IsFiniteSet(paid) /\ (p \in paid <=> Paid(p))
    BY DEF CreditsInv, CreditsTypeOK
  <1> HIDE DEF paid
  <1> PICK n \in Nat : n = Cardinality(paid)
    BY <1>3, FS_CardinalityType
  <1>4. IsFiniteSet(paid') /\ Cardinality(paid') = IF Paid(p) THEN n ELSE n + 1
    BY <1>2, <1>3, FS_AddElement
  <1>5. /\ credits' \in [available : Nat, reserved : Nat, used : Nat] /\ credits'.reserved = credits.reserved
        /\ credits'.available + credits'.used =
               credits.available + credits.used + IF Paid(p) THEN 0 ELSE PackSize
    BY <1>1, CreditsFacts, MessagesAssumption DEF Completed
  <1>6. credits.available + credits.reserved + credits.used = PackSize * n + corrected
    BY DEF CreditsInv, CreditsAddUp, paid
  <1>7. PackSize * (n + 1) = PackSize * n + PackSize /\ PackSize * n \in Nat
    BY MessagesAssumption
  <1>8. corrected \in Int
    BY DEF CreditsInv, CreditsTypeOK
  <1>9. credits'.available + credits'.reserved + credits'.used = PackSize * Cardinality(paid') + corrected
    BY <1>4, <1>5, <1>6, <1>7, <1>8, CreditsFacts, MessagesAssumption
  <1>10. Queued' = Queued
    BY <1>1 DEF Queued
  <1>11. credits'.reserved = SumOf(Queued)'
    BY <1>5, <1>10, CreditsFacts, SumOfIsSum
  <1>12. CreditsAddUp'
    BY <1>1, <1>9, <1>11 DEF CreditsAddUp, paid
  <1>13. CreditsTypeOK'
    BY <1>1, <1>2, <1>4, <1>5 DEF CreditsInv, CreditsTypeOK, paid
  <1> QED BY <1>12, <1>13 DEF CreditsInv

LEMMA AdjustBooks ==
    ASSUME CreditsInv, MessagesInv, NEW delta \in {-PackSize, 1}, Adjust(delta)
    PROVE  CreditsInv'
  <1>1. delta \in Int /\ UNCHANGED <<texts, bought>> /\ credits.available + delta >= 0
        /\ corrected' = corrected + delta /\ credits' = [credits EXCEPT !.available = @ + delta]
    BY MessagesAssumption DEF Adjust
  <1>2. Queued' = Queued
    BY <1>1 DEF Queued
  <1>3. corrected \in Int /\ \A t \in Texts : texts[t].status = "none" => ~texts[t].trial
    BY DEF CreditsInv, CreditsTypeOK
  <1>4. /\ credits' \in [available : Nat, reserved : Nat, used : Nat]
        /\ credits'.reserved = credits.reserved /\ credits'.used = credits.used
        /\ credits'.available = credits.available + delta
    BY <1>1, CreditsFacts
  <1>5. (credits'.available + credits'.reserved + credits'.used) - corrected' =
               (credits.available + credits.reserved + credits.used) - corrected
    BY <1>1, <1>3, <1>4, CreditsFacts
  <1> QED BY <1>1, <1>2, <1>3, <1>4, <1>5, CreditsFacts, BooksKept

\* A message's credits are reserved when it is queued and used or given back
\* once, so the account always shows what was bought: for any number of texts,
\* of any length, and purchases (enqueue, finish and completePurchase of
\* fiti-signal.js).
THEOREM CreditsAreKept == MsSpec => []CreditsAddUp
  <1>1. MsInit => CreditsInv
    <2> SUFFICES ASSUME MsInit PROVE CreditsInv
      OBVIOUS
    <2>1. /\ bought = [p \in Purchases |-> [paid |-> FALSE, granted |-> FALSE]]
          /\ texts = [t \in Texts |-> [status |-> "none", trial |-> FALSE]]
          /\ credits = [available |-> 0, reserved |-> 0, used |-> 0] /\ corrected = 0
      BY DEF MsInit
    <2>2. {p \in Purchases : Paid(p)} = {} /\ Queued = {}
      BY <2>1 DEF Paid, Queued
    <2>3. Sum(Segments, Queued) = 0 /\ Cardinality({p \in Purchases : Paid(p)}) = 0
          /\ IsFiniteSet({p \in Purchases : Paid(p)}) /\ PackSize * 0 = 0
      BY <2>2, SumOfNone, FS_EmptySet, MessagesAssumption
    <2>4. CreditsTypeOK
      BY <2>1, <2>3 DEF CreditsTypeOK
    <2>5. CreditsAddUp
      BY <2>1, <2>3, SumOfIsSum DEF CreditsAddUp
    <2> QED BY <2>4, <2>5 DEF CreditsInv
  <1>2. CreditsInv /\ MessagesInv /\ [MsNext]_msVars => CreditsInv'
    <2> SUFFICES ASSUME CreditsInv, MessagesInv, [MsNext]_msVars PROVE CreditsInv'
      OBVIOUS
    <2>1. ASSUME UNCHANGED <<bought, credits, corrected, texts>> PROVE CreditsInv'
      <3>1. Queued' = Queued
        BY <2>1 DEF Queued
      <3> QED BY <2>1, <3>1, BooksAside DEF CreditsInv, CreditsTypeOK
    <2>2. CASE Pause \/ TrialOver \/ MsRestart
      BY <2>1, <2>2 DEF Pause, TrialOver, MsRestart
    <2>3. ASSUME NEW r \in Runs, NEW ok \in BOOLEAN, SmsBatch(r) \/ SmsTaken(r)
          PROVE  CreditsInv'
      BY <2>1, <2>3 DEF SmsBatch, SmsTaken
    <2>4. CASE WaNext
      BY <2>1, <2>4 DEF WaNext, MsRestart, EnqueuePayment, WaitsOver, WaRound, WaClaim, WaTaken, WaAnswered, smsVars
    <2>5. CASE UNCHANGED msVars
      BY <2>1, <2>5 DEF msVars, smsVars
    <2> QED BY <2>2, <2>3, <2>4, <2>5, PurchaseBooks, AdjustBooks, EnqueueBooks, AnswerBooks DEF MsNext, SmsNext
  <1>3. CreditsInv => CreditsAddUp
    BY DEF CreditsInv
  <1> QED BY <1>1, <1>2, <1>3, MessagesInvHolds, PTL DEF MsSpec
-----------------------------------------------------------------------------
(* Who may sign in: an email signs in one person, an invite admits one.     *)

USE DEF Nobody

Owner == [email : Emails \cup {Nobody}, pw : Nat]
Member == [ws : {0} \cup Workspaces, email : Emails \cup {Nobody}, pw : Nat,
           st : {"none", "active", "removed"}]
Invite == [ws : {0} \cup Workspaces, kind : {"none", "join", "reset"}, of : {0} \cup Members,
           st : {"none", "open", "expired", "revoked", "used"},
           opens : SUBSET Nat, last : Nat, by : SUBSET Nat, uses : Nat]

\* The rows people sign in with have their types.
AcTypeOK ==
    /\ owner \in [Workspaces -> Owner] /\ member \in [Members -> Member]
    /\ invite \in [Invites -> Invite]

\* An email is one owner's or one member's, seen row by row.
OnePerson ==
    \A e \in Emails :
        /\ \A v, w \in OwnersOf(e) : v = w
        /\ \A m, n \in MembersOf(e) : m = n
        /\ OwnersOf(e) = {} \/ MembersOf(e) = {}

\* An invite that can still be used was not used, and one link opens it; a used
\* one keeps the link it was used with.
InviteInv(v) ==
    /\ v.st # "used" => v.uses = 0 /\ v.by = {}
    /\ v.st \in {"open", "expired"} => v.opens = {v.last}
    /\ v.uses <= 1 /\ v.by \subseteq {v.last}

AcInv == AcTypeOK /\ OnePerson /\ \A i \in Invites : InviteInv(invite[i])

\* A new row takes the place of none.
LEMMA FreeRows ==
    ASSUME AcTypeOK
    PROVE  /\ \A w \in FreeWorkspace : w \in Workspaces /\ owner[w] = NoOwner
           /\ \A m \in FreeMember : m \in Members /\ member[m] = NoMember
           /\ \A i \in FreeInvite : i \in Invites
  <1>1. DOMAIN owner = Workspaces /\ DOMAIN member = Members /\ DOMAIN invite = Invites
    BY DEF AcTypeOK
  <1> QED BY <1>1 DEF FreeWorkspace, FreeMember, FreeInvite, FirstFree

-----------------------------------------------------------------------------
(* Steps that touch people *)

\* Nobody's email changes and nobody becomes active: an email still is one
\* person's.
LEMMA SamePeople ==
    ASSUME OnePerson,
           \A w \in Workspaces : owner'[w].email = owner[w].email,
           \A m \in Members : member'[m].st = "active" =>
               member[m].st = "active" /\ member'[m].email = member[m].email
    PROVE  OnePerson'
  <1>1. \A e : OwnersOf(e)' = OwnersOf(e) /\ MembersOf(e)' \subseteq MembersOf(e)
    BY DEF OwnersOf, MembersOf
  <1> QED BY <1>1 DEF OnePerson

LEMMA NewOwner ==
    ASSUME AcTypeOK, OnePerson, NEW e \in Emails, NEW d, EmailFree(e), NewWorkspace(e, d), member' = member
    PROVE  owner' \in [Workspaces -> Owner] /\ OnePerson'
  <1>1. PICK w \in Workspaces : owner[w] = NoOwner /\ owner' = [owner EXCEPT ![w] = [email |-> e, pw |-> 0]]
    BY FreeRows DEF NewWorkspace
  <1>2. owner' \in [Workspaces -> Owner]
    BY <1>1 DEF AcTypeOK, Owner
  <1>3. \A f \in Emails : OwnersOf(f)' = IF f = e THEN OwnersOf(f) \cup {w} ELSE OwnersOf(f)
    BY <1>1, AccountsAssumption DEF OwnersOf, AcTypeOK, NoOwner, Owner
  <1>4. \A f : MembersOf(f)' = MembersOf(f)
    BY DEF MembersOf
  <1> QED BY <1>2, <1>3, <1>4 DEF OnePerson, EmailFree

LEMMA NewMember ==
    ASSUME AcTypeOK, OnePerson, NEW e \in Emails, EmailFree(e), NEW m \in Members, NEW ws \in {0} \cup Workspaces,
           member[m] = NoMember, owner' = owner,
           member' = [member EXCEPT ![m] = [ws |-> ws, email |-> e, pw |-> 0, st |-> "active"]]
    PROVE  member' \in [Members -> Member] /\ OnePerson'
  <1>1. member' \in [Members -> Member]
    BY DEF AcTypeOK, Member
  <1>2. \A f \in Emails : MembersOf(f)' = IF f = e THEN MembersOf(f) \cup {m} ELSE MembersOf(f)
    BY AccountsAssumption DEF MembersOf, AcTypeOK, NoMember, Member
  <1>3. \A f : OwnersOf(f)' = OwnersOf(f)
    BY DEF OwnersOf
  <1> QED BY <1>1, <1>2, <1>3 DEF OnePerson, EmailFree

\* A new password is the same person's.
LEMMA NewOwnerPassword ==
    ASSUME AcTypeOK, OnePerson, NEW w, owner' = [owner EXCEPT ![w].pw = @ + 1], member' = member
    PROVE  owner' \in [Workspaces -> Owner] /\ OnePerson'
  <1>1. owner' \in [Workspaces -> Owner] /\ \A v \in Workspaces : owner'[v].email = owner[v].email
    <2>1. owner \in [Workspaces -> Owner]
      BY DEF AcTypeOK
    <2>2. \A v \in Workspaces : owner[v].email \in Emails \cup {Nobody} /\ owner[v].pw + 1 \in Nat
      BY <2>1 DEF Owner
    <2>3. \A v \in Workspaces : LET o == [owner[v] EXCEPT !.pw = owner[v].pw + 1] IN
             o \in Owner /\ o.email = owner[v].email
      BY <2>1, <2>2 DEF Owner
    <2>4. owner' = [v \in Workspaces |-> IF v = w THEN [owner[v] EXCEPT !.pw = owner[v].pw + 1] ELSE owner[v]]
      BY <2>1
    <2> QED BY <2>1, <2>3, <2>4
  <1> QED BY <1>1, SamePeople

LEMMA NewMemberPassword ==
    ASSUME AcTypeOK, OnePerson, NEW m, member' = [member EXCEPT ![m].pw = @ + 1], owner' = owner
    PROVE  member' \in [Members -> Member] /\ OnePerson'
  <1>1. member' \in [Members -> Member]
        /\ \A n \in Members : member'[n].email = member[n].email /\ member'[n].st = member[n].st
    <2>1. member \in [Members -> Member]
      BY DEF AcTypeOK
    <2>2. \A n \in Members : member[n].pw + 1 \in Nat
      BY <2>1 DEF Member
    <2>3. \A n \in Members : LET o == [member[n] EXCEPT !.pw = member[n].pw + 1] IN
             o \in Member /\ o.email = member[n].email /\ o.st = member[n].st
      BY <2>1, <2>2 DEF Member
    <2>4. member' = [n \in Members |-> IF n = m THEN [member[n] EXCEPT !.pw = member[n].pw + 1] ELSE member[n]]
      BY <2>1
    <2> QED BY <2>1, <2>3, <2>4
  <1> QED BY <1>1, SamePeople

-----------------------------------------------------------------------------
(* Steps that touch invites *)

LEMMA OneInvite ==
    ASSUME AcInv, NEW i \in Invites, NEW v \in Invite, InviteInv(v), invite' = [invite EXCEPT ![i] = v]
    PROVE  invite' \in [Invites -> Invite] /\ \A j \in Invites : InviteInv(invite'[j])
  BY DEF AcInv, AcTypeOK

LEMMA OpenRowInv ==
    ASSUME NEW w \in Workspaces, NEW kind \in {"join", "reset"}, NEW m \in {0} \cup Members
    PROVE  OpenRow(w, kind, m) \in Invite /\ InviteInv(OpenRow(w, kind, m))
  <1> PICK one \in SUBSET Nat : one = {1}
    <2>1. {1} \in SUBSET Nat
      OBVIOUS
    <2> QED BY <2>1
  <1>1. OpenRow(w, kind, m) =
            [ws |-> w, kind |-> kind, of |-> m, st |-> "open", opens |-> one, last |-> 1, by |-> {}, uses |-> 0]
    BY DEF OpenRow
  <1>2. OpenRow(w, kind, m) \in Invite
    BY ONLY <1>1, one = {1}, one \in SUBSET Nat, w \in Workspaces, kind \in {"join", "reset"},
            m \in {0} \cup Members DEF Invite
  <1> QED BY <1>1, <1>2 DEF InviteInv

LEMMA DroppedInv ==
    ASSUME AcInv, NEW m
    PROVE  Dropped(m) \in [Invites -> Invite] /\ \A j \in Invites : InviteInv(Dropped(m)[j])
  <1>1. \A j \in Invites : LET v == [invite[j] EXCEPT !.st = "revoked"] IN
           v \in Invite /\ (invite[j].st = "open" => InviteInv(v))
    BY DEF AcInv, AcTypeOK, Invite, InviteInv
  <1> QED BY <1>1 DEF Dropped, AcInv, AcTypeOK

LEMMA UsedInv ==
    ASSUME AcInv, NEW i \in Invites, NEW link \in Nat, OpenInvite(i, link), invite' = Used(i, link)
    PROVE  invite' \in [Invites -> Invite] /\ \A j \in Invites : InviteInv(invite'[j])
  <1> PICK r \in Invite : r = invite[i] /\ InviteInv(r)
    BY DEF AcInv, AcTypeOK
  <1> DEFINE v == [r EXCEPT !.st = "used", !.by = r.by \cup {link}, !.uses = r.uses + 1]
  <1>1. r.st = "open" /\ link = r.last
    BY DEF OpenInvite, InviteInv
  <1>2. v \in Invite /\ InviteInv(v)
    <2>1. r.by = {} /\ r.uses = 0 /\ r.by \cup {link} = {r.last}
      BY <1>1 DEF InviteInv
    <2> PICK seen \in SUBSET Nat : seen = r.by \cup {link}
      BY <2>1
    <2>4. r.uses + 1 \in Nat
      BY <2>1
    <2>2. v \in Invite
      BY ONLY r \in Invite, <2>4, seen \in SUBSET Nat, seen = r.by \cup {link} DEF Invite
    <2>3. v.uses = 1 /\ v.by = {v.last} /\ v.st = "used"
      BY ONLY r \in Invite, <2>1 DEF Invite
    <2> QED BY <2>2, <2>3 DEF InviteInv
  <1>3. invite' = [invite EXCEPT ![i] = v]
    BY DEF Used, AcInv, AcTypeOK, Invite
  <1> HIDE DEF v
  <1> QED BY <1>2, <1>3, OneInvite

LEMMA OwnerInvites ==
    ASSUME AcInv, NEW i \in Invites, RotateInvite(i) \/ RevokeInvite(i) \/ InviteExpires(i)
    PROVE  invite' \in [Invites -> Invite] /\ \A j \in Invites : InviteInv(invite'[j])
  <1> PICK r \in Invite : r = invite[i] /\ InviteInv(r)
    BY DEF AcInv, AcTypeOK
  <1>1. CASE RotateInvite(i)
    <2> DEFINE v == [r EXCEPT !.st = "open", !.last = r.last + 1, !.opens = {r.last + 1}]
    <2>1. v \in Invite /\ InviteInv(v)
      <3>1. r.by = {} /\ r.uses = 0
        BY <1>1 DEF RotateInvite, InviteInv
      <3>2. {r.last + 1} \in SUBSET Nat /\ r.last + 1 \in Nat
        BY DEF Invite
      <3>3. v \in Invite
        BY ONLY r \in Invite, <3>2 DEF Invite
      <3>4. v.st = "open" /\ v.uses = 0 /\ v.by = {} /\ v.opens = {v.last}
        BY ONLY r \in Invite, <3>1 DEF Invite
      <3> QED BY <3>3, <3>4 DEF InviteInv
    <2>2. invite' = [invite EXCEPT ![i] = v]
      BY <1>1 DEF RotateInvite, AcInv, AcTypeOK, Invite
    <2> HIDE DEF v
    <2> QED BY <2>1, <2>2, OneInvite
  <1>2. CASE RevokeInvite(i) \/ InviteExpires(i)
    <2> PICK st \in {"revoked", "expired"} : r.st \in {"open", "expired"} /\ invite' = [invite EXCEPT ![i].st = st]
      BY <1>2 DEF RevokeInvite, InviteExpires
    <2> DEFINE v == [r EXCEPT !.st = st]
    <2>1. v \in Invite /\ InviteInv(v)
      BY DEF Invite, InviteInv
    <2>2. invite' = [invite EXCEPT ![i] = v]
      BY DEF AcInv, AcTypeOK, Invite
    <2> HIDE DEF v
    <2> QED BY <2>1, <2>2, OneInvite
  <1> QED BY <1>1, <1>2

-----------------------------------------------------------------------------
(* The actions *)

LEMMA KeepPeople ==
    ASSUME AcInv, owner' = owner, member' = member
    PROVE  owner' \in [Workspaces -> Owner] /\ member' \in [Members -> Member] /\ OnePerson'
  BY SamePeople DEF AcInv, AcTypeOK

LEMMA KeepInvites ==
    ASSUME AcInv, invite' = invite
    PROVE  invite' \in [Invites -> Invite] /\ \A j \in Invites : InviteInv(invite'[j])
  BY DEF AcInv, AcTypeOK

\* Signing up by form, by code and with Google opens a workspace only for an
\* email nobody has.
LEMMA SignUpStep ==
    ASSUME AcInv, NEW e \in Emails, NEW d, Register(e, d) \/ VerifyRegistration(e, d) \/ GoogleCallback(e, d)
    PROVE  AcInv'
  <1>1. member' = member /\ invite' = invite
    BY DEF Register, VerifyRegistration, GoogleCallback
  <1>2. owner' = owner \/ (EmailFree(e) /\ NewWorkspace(e, d))
    BY DEF Register, VerifyRegistration, GoogleCallback, MayTakeEmail, EmailFree
  <1>3. owner' \in [Workspaces -> Owner] /\ OnePerson'
    BY <1>1, <1>2, KeepPeople, NewOwner DEF AcInv
  <1> QED BY <1>1, <1>3, KeepInvites DEF AcInv, AcTypeOK

LEMMA AcceptJoinStep ==
    ASSUME AcInv, NEW i \in Invites, NEW link \in Nat, NEW e \in Emails, NEW d, AcceptJoin(i, link, e, d)
    PROVE  AcInv'
  <1>1. PICK m \in Members : member[m] = NoMember /\
           member' = [member EXCEPT ![m] = [ws |-> invite[i].ws, email |-> e, pw |-> 0, st |-> "active"]]
    BY FreeRows DEF AcceptJoin, AcInv
  <1>2. invite[i].ws \in {0} \cup Workspaces /\ EmailFree(e) /\ owner' = owner
        /\ OpenInvite(i, link) /\ invite' = Used(i, link)
    BY DEF AcceptJoin, LoginFree, AcInv, AcTypeOK, Invite
  <1>3. member' \in [Members -> Member] /\ OnePerson'
    BY <1>1, <1>2, NewMember DEF AcInv
  <1> QED BY <1>2, <1>3, UsedInv DEF AcInv, AcTypeOK

LEMMA AcceptResetStep ==
    ASSUME AcInv, NEW i \in Invites, NEW link \in Nat, NEW d, AcceptReset(i, link, d)
    PROVE  AcInv'
  <1>1. PICK m : m = invite[i].of
    OBVIOUS
  <1>2. /\ member' = [member EXCEPT ![m].pw = @ + 1] /\ owner' = owner
        /\ OpenInvite(i, link) /\ invite' = Used(i, link)
    BY <1>1 DEF AcceptReset
  <1>3. member' \in [Members -> Member] /\ OnePerson'
    BY <1>2, NewMemberPassword DEF AcInv
  <1> QED BY <1>2, <1>3, UsedInv DEF AcInv, AcTypeOK

LEMMA PasswordStep ==
    ASSUME AcInv, (\E e \in Emails : ResetPassword(e)) \/ (\E s \in session : ChangePassword(s))
    PROVE  AcInv'
  <1>1. invite' = invite
    BY DEF ResetPassword, ChangePassword
  <1>2. \/ \E w : owner' = [owner EXCEPT ![w].pw = @ + 1] /\ member' = member
        \/ \E m : member' = [member EXCEPT ![m].pw = @ + 1] /\ owner' = owner
    BY DEF ResetPassword, ChangePassword
  <1>3. owner' \in [Workspaces -> Owner] /\ member' \in [Members -> Member] /\ OnePerson'
    BY <1>2, NewOwnerPassword, NewMemberPassword DEF AcInv, AcTypeOK
  <1> QED BY <1>1, <1>3, KeepInvites DEF AcInv, AcTypeOK

LEMMA InviteStep ==
    ASSUME AcInv,
           \/ \E w \in Workspaces : CreateInvite(w)
           \/ \E w \in Workspaces, m \in Members : ResetInvite(w, m)
           \/ \E i \in Invites : RotateInvite(i) \/ RevokeInvite(i) \/ InviteExpires(i)
    PROVE  AcInv'
  <1>1. owner' = owner /\ member' = member
    BY DEF CreateInvite, ResetInvite, RotateInvite, RevokeInvite, InviteExpires
  <1>2. invite' \in [Invites -> Invite] /\ \A j \in Invites : InviteInv(invite'[j])
    <2>1. ASSUME NEW w \in Workspaces, CreateInvite(w)
          PROVE  invite' \in [Invites -> Invite] /\ \A j \in Invites : InviteInv(invite'[j])
      <3>1. PICK i \in Invites : invite' = [invite EXCEPT ![i] = OpenRow(w, "join", 0)]
        BY <2>1, FreeRows DEF CreateInvite, AcInv
      <3> QED BY <3>1, OpenRowInv, OneInvite
    <2>2. ASSUME NEW w \in Workspaces, NEW m \in Members, ResetInvite(w, m)
          PROVE  invite' \in [Invites -> Invite] /\ \A j \in Invites : InviteInv(invite'[j])
      <3>1. PICK i \in Invites : invite' = [Dropped(m) EXCEPT ![i] = OpenRow(w, "reset", m)]
        BY <2>2, FreeRows DEF ResetInvite, AcInv
      <3>2. OpenRow(w, "reset", m) \in Invite /\ InviteInv(OpenRow(w, "reset", m))
        BY OpenRowInv
      <3> QED BY <3>1, <3>2, DroppedInv
    <2> QED BY <2>1, <2>2, OwnerInvites
  <1> QED BY <1>1, <1>2, KeepPeople DEF AcInv, AcTypeOK

LEMMA RemoveStep == ASSUME AcInv, NEW w, NEW m \in Members, RemoveMember(w, m) PROVE AcInv'
  <1>1. owner' = owner /\ member' = [member EXCEPT ![m].st = "removed"] /\ invite' = Dropped(m)
    BY DEF RemoveMember
  <1>2. member' \in [Members -> Member]
        /\ \A n \in Members : member'[n].st = "active" =>
               member[n].st = "active" /\ member'[n].email = member[n].email
    BY <1>1 DEF AcInv, AcTypeOK, Member
  <1>3. OnePerson'
    BY <1>1, <1>2, SamePeople DEF AcInv
  <1> QED BY <1>1, <1>2, <1>3, DroppedInv DEF AcInv, AcTypeOK

LEMMA AcInvHolds == AcSpec => []AcInv
  <1>1. AcInit => AcInv
    <2> SUFFICES ASSUME AcInit PROVE AcInv
      OBVIOUS
    <2>1. owner = [w \in Workspaces |-> NoOwner] /\ member = [m \in Members |-> NoMember]
          /\ invite = [i \in Invites |-> NoInvite]
      BY DEF AcInit
    <2>2. NoOwner \in Owner /\ NoMember \in Member /\ NoInvite \in Invite /\ InviteInv(NoInvite)
      BY DEF NoOwner, NoMember, NoInvite, Owner, Member, Invite, InviteInv
    <2>3. OnePerson
      BY <2>1, AccountsAssumption DEF OnePerson, OwnersOf, MembersOf, NoOwner, NoMember
    <2> QED BY <2>1, <2>2, <2>3 DEF AcInv, AcTypeOK
  <1>2. AcInv /\ [AcNext]_acVars => AcInv'
    <2> SUFFICES ASSUME AcInv, [AcNext]_acVars PROVE AcInv'
      OBVIOUS
    <2>1. ASSUME UNCHANGED <<owner, member, invite>> PROVE AcInv'
      BY <2>1, KeepPeople, KeepInvites DEF AcInv, AcTypeOK
    <2>2. ASSUME NEW e \in Emails, NEW d \in Devices,
                 Register(e, d) \/ VerifyRegistration(e, d) \/ Login(e, d) \/ VerifyLogin(e, d) \/ GoogleCallback(e, d)
          PROVE  AcInv'
      BY <2>1, <2>2, SignUpStep DEF Login, VerifyLogin
    <2>3. ASSUME NEW e \in Emails, ForgotPassword(e) \/ ResetPassword(e) PROVE AcInv'
      BY <2>1, <2>3, PasswordStep DEF ForgotPassword
    <2>4. ASSUME NEW e \in Emails, NEW p \in Purposes, ResendFails(e, p) PROVE AcInv'
      BY <2>1, <2>4 DEF ResendFails
    <2>5. ASSUME NEW s \in session, ChangePassword(s) \/ EndOthers(s) \/ Logout(s) PROVE AcInv'
      BY <2>1, <2>5, PasswordStep DEF EndOthers, Logout
    <2>6. ASSUME NEW w \in Workspaces, CreateInvite(w) PROVE AcInv'
      BY <2>6, InviteStep
    <2>7. ASSUME NEW w \in Workspaces, NEW m \in Members, ResetInvite(w, m) \/ ChangeRole(w, m) \/ RemoveMember(w, m)
          PROVE  AcInv'
      BY <2>1, <2>7, InviteStep, RemoveStep DEF ChangeRole
    <2>8. ASSUME NEW i \in Invites, RotateInvite(i) \/ RevokeInvite(i) \/ InviteExpires(i) PROVE AcInv'
      BY <2>8, InviteStep
    <2>9. ASSUME NEW i \in Invites, NEW link \in 1..MaxLinks, NEW d \in Devices,
                 AcceptReset(i, link, d) \/ \E e \in Emails : AcceptJoin(i, link, e, d)
          PROVE  AcInv'
      <3>1. link \in Nat
        BY AccountsAssumption
      <3> QED BY <2>9, <3>1, AcceptResetStep, AcceptJoinStep
    <2>10. CASE UNCHANGED acVars
      BY <2>1, <2>10 DEF acVars
    <2> QED BY <2>2, <2>3, <2>4, <2>5, <2>6, <2>7, <2>8, <2>9, <2>10 DEF AcNext
  <1> QED BY <1>1, <1>2, PTL DEF AcSpec

LEMMA AtMostOne ==
    ASSUME NEW S, \A x, y \in S : x = y
    PROVE  Cardinality(S) \in {0, 1} /\ (S = {} => Cardinality(S) = 0)
  <1>1. CASE S = {}
    BY <1>1, FS_EmptySet
  <1>2. CASE S # {}
    <2>1. PICK x \in S : S = {x}
      BY <1>2
    <2>2. Cardinality({x}) = 1
      BY ONLY FS_Singleton
    <2> QED BY ONLY <2>1, <2>2, <1>2
  <1> QED BY <1>1, <1>2

\* An email signs in one person at most, for any number of sign-ups, codes,
\* invites and removals: every way in asks for the email among owners and
\* active members in the same transaction that takes it.
THEOREM EmailIsOnePersons == AcSpec => []OneLoginPerEmail
  <1>1. AcInv => OneLoginPerEmail
    <2> SUFFICES ASSUME AcInv, NEW e \in Emails
                 PROVE  Cardinality(OwnersOf(e)) + Cardinality(MembersOf(e)) <= 1
      BY DEF OneLoginPerEmail
    <2>1. /\ Cardinality(OwnersOf(e)) \in {0, 1} /\ (OwnersOf(e) = {} => Cardinality(OwnersOf(e)) = 0)
          /\ Cardinality(MembersOf(e)) \in {0, 1} /\ (MembersOf(e) = {} => Cardinality(MembersOf(e)) = 0)
      BY AtMostOne DEF AcInv, OnePerson
    <2>2. OwnersOf(e) = {} \/ MembersOf(e) = {}
      BY DEF AcInv, OnePerson
    <2> QED BY <2>1, <2>2
  <1> QED BY <1>1, AcInvHolds, PTL

\* An invite is used once at most, and with the newest of its links, however
\* often links are replaced, cancelled or left to expire in between.
THEOREM InviteIsUsedOnce == AcSpec => []InviteAdmitsOne
  <1>1. AcInv => InviteAdmitsOne
    BY DEF AcInv, InviteAdmitsOne, InviteInv
  <1> QED BY <1>1, AcInvHolds, PTL

-----------------------------------------------------------------------------
(* One free trial per person (TrialGuard) *)

TgNumbers == TgPhones \cup {Unset}
TgValues == TgPhones \cup TgPayouts \cup TgNames \cup {Unset}
TgAccount == [trial : {"none", "running", "guarded", "over"}, phone : TgNumbers, verified : TgNumbers,
              payout : TgPayouts \cup {Unset}, name : TgNames \cup {Unset}]
TgRows == [Fingerprints -> Seq(TgBusinesses)]

TgTypeOK ==
    /\ account \in [TgBusinesses -> TgAccount] /\ texted \in [TgBusinesses -> TgNumbers]
    /\ prints \in TgRows /\ sms \in BOOLEAN /\ checked \in [TgBusinesses -> SUBSET TgPhones]

\* What a trial stands on: the numbers that were checked, the payout account
\* and the name.
StandsOn(acc, numbers) ==
    {f \in Fingerprints : \/ f[1] = "phone" /\ f[2] \in numbers
                          \/ f[1] \in {"payout", "name"} /\ acc[f[1]] = f[2] /\ f[2] # Unset}
First(users, b) == users # << >> /\ users[1] = b
TrialsStandFirst ==
    \A b \in TgBusinesses : account[b].trial = "running" =>
        \A f \in StandsOn(account[b], checked[b]) : First(prints[f], b)
VerifiedIsChecked ==
    \A b \in TgBusinesses : /\ account[b].verified \in checked[b] \cup {Unset}
                            /\ account[b].trial = "none" => checked[b] = {} /\ texted[b] = Unset

TgInv == TgTypeOK /\ TrialsStandFirst /\ VerifiedIsChecked

\* Rows are only ever added behind the others: who was first stays first.
RowsBehind(old, new) ==
    /\ new \in TgRows
    /\ \A f \in Fingerprints, b \in TgBusinesses : First(old[f], b) => First(new[f], b)

\* No code is sent.
NoNewText ==
    /\ texted' \in [TgBusinesses -> TgNumbers]
    /\ \A b \in TgBusinesses : texted'[b] \in {texted[b], Unset}

LEMMA SameRows ==
    ASSUME NEW rows \in TgRows
    PROVE  RowsBehind(rows, rows)
  BY DEF RowsBehind

\* One list behind another.
LEMMA FirstStays ==
    ASSUME NEW old \in Seq(TgBusinesses), NEW more \in Seq(TgBusinesses), NEW b, First(old, b)
    PROVE  First(old \o more, b)
  BY DEF First

\* The kinds and the values of a fingerprint.
LEMMA PrintParts ==
    ASSUME NEW f \in Fingerprints
    PROVE  /\ f[1] \in TgKinds /\ f = <<f[1], f[2]>>
           /\ f[1] = "phone" => f[2] \in TgPhones
  BY DEF Fingerprints, TgKinds

\* After a report every value of it has a row of the workspace.
LEMMA ReportAdds ==
    ASSUME NEW rows \in TgRows, NEW values, NEW b \in TgBusinesses
    PROVE  /\ RowsBehind(rows, Recorded(rows, values, b))
           /\ \A f \in Fingerprints : values[f[1]] = f[2] => b \in Range(Recorded(rows, values, b)[f])
  <1> DEFINE new == Recorded(rows, values, b)
  <1>1. ASSUME NEW f \in Fingerprints
        PROVE  /\ new[f] \in Seq(TgBusinesses)
               /\ \A c \in TgBusinesses : First(rows[f], c) => First(new[f], c)
               /\ values[f[1]] = f[2] => b \in Range(new[f])
    <2>1. rows[f] \in Seq(TgBusinesses)
      BY DEF TgRows
    <2>2. CASE values[f[1]] = f[2] /\ b \notin Range(rows[f])
      <3>1. new[f] = Append(rows[f], b)
        BY <2>2 DEF Recorded
      <3> HIDE DEF new
      <3>2. new[f] \in Seq(TgBusinesses) /\ new[f][Len(rows[f]) + 1] = b /\ Len(rows[f]) + 1 \in DOMAIN new[f]
        BY <2>1, <3>1
      <3>3. \A c \in TgBusinesses : First(rows[f], c) => First(new[f], c)
        BY <2>1, <3>1 DEF First
      <3> QED BY <3>2, <3>3 DEF Range
    <2>3. CASE ~(values[f[1]] = f[2] /\ b \notin Range(rows[f]))
      <3>1. new[f] = rows[f]
        BY <2>3 DEF Recorded
      <3> HIDE DEF new
      <3> QED BY <2>1, <2>3, <3>1
    <2> QED BY <2>2, <2>3
  <1>2. new = [f \in Fingerprints |-> new[f]]
    BY DEF Recorded
  <1> HIDE DEF new
  <1>3. new \in TgRows
    BY <1>1, <1>2 DEF TgRows
  <1>4. RowsBehind(rows, new)
    BY <1>1, <1>3 DEF RowsBehind
  <1> QED BY <1>1, <1>4 DEF new

\* Rows are added and one workspace's row is rewritten: its trial must stand,
\* the others stand as they did.
LEMMA TrialStep ==
    ASSUME TgInv, sms' \in BOOLEAN, RowsBehind(prints, prints'), NoNewText,
           NEW b \in TgBusinesses, NEW acc \in TgAccount, NEW numbers \in SUBSET TgPhones,
           account' = [account EXCEPT ![b] = acc], checked' = [checked EXCEPT ![b] = numbers],
           acc.verified \in numbers \cup {Unset}, acc.trial # "none",
           acc.trial = "running" => \A f \in StandsOn(acc, numbers) :
               \/ account[b].trial = "running" /\ f \in StandsOn(account[b], checked[b])
               \/ First(prints'[f], b)
    PROVE  TgInv'
  <1>0. /\ account \in [TgBusinesses -> TgAccount] /\ checked \in [TgBusinesses -> SUBSET TgPhones]
        /\ account'[b] = acc /\ checked'[b] = numbers
        /\ \A c \in TgBusinesses : c # b => account'[c] = account[c] /\ checked'[c] = checked[c]
    BY DEF TgInv, TgTypeOK
  <1>1. TgTypeOK'
    BY <1>0 DEF TgInv, TgTypeOK, RowsBehind, NoNewText
  <1>2. ASSUME NEW c \in TgBusinesses, account'[c].trial = "running",
               NEW f \in StandsOn(account'[c], checked'[c])
        PROVE  First(prints'[f], c)
    <2>1. f \in Fingerprints
      BY <1>2 DEF StandsOn
    <2>2. account[c].trial = "running" /\ f \in StandsOn(account[c], checked[c]) => First(prints'[f], c)
      <3>1. account[c].trial = "running" /\ f \in StandsOn(account[c], checked[c]) => First(prints[f], c)
        BY DEF TgInv, TrialsStandFirst
      <3> QED BY <2>1, <3>1 DEF RowsBehind
    <2>3. CASE c = b
      BY <1>0, <1>2, <2>2, <2>3
    <2>4. CASE c # b
      BY <1>0, <1>2, <2>2, <2>4
    <2> QED BY <2>3, <2>4
  <1>3. TrialsStandFirst'
    BY <1>2 DEF TrialsStandFirst, StandsOn
  <1>4. VerifiedIsChecked'
    <2>1. ASSUME NEW c \in TgBusinesses
          PROVE  /\ account'[c].verified \in checked'[c] \cup {Unset}
                 /\ account'[c].trial = "none" => checked'[c] = {} /\ texted'[c] = Unset
      <3>1. CASE c = b
        BY <1>0, <3>1
      <3>2. CASE c # b
        BY <1>0, <3>2 DEF TgInv, VerifiedIsChecked, NoNewText
      <3> QED BY <3>1, <3>2
    <2> QED BY <2>1 DEF VerifiedIsChecked
  <1> QED BY <1>1, <1>3, <1>4 DEF TgInv

\* The row is saved and the guard checks what was reported: all that the trial
\* stands on is reported now or was there before.
LEMMA CheckedStep ==
    ASSUME TgInv, sms' \in BOOLEAN, NoNewText,
           NEW b \in TgBusinesses, NEW acc \in TgAccount, NEW numbers \in SUBSET TgPhones, NEW values,
           SavedAndChecked(b, acc, values), checked' = [checked EXCEPT ![b] = numbers],
           acc.verified \in numbers \cup {Unset}, acc.trial # "none",
           \A f \in StandsOn(acc, numbers) :
               \/ values[f[1]] = f[2]
               \/ account[b].trial = acc.trial /\ f \in StandsOn(account[b], checked[b])
    PROVE  TgInv'
  <1> DEFINE new == [acc EXCEPT !.trial = CheckedTrial(acc.trial, values, b)]
             rows == Recorded(prints, values, b)
  <1>1. account' = [account EXCEPT ![b] = new] /\ prints' = rows
    BY DEF SavedAndChecked
  <1>2. prints \in TgRows
    BY DEF TgInv, TgTypeOK
  <1>3. RowsBehind(prints, rows) /\ \A f \in Fingerprints : values[f[1]] = f[2] => b \in Range(rows[f])
    BY <1>2, ReportAdds
  <1>5. CheckedTrial(acc.trial, values, b) \in {acc.trial, "guarded"}
    BY DEF CheckedTrial
  <1>6. new \in TgAccount /\ new.trial = CheckedTrial(acc.trial, values, b) /\ new.verified = acc.verified
        /\ new["payout"] = acc["payout"] /\ new["name"] = acc["name"]
    BY <1>5 DEF TgAccount
  <1>7. StandsOn(new, numbers) = StandsOn(acc, numbers)
    <2> HIDE DEF new
    <2> QED BY <1>6 DEF StandsOn
  <1>8. ASSUME new.trial = "running", NEW f \in StandsOn(new, numbers)
        PROVE  \/ account[b].trial = "running" /\ f \in StandsOn(account[b], checked[b])
               \/ First(rows[f], b)
    <2>0. f \in Fingerprints
      BY <1>8 DEF StandsOn
    <2>1. acc.trial = "running" /\ (values[f[1]] = f[2] => ~UsedBefore(rows[f], b))
      BY <1>6, <1>8, <2>0 DEF CheckedTrial, Second
    <2>2. CASE values[f[1]] = f[2]
      <3>1. b \in Range(rows[f]) /\ rows[f][1] = b /\ rows[f] \in Seq(TgBusinesses)
        BY <1>3, <2>0, <2>1, <2>2 DEF UsedBefore, RowsBehind, TgRows
      <3>2. rows[f] # << >>
        BY <3>1 DEF Range
      <3> QED BY <3>1, <3>2 DEF First
    <2> QED BY <1>7, <1>8, <2>1, <2>2
  <1>9. new.trial # "none"
    BY <1>5, <1>6
  <1> HIDE DEF new, rows
  <1> QED BY <1>1, <1>3, <1>6, <1>8, <1>9, TrialStep

\* A number is checked: the trial stands on it from then on, and on what it did.
LEMMA PhoneCheckedStep ==
    ASSUME TgInv, sms' \in BOOLEAN, NoNewText,
           NEW b \in TgBusinesses, NEW acc \in TgAccount, PhoneChecked(b, acc),
           acc.phone # Unset, acc.trial # "none", acc.verified \in checked[b] \cup {acc.phone, Unset},
           \A f \in StandsOn(acc, checked[b]) :
               account[b].trial = acc.trial /\ f \in StandsOn(account[b], checked[b])
    PROVE  TgInv'
  <1> DEFINE values == [NoValues EXCEPT !["phone"] = acc.phone]
             numbers == checked[b] \cup {acc.phone}
  <1>1. SavedAndChecked(b, acc, values) /\ checked' = [checked EXCEPT ![b] = numbers]
    BY DEF PhoneChecked
  <1>2. numbers \in SUBSET TgPhones
    BY DEF TgInv, TgTypeOK, TgAccount, TgNumbers
  <1>3. values["phone"] = acc.phone
    BY DEF NoValues, TgKinds
  <1>4. ASSUME NEW f \in StandsOn(acc, numbers)
        PROVE  values[f[1]] = f[2] \/ f \in StandsOn(acc, checked[b])
    <2> HIDE DEF values
    <2> QED BY <1>3, <1>4 DEF StandsOn
  <1>5. acc.verified \in numbers \cup {Unset}
    OBVIOUS
  <1> HIDE DEF values, numbers
  <1> QED BY <1>1, <1>2, <1>4, <1>5, CheckedStep

\* A number is saved: where texts are sent the trial does not stand on it yet.
LEMMA PhoneStep ==
    ASSUME TgInv, UNCHANGED <<sms, texted>>, NEW b \in TgBusinesses, NEW acc \in TgAccount, PhoneSaved(b, acc),
           acc.trial # "none", acc.verified \in checked[b] \cup {Unset},
           \A f \in StandsOn(acc, checked[b]) :
               account[b].trial = acc.trial /\ f \in StandsOn(account[b], checked[b])
    PROVE  TgInv'
  <1>1. /\ NoNewText /\ sms' \in BOOLEAN /\ prints \in TgRows
        /\ checked \in [TgBusinesses -> SUBSET TgPhones]
    BY DEF TgInv, TgTypeOK, NoNewText
  <1>2. CASE sms \/ acc.phone = Unset
    <2>1. account' = [account EXCEPT ![b] = acc] /\ prints' = prints /\ checked' = checked
      BY <1>2 DEF PhoneSaved, Saved
    <2>2. RowsBehind(prints, prints')
      BY <1>1, <2>1, SameRows
    <2>3. checked' = [checked EXCEPT ![b] = checked[b]] /\ checked[b] \in SUBSET TgPhones
      BY <1>1, <2>1
    <2> QED BY <1>1, <2>1, <2>2, <2>3, TrialStep
  <1>3. CASE ~(sms \/ acc.phone = Unset)
    BY <1>1, <1>3, PhoneCheckedStep DEF PhoneSaved
  <1> QED BY <1>2, <1>3

\* Nothing of a workspace changes: who was first still is.
LEMMA OnlyRowsAdded ==
    ASSUME TgInv, sms' \in BOOLEAN, UNCHANGED <<account, checked>>, RowsBehind(prints, prints'),
           texted' \in [TgBusinesses -> TgNumbers],
           \A b \in TgBusinesses : account[b].trial = "none" => texted'[b] = Unset
    PROVE  TgInv'
  <1>1. TgTypeOK' /\ VerifiedIsChecked'
    BY DEF TgInv, TgTypeOK, VerifiedIsChecked, RowsBehind
  <1>2. ASSUME NEW b \in TgBusinesses, account'[b].trial = "running", NEW f \in StandsOn(account'[b], checked'[b])
        PROVE  First(prints'[f], b)
    <2>1. account[b].trial = "running" /\ f \in StandsOn(account[b], checked[b]) /\ f \in Fingerprints
      BY <1>2 DEF StandsOn
    <2> QED BY <2>1 DEF TgInv, TrialsStandFirst, RowsBehind
  <1>3. TrialsStandFirst'
    BY <1>2 DEF TrialsStandFirst, StandsOn
  <1> QED BY <1>1, <1>3 DEF TgInv

\* The rows a start adds are behind the others.
LEMMA BackfillBehind ==
    ASSUME prints \in TgRows, BackfillPhones
    PROVE  RowsBehind(prints, prints')
  <1>1. PICK late \in [TgPhones -> BoundedSeq(TgBusinesses, Cardinality(TgBusinesses))] :
            prints' = [f \in Fingerprints |-> IF f[1] = "phone" THEN prints[f] \o late[f[2]] ELSE prints[f]]
    BY DEF BackfillPhones
  <1>2. \A p \in TgPhones : late[p] \in Seq(TgBusinesses)
    BY DEF BoundedSeq, SeqOf
  <1>3. ASSUME NEW f \in Fingerprints
        PROVE  /\ prints'[f] \in Seq(TgBusinesses)
               /\ \A b \in TgBusinesses : First(prints[f], b) => First(prints'[f], b)
    <2>1. prints[f] \in Seq(TgBusinesses)
      BY DEF TgRows
    <2>2. CASE f[1] = "phone"
      <3>1. late[f[2]] \in Seq(TgBusinesses) /\ prints'[f] = prints[f] \o late[f[2]]
        BY <1>1, <1>2, <2>2, PrintParts
      <3> QED BY <2>1, <3>1, FirstStays
    <2>3. CASE f[1] # "phone"
      BY <1>1, <2>1, <2>3
    <2> QED BY <2>2, <2>3
  <1>4. prints' = [f \in Fingerprints |-> prints'[f]]
    BY <1>1
  <1>5. prints' \in TgRows
    BY <1>3, <1>4 DEF TgRows
  <1> QED BY <1>3, <1>5 DEF RowsBehind

\* Nobody has a trial at first.
LEMMA TgInitInv == TgInit => TgInv
  <1> SUFFICES ASSUME TgInit PROVE TgInv
    OBVIOUS
  <1>1. NotSignedUp \in TgAccount /\ Unset \in TgNumbers /\ NotSignedUp.trial = "none" /\ NotSignedUp.verified = Unset
    BY DEF NotSignedUp, TgAccount, TgNumbers
  <1>2. prints \in TgRows
    BY DEF TgInit, TgRows
  <1> QED BY <1>1, <1>2 DEF TgInit, TgInv, TgTypeOK, TrialsStandFirst, VerifiedIsChecked

\* Every step keeps trials standing on first uses.
LEMMA TgNextInv == TgInv /\ [TgNext]_tgVars => TgInv'
  <1> SUFFICES ASSUME TgInv, [TgNext]_tgVars PROVE TgInv'
    OBVIOUS
  <1>0. /\ account \in [TgBusinesses -> TgAccount] /\ texted \in [TgBusinesses -> TgNumbers] /\ sms \in BOOLEAN
        /\ prints \in TgRows /\ checked \in [TgBusinesses -> SUBSET TgPhones] /\ Unset \in TgNumbers
        /\ \A c \in TgBusinesses : /\ account[c] \in TgAccount
                                   /\ account[c].verified \in checked[c] \cup {Unset}
                                   /\ account[c].trial = "none" => checked[c] = {} /\ texted[c] = Unset
    BY DEF TgInv, TgTypeOK, VerifiedIsChecked, TgNumbers
  <1>same. RowsBehind(prints, prints) /\ (texted' = texted => NoNewText)
    BY <1>0, SameRows DEF NoNewText
  <1>1. ASSUME NEW b \in TgBusinesses, NEW p \in TgPhones \cup {Unset}, SignUp(b, p)
        PROVE  TgInv'
    <2> DEFINE acc == [NotSignedUp EXCEPT !.trial = "running", !.phone = p]
    <2>1. acc \in TgAccount /\ acc.trial = "running"
      BY DEF NotSignedUp, TgAccount, TgNumbers
    <2>2. acc["payout"] = Unset /\ acc["name"] = Unset /\ acc.verified = Unset
      BY DEF NotSignedUp
    <2>3. PhoneSaved(b, acc) /\ UNCHANGED <<sms, texted>> /\ account[b].trial = "none"
      BY <1>1 DEF SignUp
    <2>4. checked[b] = {}
      BY <1>0, <2>3
    <2> HIDE DEF acc
    <2>5. StandsOn(acc, checked[b]) = {}
      BY <2>2, <2>4 DEF StandsOn
    <2> QED BY <2>1, <2>2, <2>3, <2>5, PhoneStep
  <1>2. ASSUME NEW b \in TgBusinesses, NEW p \in TgPhones, SaveOrganisation(b, p)
        PROVE  TgInv'
    <2> DEFINE acc == [account[b] EXCEPT !.phone = p]
    <2>1. acc \in TgAccount /\ acc.trial = account[b].trial /\ acc.verified = account[b].verified
          /\ acc["payout"] = account[b]["payout"] /\ acc["name"] = account[b]["name"]
      BY <1>0 DEF TgAccount, TgNumbers
    <2>2. PhoneSaved(b, acc) /\ UNCHANGED <<sms, texted>> /\ account[b].trial # "none"
      BY <1>2 DEF SaveOrganisation
    <2> HIDE DEF acc
    <2>3. StandsOn(acc, checked[b]) = StandsOn(account[b], checked[b])
      BY <2>1 DEF StandsOn
    <2> QED BY <1>0, <2>1, <2>2, <2>3, PhoneStep
  <1>3. ASSUME NEW b \in TgBusinesses, Confirm(b)
        PROVE  TgInv'
    <2> DEFINE acc == [account[b] EXCEPT !.phone = texted[b], !.verified = texted[b]]
    <2>1. /\ acc \in TgAccount /\ acc.trial = account[b].trial /\ acc.verified = acc.phone /\ acc.phone = texted[b]
          /\ acc["payout"] = account[b]["payout"] /\ acc["name"] = account[b]["name"]
      BY <1>0 DEF TgAccount
    <2>2. PhoneChecked(b, acc) /\ sms' = sms /\ texted[b] # Unset /\ NoNewText
      BY <1>0, <1>3 DEF Confirm, NoNewText
    <2> HIDE DEF acc
    <2>3. StandsOn(acc, checked[b]) = StandsOn(account[b], checked[b])
      BY <2>1 DEF StandsOn
    <2> QED BY <1>0, <1>3, <2>1, <2>2, <2>3, PhoneCheckedStep
  <1>4. ASSUME NEW b \in TgBusinesses, NEW x \in TgPayouts, NEW n \in TgNames \cup {Unset}, SavePayout(b, x, n)
        PROVE  TgInv'
    <2> DEFINE acc == [account[b] EXCEPT !.payout = x, !.name = IF n = Unset THEN @ ELSE n]
               values == [NoValues EXCEPT !["payout"] = x, !["name"] = n]
    <2>1. /\ acc \in TgAccount /\ acc.trial = account[b].trial /\ acc.verified = account[b].verified
          /\ acc["payout"] = x /\ acc["name"] \in {n, account[b]["name"]}
      BY <1>0 DEF TgAccount
    <2>2. values["payout"] = x /\ values["name"] = n
      BY DEF NoValues, TgKinds
    <2>3. SavedAndChecked(b, acc, values) /\ UNCHANGED <<sms, texted, checked>> /\ account[b].trial # "none"
      BY <1>4 DEF SavePayout
    <2>4. checked' = [checked EXCEPT ![b] = checked[b]] /\ checked[b] \in SUBSET TgPhones
      BY <1>0, <2>3
    <2> HIDE DEF acc, values
    <2>5. \A f \in StandsOn(acc, checked[b]) : values[f[1]] = f[2] \/ f \in StandsOn(account[b], checked[b])
      BY <2>1, <2>2 DEF StandsOn
    <2> QED BY <1>0, <1>same, <2>1, <2>3, <2>4, <2>5, CheckedStep
  <1>5. ASSUME NEW b \in TgBusinesses, TrialEnds(b)
        PROVE  TgInv'
    <2> DEFINE acc == [account[b] EXCEPT !.trial = "over"]
    <2>1. acc \in TgAccount /\ acc.trial = "over" /\ acc.verified = account[b].verified
      BY <1>0 DEF TgAccount
    <2>2. account' = [account EXCEPT ![b] = acc] /\ UNCHANGED <<sms, texted, prints, checked>>
      BY <1>5 DEF TrialEnds
    <2>3. checked' = [checked EXCEPT ![b] = checked[b]] /\ checked[b] \in SUBSET TgPhones
      BY <1>0, <2>2
    <2> HIDE DEF acc
    <2> QED BY <1>0, <1>same, <2>1, <2>2, <2>3, TrialStep
  <1>6. ASSUME NEW b \in TgBusinesses, NEW p \in TgPhones, StartVerify(b, p)
        PROVE  TgInv'
    <2>1. /\ UNCHANGED <<sms, account, prints, checked>> /\ texted' \in [TgBusinesses -> TgNumbers]
          /\ \A c \in TgBusinesses : account[c].trial = "none" => texted'[c] = Unset
      BY <1>0, <1>6 DEF StartVerify, TgNumbers
    <2> QED BY <1>0, <1>same, <2>1, OnlyRowsAdded
  <1>7. ASSUME NEW b \in TgBusinesses, CodeSpent(b)
        PROVE  TgInv'
    <2>1. /\ UNCHANGED <<sms, account, prints, checked>> /\ texted' \in [TgBusinesses -> TgNumbers]
          /\ \A c \in TgBusinesses : account[c].trial = "none" => texted'[c] = Unset
      BY <1>0, <1>7 DEF CodeSpent
    <2> QED BY <1>0, <1>same, <2>1, OnlyRowsAdded
  <1>8. ASSUME RestartServer
        PROVE  TgInv'
    BY <1>0, <1>8, BackfillBehind, OnlyRowsAdded DEF RestartServer
  <1>9. ASSUME UNCHANGED tgVars
        PROVE  TgInv'
    BY <1>0, <1>same, <1>9, OnlyRowsAdded DEF tgVars
  <1> QED
    <2>1. CASE TgNext
      BY <2>1, <1>1, <1>2, <1>3, <1>4, <1>5, <1>6, <1>7, <1>8 DEF TgNext
    <2> QED BY <2>1, <1>9

\* Whoever was first with a value is one workspace.
LEMMA TgInvOne == TgInv => OneTrialPerPerson
  <1> SUFFICES ASSUME TgInv, NEW b \in TgBusinesses, NEW c \in TgBusinesses, SellsOnTrial(b), SellsOnTrial(c),
                      NEW f \in {"phone", "payout", "name"}, b # c, account[b][f] # Unset,
                      account[b][f] = account[c][f], ~(f = "phone" /\ (OnlyTyped(b) \/ OnlyTyped(c)))
               PROVE  FALSE
    BY DEF OneTrialPerPerson
  <1> DEFINE v == account[b][f]
             print == <<f, v>>
  <1>1. account[b] \in TgAccount /\ account[c] \in TgAccount
    BY DEF TgInv, TgTypeOK
  <1>2. print \in Fingerprints
    BY <1>1 DEF TgAccount, TgNumbers, Fingerprints
  <1>3. ASSUME NEW d \in {b, c}
        PROVE  First(prints[print], d)
    <2>1. account[d].trial = "running" /\ account[d][f] = v /\ v # Unset
      BY <1>3 DEF SellsOnTrial
    <2>2. CASE f = "phone"
      <3>1. account[d].phone = v /\ ~OnlyTyped(d) /\ SellsOnTrial(d)
        BY <1>3, <2>1, <2>2
      <3>2. v \in checked[d]
        BY <1>3, <2>1, <3>1 DEF OnlyTyped, SellsOnTrial, TgInv, VerifiedIsChecked
      <3>3. print \in StandsOn(account[d], checked[d])
        BY <1>2, <2>2, <3>2 DEF StandsOn
      <3> QED BY <1>3, <2>1, <3>3 DEF TgInv, TrialsStandFirst
    <2>3. CASE f # "phone"
      <3>1. print \in StandsOn(account[d], checked[d])
        BY <1>2, <2>1, <2>3 DEF StandsOn
      <3> QED BY <1>3, <2>1, <3>1 DEF TgInv, TrialsStandFirst
    <2> QED BY <2>2, <2>3
  <1> QED BY <1>3 DEF First

\* "One free trial per person": for any number of workspaces, numbers, payout
\* accounts and names, whatever they sign up with, verify, change and save, and
\* with texts switched on or off at any restart in between: no two workspaces
\* sell on a trial with one payout account or one name, nor with one number that
\* both had checked; while texts are sent, with no number at all (trial-guard.js
\* check and backfillPhones, phone-verify.js ownerPhoneBlock).
THEOREM NoSecondTrial == TgSpec => []OneTrialPerPerson
  BY TgInitInv, TgNextInv, TgInvOne, PTL DEF TgSpec

=============================================================================
