------------------------------- MODULE Payouts -------------------------------
(***************************************************************************)
(* Where Tuma sends the money of one tenant (src/src/lib/tuma-tenants.js):  *)
(* a business that Wi-Fi Fiti creates for the tenant at Tuma, or the        *)
(* tenant's own Tuma account.  Handlers call Tuma and go on when it answers *)
(* with what they read before; a sweep switches off the accounts of trials  *)
(* that never subscribed and on again those of tenants who did.             *)
(***************************************************************************)
EXTENDS Naturals, FiniteSets

CONSTANTS
    PySaves,       \* the owner's requests to save a payout account
    PyIds,         \* accounts Tuma may create: 1..n
    PyMaxADay      \* MAX_CREATIONS_PER_DAY

ASSUME PayoutsAssumption == IsFiniteSet(PyIds) /\ PyIds = 1..Cardinality(PyIds) /\ PyMaxADay \in Nat

VARIABLES
    standing,   \* what the billing of the tenant says: entitled, lapsed, dormant
    place,      \* tenant_tuma_accounts: the tenant's row
    atTuma,     \* at Tuma: each account none, on or off
    creations,  \* tuma_business_creations of the last day
    inFlight,   \* the guard of saveSettlement
    saving,     \* the saves: [at, id]
    linking,    \* a link: [on, had]
    sweeping,   \* the sweep: idle, or the answer it waits for: off, on
    paying,     \* a customer's prompt: idle, resuming, pushing
    lost        \* history: a creation failed, or its answer was lost

pyVars == <<standing, place, atTuma, creations, inFlight, saving, linking, sweeping, paying, lost>>

NoPlace == [mode |-> "none", id |-> 0, active |-> FALSE, ended |-> FALSE]
Managed(id) == [mode |-> "managed", id |-> id, active |-> TRUE, ended |-> FALSE]
Linked == [mode |-> "linked", id |-> 0, active |-> TRUE, ended |-> FALSE]
NotSaving == [at |-> "idle", id |-> 0]

PyInit ==
    /\ standing = "entitled" /\ place = NoPlace
    /\ atTuma = [i \in PyIds |-> "none"]
    /\ creations = 0 /\ inFlight = FALSE /\ lost = FALSE
    /\ saving = [s \in PySaves |-> NotSaving]
    /\ linking = [on |-> FALSE, had |-> FALSE]
    /\ sweeping = "idle" /\ paying = "idle"

FreshId == {i \in PyIds : atTuma[i] = "none" /\ \A j \in PyIds : j < i => atTuma[j] # "none"}
Created == {i \in PyIds : atTuma[i] # "none"}

\* A trial ends, its account falls dormant 30 days later, the tenant pays.
StandingChanges ==
    /\ \E new \in {"entitled", "lapsed", "dormant"} :
          /\ standing' = new
          /\ <<standing, new>> \in {<<"entitled", "lapsed">>, <<"lapsed", "dormant">>,
                                    <<"lapsed", "entitled">>, <<"dormant", "entitled">>}
    /\ UNCHANGED <<place, atTuma, creations, inFlight, saving, linking, sweeping, paying, lost>>
NextDay ==
    /\ creations > 0 /\ creations' = 0
    /\ UNCHANGED <<standing, place, atTuma, inFlight, saving, linking, sweeping, paying, lost>>

-----------------------------------------------------------------------------
(* saveSettlement *)

At(s, at, id) == saving' = [saving EXCEPT ![s] = [at |-> at, id |-> id]]
\* finally: the guard goes with the request.
SaveEnds(s) == At(s, "idle", 0) /\ inFlight' = FALSE

\* Mutant of SaveMayStart: a second click is not looked at.
SaveMayStartAgain(s) == saving[s].at = "idle"
SaveMayStart(s) == saving[s].at = "idle" /\ ~inFlight
SaveStart(s) ==
    /\ SaveMayStart(s)
    /\ inFlight' = TRUE /\ At(s, "checking", 0)
    /\ UNCHANGED <<standing, place, atTuma, creations, linking, sweeping, paying, lost>>

\* The list of banks came and the details are right: what there is decides.
SaveReads(s) ==
    /\ saving[s].at = "checking"
    /\ \/ /\ place.mode = "managed"
          /\ At(s, "updating", place.id) /\ UNCHANGED <<inFlight, creations>>
       \/ /\ place.mode = "none" /\ creations < PyMaxADay
          /\ At(s, "creating", 0) /\ creations' = creations + 1 /\ UNCHANGED inFlight
       \/ /\ place.mode = "linked" \/ (place.mode = "none" /\ creations = PyMaxADay)
          /\ SaveEnds(s) /\ UNCHANGED creations
    /\ UNCHANGED <<standing, place, atTuma, linking, sweeping, paying, lost>>
\* Wrong details, an owner whose number is not verified, or no answer.
SaveRefused(s) ==
    /\ saving[s].at = "checking" /\ SaveEnds(s)
    /\ UNCHANGED <<standing, place, atTuma, creations, linking, sweeping, paying, lost>>

\* updateDestination writes to the row there is when Tuma has answered, and
\* switches it on here, not at Tuma.
SaveUpdated(s, ok) ==
    /\ saving[s].at = "updating" /\ SaveEnds(s)
    /\ place' = IF ok /\ place # NoPlace THEN [place EXCEPT !.active = TRUE] ELSE place
    /\ UNCHANGED <<standing, atTuma, creations, linking, sweeping, paying, lost>>

SaveCreated(s) ==
    /\ saving[s].at = "creating"
    /\ \E i \in FreshId : atTuma' = [atTuma EXCEPT ![i] = "on"] /\ At(s, "verifying", i)
    /\ UNCHANGED <<standing, place, creations, inFlight, linking, sweeping, paying, lost>>
\* Tuma refuses, or creates the account and its answer does not arrive.
SaveNotCreated(s, done) ==
    /\ saving[s].at = "creating" /\ SaveEnds(s)
    /\ lost' = TRUE
    /\ IF done THEN \E i \in FreshId : atTuma' = [atTuma EXCEPT ![i] = "on"] ELSE UNCHANGED atTuma
    /\ UNCHANGED <<standing, place, creations, linking, sweeping, paying>>
\* Verified or not, the row is inserted; business_id is its primary key.
SaveInserts(s) ==
    /\ saving[s].at = "verifying" /\ SaveEnds(s)
    /\ place' = IF place = NoPlace THEN Managed(saving[s].id) ELSE place
    /\ UNCHANGED <<standing, atTuma, creations, linking, sweeping, paying, lost>>

-----------------------------------------------------------------------------
(* The tenant's own account *)

LinkStart ==
    /\ ~linking.on /\ ~(place.mode = "managed" /\ place.active)
    /\ linking' = [on |-> TRUE, had |-> place # NoPlace]
    /\ UNCHANGED <<standing, place, atTuma, creations, inFlight, saving, sweeping, paying, lost>>
\* With a row at the start, whatever row is there now goes.
LinkDone(ok) ==
    /\ linking.on /\ linking' = [on |-> FALSE, had |-> FALSE]
    /\ place' = IF ok /\ (linking.had \/ place = NoPlace) THEN Linked ELSE place
    /\ UNCHANGED <<standing, atTuma, creations, inFlight, saving, sweeping, paying, lost>>
Disconnect ==
    /\ place.mode = "linked" /\ place.active
    /\ place' = [place EXCEPT !.active = FALSE]
    /\ UNCHANGED <<standing, atTuma, creations, inFlight, saving, linking, sweeping, paying, lost>>

-----------------------------------------------------------------------------
(* The sweep, and a prompt *)

Suspended == place.mode = "managed" /\ ~place.active /\ place.ended
\* Mutant of Resumable: only accounts in use are looked at.
ResumableActive == Suspended /\ place.active /\ standing = "entitled"
Resumable == Suspended /\ standing = "entitled"

Told(id, state) == [atTuma EXCEPT ![id] = state]
\* Tuma may not accept it: the error is logged and the row changes all the same.
TumaTold(state) ==
    \/ UNCHANGED atTuma
    \/ place.id # 0 /\ atTuma' = Told(place.id, state)
\* resume: the row of this tenant, whichever it is by now.
Resumed == IF place = NoPlace THEN place ELSE [place EXCEPT !.active = TRUE, !.ended = FALSE]

SweepReads ==
    /\ sweeping = "idle"
    /\ \/ place.mode = "managed" /\ place.active /\ standing = "dormant" /\ sweeping' = "off"
       \/ Resumable /\ sweeping' = "on"
    /\ UNCHANGED <<standing, place, atTuma, creations, inFlight, saving, linking, paying, lost>>
SweepDone ==
    /\ sweeping # "idle" /\ sweeping' = "idle" /\ TumaTold(sweeping)
    /\ place' = IF sweeping = "on" THEN Resumed
                ELSE IF place.active THEN [place EXCEPT !.active = FALSE, !.ended = TRUE] ELSE place
    /\ UNCHANGED <<standing, creations, inFlight, saving, linking, paying, lost>>

\* pushTenantPrompt: an account that is due to be on is switched on first.
PromptStart ==
    /\ paying = "idle"
    /\ paying' = IF Resumable THEN "resuming" ELSE "pushing"
    /\ UNCHANGED <<standing, place, atTuma, creations, inFlight, saving, linking, sweeping, lost>>
PromptResumes ==
    /\ paying = "resuming" /\ paying' = "pushing" /\ TumaTold("on")
    /\ place' = Resumed
    /\ UNCHANGED <<standing, creations, inFlight, saving, linking, sweeping, lost>>
PromptGoes ==
    /\ paying = "pushing" /\ paying' = "idle"
    /\ UNCHANGED <<standing, place, atTuma, creations, inFlight, saving, linking, sweeping, lost>>

PySweep == SweepReads \/ SweepDone
PyNext ==
    \/ StandingChanges \/ NextDay \/ LinkStart \/ Disconnect \/ PySweep
    \/ PromptStart \/ PromptResumes \/ PromptGoes
    \/ \E s \in PySaves : SaveStart(s) \/ SaveReads(s) \/ SaveRefused(s) \/ SaveCreated(s) \/ SaveInserts(s)
    \/ \E s \in PySaves, done \in BOOLEAN : SaveUpdated(s, done) \/ SaveNotCreated(s, done)
    \/ \E ok \in BOOLEAN : LinkDone(ok)

PySpec == PyInit /\ [][PyNext]_pyVars

-----------------------------------------------------------------------------

\* "Guards against a double-click creating two Tuma businesses for one
\* tenant": while every creation at Tuma was answered the tenant has one at
\* most, whatever is saved, linked, disconnected or switched off meanwhile.
OneTumaAccount == ~lost => Cardinality(Created) <= 1

\* A tenant who has a trial or a plan again gets a payout account that was
\* switched off back, also when no customer pays meanwhile.
EntitledGetsAccountBack ==
    (Suspended /\ standing = "entitled") ~> ~(Suspended /\ standing = "entitled")
=============================================================================
