---------------------------- MODULE PlatformBilling ----------------------------
(***************************************************************************)
(* What a business pays Wi-Fi Fiti: the free trial, prepaid hotspot and     *)
(* PPPoE capacity, more users in the middle of a period, and the reminders  *)
(* (src/src/lib/service-billing.js, service-reminders.js, the billing       *)
(* routes, callbacks and sweep of src/src/server.js, and                    *)
(* activateBusinessBilling of src/src/lib/tenant.js).  One business; time   *)
(* in days, with the 30, 7 and 3 days of the code as bounds.                *)
(***************************************************************************)
EXTENDS Naturals, FiniteSets, FiniteSetsExt

CONSTANTS
    PbIds,       \* checkout requests, numbered
    PbWants,     \* what the owner may ask for: users of each service
    PbRuns,      \* runs of the reminder job that may overlap
    PbPeriod,    \* days of one payment (periodDays, 30)
    PbTrial,     \* TRIAL_DAYS
    PbGrace,     \* GRACE_DAYS
    PbHorizon,   \* bound: days that pass
    PbPlans      \* bounds: a set of [asks, runs, crashes]

Services == {"hotspot", "pppoe"}
\* Users in steps of the base: two steps of the hotspot's cost the same.
Price(s, n) == IF n = 0 THEN 0 ELSE IF s = "hotspot" /\ n <= 2 THEN 1 ELSE n

ASSUME PlatformAssumption ==
    /\ PbIds \subseteq Nat /\ PbWants \subseteq [Services -> Nat]
    /\ {PbPeriod, PbTrial, PbGrace, PbHorizon} \subseteq Nat /\ PbPeriod > 0
    /\ PbPlans \subseteq [asks : Nat, runs : Nat, crashes : Nat]

VARIABLES
    pbNow,     \* today
    trial,     \* billing_expires_at of the trial
    service,   \* [ends, users] of each service on the businesses row; 0 is NULL
    bill,      \* business_billing_transactions, and the customer's phone
    job,       \* runs of the reminder job: [todo, sending]
    claimed,   \* business_billing_reminders
    told,      \* how often each reminder was sent
    cover,     \* [served, paid]: days a service was given, and its payments
    pbLeft     \* bounds not yet used

pbVars == <<pbNow, trial, service, bill, job, claimed, told, cover, pbLeft>>
businessRow == <<trial, service, cover>>
reminderVars == <<job, claimed, told>>

NoBill == [row |-> "none", kind |-> "none", want |-> [s \in Services |-> 0], via |-> "none",
           recent |-> FALSE, payer |-> "none", activated |-> FALSE]
NoJob == [todo |-> {}, sending |-> {}]

PbInit ==
    /\ pbNow = 0 /\ trial = PbTrial
    /\ service = [s \in Services |-> [ends |-> 0, users |-> 0]]
    /\ cover = [s \in Services |-> [served |-> 0, paid |-> 0]]
    /\ bill = [i \in PbIds |-> NoBill]
    /\ job = [r \in PbRuns |-> NoJob] /\ claimed = {} /\ told = <<>>
    /\ pbLeft \in PbPlans

-----------------------------------------------------------------------------
(* service-billing.js *)

PeriodState(ends) == IF ends = 0 THEN "none" ELSE IF pbNow < ends THEN "active"
                     ELSE IF pbNow < ends + PbGrace THEN "grace" ELSE "expired"
TrialRuns == pbNow < trial

\* upgradeQuote: only for a period that is paid, only upwards, at the price
\* difference for the days left, and never more than one period's.
MoreUsers(want) == {s \in Services : want[s] > service[s].users}
CanUpgrade(want) ==
    MoreUsers(want) # {} /\ \A s \in MoreUsers(want) : PeriodState(service[s].ends) = "active"
Difference(s, want) == Price(s, want[s]) - Price(s, service[s].users)
UpgradeIsFree(want) == \A s \in MoreUsers(want) : Difference(s, want) = 0

Raised(want) == [s \in Services |->
    [service[s] EXCEPT !.users = IF want[s] > @ THEN want[s] ELSE @]]

-----------------------------------------------------------------------------
(* Checkouts: the prompt goes out first and the row is written when the    *)
(* provider has answered.                                                   *)

RecentPending == \E i \in PbIds : bill[i].row = "pending" /\ bill[i].recent
CheckoutFits(kind, want) ==
    /\ \E s \in Services : want[s] > 0
    /\ kind = "upgrade" => CanUpgrade(want) /\ ~UpgradeIsFree(want)

Checkout(i, kind, want, via) ==
    /\ pbLeft.asks > 0 /\ bill[i] = NoBill /\ \A j \in PbIds : j < i => bill[j] # NoBill
    /\ CheckoutFits(kind, want) /\ ~RecentPending
    /\ bill' = [bill EXCEPT ![i] =
          [NoBill EXCEPT !.row = "asked", !.kind = kind, !.via = via, !.payer = "prompted",
             !.want = [s \in Services |->
                IF kind = "services" \/ s \in MoreUsers(want) THEN want[s] ELSE 0]]]
    /\ pbLeft' = [pbLeft EXCEPT !.asks = @ - 1]
    /\ UNCHANGED <<pbNow, businessRow, reminderVars>>

RecordPlatformBilling(i) ==
    /\ bill[i].row = "asked"
    /\ bill' = [bill EXCEPT ![i].row = "pending", ![i].recent = TRUE]
    /\ UNCHANGED <<pbNow, businessRow, reminderVars, pbLeft>>

FreeUpgrade(want) ==
    /\ CanUpgrade(want) /\ UpgradeIsFree(want)
    /\ service' = Raised(want)
    /\ UNCHANGED <<pbNow, trial, cover, bill, reminderVars, pbLeft>>

\* Three minutes after the row was written another checkout may start.
CheckoutAges(i) ==
    /\ bill[i].recent
    /\ bill' = [bill EXCEPT ![i].recent = FALSE]
    /\ UNCHANGED <<pbNow, businessRow, reminderVars, pbLeft>>

PayerAnswers(i, pays) ==
    /\ bill[i].payer = "prompted"
    /\ bill' = [bill EXCEPT ![i].payer = IF pays THEN "paid" ELSE "refused"]
    /\ UNCHANGED <<pbNow, businessRow, reminderVars, pbLeft>>

-----------------------------------------------------------------------------
(* activateBusinessBilling: grant, new dates and users in one transaction. *)

LaterOf(a, b) == IF a > b THEN a ELSE b

\* Mutant of ServiceExpiry: a renewal starts now.
RenewsFromNow(s) == LaterOf(pbNow, trial) + PbPeriod
\* A service bought during the trial starts when the trial ends.
ServiceExpiry(s) == LaterOf(LaterOf(pbNow, service[s].ends), trial) + PbPeriod

\* The row of business_billing_grants.
Granted(i) == bill[i].activated

ActivateBusinessBilling(i) ==
    LET want == bill[i].want
        bought == {s \in Services : want[s] > 0}
        first(s) == IF bill[i].activated THEN 0 ELSE 1
    IN IF Granted(i) THEN UNCHANGED <<service, cover>>
       ELSE IF bill[i].kind = "upgrade" THEN service' = Raised(want) /\ UNCHANGED cover
       ELSE /\ service' = [s \in Services |-> IF s \in bought
                 THEN [ends |-> ServiceExpiry(s), users |-> want[s]] ELSE service[s]]
            /\ cover' = [s \in Services |-> IF s \in bought
                 THEN [cover[s] EXCEPT !.paid = @ + first(s)] ELSE cover[s]]

SetPaid(i, done) ==
    /\ bill' = [bill EXCEPT ![i].row = "paid", ![i].recent = FALSE, ![i].activated = @ \/ done]
    /\ IF done THEN ActivateBusinessBilling(i) ELSE UNCHANGED <<service, cover>>
SetFailed(i) ==
    /\ bill' = [bill EXCEPT ![i].row = IF @ = "paid" THEN @ ELSE "failed", ![i].recent = FALSE]
    /\ UNCHANGED <<service, cover>>

\* setBusinessBillingResult never takes "paid" back.  Activation may fail, or
\* the process stop before it: then done is FALSE.
SettleBilling(i, done) ==
    /\ IF bill[i].payer = "paid" THEN SetPaid(i, done) ELSE SetFailed(i)
    /\ UNCHANGED <<pbNow, trial, reminderVars, pbLeft>>

\* The callback says how the prompt ended.  Daraja's is checked by a query and
\* its row was read before that, so it may settle what is settled already;
\* Tuma's ignores a paid row.  A row that is not there yet is not found.
BillingCallback(i, done) ==
    /\ bill[i].row \in {"pending", "paid", "failed"} /\ bill[i].payer # "prompted"
    /\ bill[i].via = "tuma" => bill[i].row # "paid"
    /\ SettleBilling(i, done)

\* Mutant of SweepDue: only rows that are pending are looked for.
SweepPendingOnly(i) == bill[i].row = "pending" /\ bill[i].via = "daraja" /\ bill[i].payer # "prompted"
\* What the sweep finds: pending rows Daraja can answer for, and payments
\* that were not activated.
SweepDue(i) ==
    \/ bill[i].row = "pending" /\ bill[i].via = "daraja" /\ bill[i].payer # "prompted"
    \/ bill[i].row = "paid" /\ ~bill[i].activated
SweepBilling(i, done) == SweepDue(i) /\ SettleBilling(i, done)

\* Without Tuma's callback the sweep gives the payment up after an hour.
GiveUpOnTuma(i) ==
    /\ bill[i].row = "pending" /\ bill[i].via = "tuma"
    /\ SetFailed(i)
    /\ UNCHANGED <<pbNow, trial, reminderVars, pbLeft>>

-----------------------------------------------------------------------------
(* service-reminders.js: hourly, on a snapshot of the businesses row. *)

Stage(ends) == IF pbNow < ends THEN "before" ELSE IF pbNow < ends + PbGrace THEN "grace" ELSE "stopped"
TrialStage == IF pbNow < trial THEN "before" ELSE "ended"
Due ==
    (IF pbNow + PbGrace >= trial THEN {<<"trial", trial, TrialStage>>} ELSE {}) \cup
    {<<s, service[s].ends, Stage(service[s].ends)>> :
        s \in {x \in Services : service[x].ends > 0 /\ pbNow + PbGrace >= service[x].ends}}

RemindersRun(r) ==
    /\ pbLeft.runs > 0 /\ job[r] = NoJob /\ Due # {}
    /\ job' = [job EXCEPT ![r].todo = Due]
    /\ pbLeft' = [pbLeft EXCEPT !.runs = @ - 1]
    /\ UNCHANGED <<pbNow, businessRow, bill, claimed, told>>

\* "Claim first so two overlapping runs never double-send."
ClaimReminder(r, key) ==
    /\ key \in job[r].todo /\ job[r].sending = {}
    /\ job' = [job EXCEPT ![r].todo = @ \ {key}, ![r].sending = {key} \ claimed]
    /\ claimed' = claimed \cup {key}
    /\ UNCHANGED <<pbNow, businessRow, bill, told, pbLeft>>

Times(key) == IF key \in DOMAIN told THEN told[key] ELSE 0
Deliver(r) ==
    /\ job[r].sending # {}
    /\ \E key \in job[r].sending :
          /\ told' = [k \in DOMAIN told \cup {key} |-> Times(k) + IF k = key THEN 1 ELSE 0]
          /\ claimed' = claimed \cup {key}
    /\ job' = [job EXCEPT ![r].sending = {}]
    /\ UNCHANGED <<pbNow, businessRow, bill, pbLeft>>

-----------------------------------------------------------------------------

\* The process stops: prompts without a row and unsent reminders are lost.
PlatformRestarts ==
    /\ pbLeft.crashes > 0
    /\ pbLeft' = [pbLeft EXCEPT !.crashes = @ - 1]
    /\ bill' = [i \in PbIds |-> IF bill[i].row = "asked" THEN [bill[i] EXCEPT !.row = "lost"] ELSE bill[i]]
    /\ job' = [r \in PbRuns |-> NoJob]
    /\ UNCHANGED <<pbNow, businessRow, claimed, told>>

\* The trial guard ends the trial of somebody who had one before.
TrialEndsEarly ==
    /\ TrialRuns
    /\ trial' = pbNow
    /\ UNCHANGED <<pbNow, service, cover, bill, reminderVars, pbLeft>>

\* The sweep runs every minute and looks back two hours (24 for a payment
\* that is not activated), and a prompt dies within minutes: no day passes
\* while one of them is open.
Settled == \A i \in PbIds : bill[i].payer # "prompted" /\ ~SweepDue(i)
PbTick ==
    /\ pbNow < PbHorizon /\ Settled
    /\ pbNow' = pbNow + 1
    /\ cover' = [s \in Services |-> IF ~TrialRuns /\ pbNow < service[s].ends
                   THEN [cover[s] EXCEPT !.served = @ + 1] ELSE cover[s]]
    /\ UNCHANGED <<trial, service, bill, reminderVars, pbLeft>>

PbNext ==
    \/ \E i \in PbIds, kind \in {"services", "upgrade"}, via \in {"tuma", "daraja"},
          want \in PbWants : Checkout(i, kind, want, via)
    \/ \E want \in PbWants : FreeUpgrade(want)
    \/ \E i \in PbIds : RecordPlatformBilling(i) \/ CheckoutAges(i) \/ GiveUpOnTuma(i)
    \/ \E i \in PbIds, b \in BOOLEAN : PayerAnswers(i, b) \/ BillingCallback(i, b) \/ SweepBilling(i, b)
    \/ \E r \in PbRuns : RemindersRun(r) \/ Deliver(r) \/ \E key \in job[r].todo : ClaimReminder(r, key)
    \/ PlatformRestarts \/ TrialEndsEarly \/ PbTick

PbSpec == PbInit /\ [][PbNext]_pbVars

-----------------------------------------------------------------------------

\* Every payment for a service gives it one period, no day less and no day
\* twice, whoever settles it and however often: the days it was served and the
\* days that remain are the days paid for (and those by which the trial was
\* cut short, when the service was bought to start after it).
Remaining(s) == IF service[s].ends > LaterOf(pbNow, trial)
                THEN service[s].ends - LaterOf(pbNow, trial) ELSE 0
PaidDaysAreGiven ==
    \A s \in Services :
        LET days == cover[s].served + Remaining(s)
        IN PbPeriod * cover[s].paid <= days /\ days <= PbPeriod * cover[s].paid + PbTrial

\* A prompt that was written down and paid through Daraja is activated in the
\* end, also when its callback never comes or the activation fails at first.
PlatformPaymentActivates ==
    \A i \in PbIds :
        (bill[i].row \notin {"none", "asked", "lost"} /\ bill[i].via = "daraja" /\ bill[i].payer = "paid")
            ~> bill[i].activated
=============================================================================
