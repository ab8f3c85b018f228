---------------------------- MODULE PppoeBilling ----------------------------
(***************************************************************************)
(* Prepaid PPPoE subscribers of one business (src/src/lib/pppoe-billing.js *)
(* with the job table of pppoe.js): money becomes credit, credit becomes   *)
(* days, days become a cut-off date, and every change that the router must *)
(* know of queues a job.  Time is counted in days from 1; 0 is SQL's NULL  *)
(* in a date column.  All subscribers have a router.                       *)
(***************************************************************************)
EXTENDS Integers, Sequences, FiniteSets, FiniteSetsExt

CONSTANTS
    Users,       \* subscribers
    Plans,       \* PPPoE profiles
    Price,       \* KES per period of a plan; 0: the owner set no price
    BoostPrice,  \* KES of a 24-hour boost on a plan; 0: not offered
    Period,      \* days a period lasts (period_days, the same for all plans)
    Graces,      \* values of the owner's grace setting
    DefaultGrace,\* the value a business starts with
    Amounts,     \* sums customers send
    InstallFee,  \* installation fee of a new subscriber
    MaxTime,     \* bound: the clock stops here
    MaxPayments, \* bound: rows not made by a transaction stop here
    MaxPrompts,  \* bound: transactions in tenant_transactions
    MaxEdits     \* bound: edits of the owner and the operator

NoPlan == "none"
NoTime == 0

ASSUME PppoeAssumption ==
    /\ NoPlan \notin Plans /\ Plans # {}
    /\ Price \in [Plans -> Nat] /\ BoostPrice \in [Plans -> Nat]
    /\ Period \in Nat \ {0} /\ Graces \subseteq Nat /\ DefaultGrace \in Graces
    /\ Amounts \subseteq Nat \ {0} /\ InstallFee \in Nat
    /\ MaxTime \in Nat /\ MaxPayments \in Nat /\ MaxPrompts \in Nat /\ MaxEdits \in Nat

VARIABLES
    now,       \* the day
    serves,    \* ownerCanServe: the owner's own PPPoE plan is usable
    grace,     \* pppoe_billing_settings.grace_days
    acct,      \* pppoe_users
    payments,  \* pppoe_payments, in insertion order
    txs,       \* tenant_transactions of PPPoE payments with their intents
    jobs,      \* pppoe_jobs: one row per subscriber and action
    edits      \* edits of the owner and the operator so far

billingVars == <<now, serves, grace, acct, payments, txs, jobs, edits>>

Statuses == {"new", "awaiting_payment", "active", "expired", "disabled"}
Subscriber == [status: Statuses, credit: Nat, install: Nat, paid: Nat, expires: Nat,
               plan: Plans, next: Plans \cup {NoPlan},
               boost: Plans \cup {NoPlan}, boostEnd: Nat, locked: Nat]
Row == [user: Users, kind: {"pay", "upgrade", "boost", "extension"}, amount: Nat,
        receipt: Nat, tx: Nat, toInstall: Nat, days: Nat,
        creditBefore: Nat, creditAfter: Nat,
        planBefore: Plans, planAfter: Plans, boostBefore: Nat,
        held: BOOLEAN, reversed: BOOLEAN]
Transaction == [user: Users, source: {"stk", "c2b"}, purpose: {"pay", "upgrade", "boost"},
                target: Plans \cup {NoPlan}, amount: Nat, fromCredit: Nat,
                status: {"pending", "paid", "failed", "reversed"},
                receiptKnown: BOOLEAN, provisioned: BOOLEAN]
Job == [status: {"none", "queued", "delivered", "acked", "failed"},
        attempts: Nat, kick: BOOLEAN, waiting: BOOLEAN]
JobActions == {"upsert", "revoke"}

Billed(p) == p \in Plans /\ Price[p] > 0
Least(x, y) == IF x <= y THEN x ELSE y

----------------------------------------------------------------------------
(* Where a subscriber stands                                               *)

PaidUntilOf(a) == IF a.paid # NoTime THEN a.paid ELSE a.expires
RenewalPlan(a) == IF Billed(a.next) THEN a.next ELSE a.plan

\* Grace counts only once the subscriber is billed: an expiry set by the owner
\* before billing is a hard cut-off.
GraceOf(a) == IF a.paid # NoTime THEN grace ELSE 0
Expired(a) == a.expires # NoTime /\ a.expires <= now
AccessUntil(a) == PaidUntilOf(a) + GraceOf(a)

\* paid or due: the states a plan change or a boost may start from.
PaidUp(a) == a.status # "disabled" /\ PaidUntilOf(a) > now
NeedsDays(a) ==
    \/ a.status = "awaiting_payment" /\ PaidUntilOf(a) = NoTime
    \/ PaidUntilOf(a) = NoTime
    \/ PaidUntilOf(a) - now <= 1

----------------------------------------------------------------------------
(* Router jobs                                                             *)

NoJob == [status |-> "none", attempts |-> 0, kick |-> FALSE, waiting |-> FALSE]
Queued(kick) == [status |-> "queued", attempts |-> 0, kick |-> kick, waiting |-> FALSE]

\* The row jobFor leaves for one action: a queued job only learns that it must
\* reconnect, a delivered one is left alone unless it must, anything else is
\* queued afresh.
Requeued(j, kick) ==
    CASE j.status = "queued" -> [j EXCEPT !.kick = @ \/ kick]
      [] j.status = "delivered" /\ ~kick -> j
      [] OTHER -> Queued(kick)
JobFor(js, a, action, kick) ==
    LET real == IF Expired(a) THEN "revoke" ELSE action
    IN  [js EXCEPT ![real] = Requeued(@, kick)]

----------------------------------------------------------------------------
(* applyPayment                                                            *)

\* Money or days on their way to a subscriber.
Money(purpose, target, amount, expected, fromCredit, days) ==
    [purpose |-> purpose, target |-> target, amount |-> amount,
     expected |-> expected, fromCredit |-> fromCredit, days |-> days]
Plain(amount) == Money("pay", NoPlan, amount, 0, 0, 0)

\* Days go on from paid_until while access lasts, and start today otherwise.
RenewFrom(a, paidUntil) ==
    IF paidUntil # NoTime /\ paidUntil + GraceOf(a) > now THEN paidUntil ELSE now

\* convertCredit: as many whole periods as the credit covers.  After the first,
\* the plan booked for the renewal is the plan, so every period has one price.
ConvertLimit == 24
PeriodsIn(a) ==
    IF Billed(RenewalPlan(a)) THEN Least(ConvertLimit, a.credit \div Price[RenewalPlan(a)]) ELSE 0

\* Mutant of Converted: the periods are given and the credit stays.
ConvertedKeepsCredit(a) ==
    IF PeriodsIn(a) = 0 THEN a
    ELSE [a EXCEPT !.paid = RenewFrom(a, PaidUntilOf(a)) + PeriodsIn(a) * Period,
                   !.plan = RenewalPlan(a), !.next = NoPlan]
Converted(a) ==
    LET n == PeriodsIn(a)
    IN  IF n = 0 THEN a
        ELSE [a EXCEPT !.credit = @ - n * Price[RenewalPlan(a)],
                       !.paid = RenewFrom(a, PaidUntilOf(a)) + n * Period,
                       !.plan = RenewalPlan(a), !.next = NoPlan]

TakesUpgrade(a, m) ==
    /\ m.purpose = "upgrade" /\ serves /\ m.target \in Plans
    /\ m.amount >= m.expected
    /\ a.credit + m.amount - m.expected >= m.fromCredit
TakesBoost(a, m) ==
    /\ m.purpose = "boost" /\ serves /\ m.target \in Plans
    /\ BoostPrice[m.target] > 0 /\ m.amount >= BoostPrice[m.target]

Kind(a, m) ==
    IF m.purpose = "extension" \/ TakesUpgrade(a, m) \/ TakesBoost(a, m) THEN m.purpose ELSE "pay"
ToInstall(a, m) == IF Kind(a, m) = "pay" THEN Least(a.install, m.amount) ELSE 0
AsCredit(a, m) ==
    [a EXCEPT !.install = @ - ToInstall(a, m), !.credit = @ + m.amount - ToInstall(a, m)]
ConvertsNow(a, m) == serves /\ AsCredit(a, m).install = 0
DaysAdded(a, m) ==
    CASE Kind(a, m) = "extension" -> m.days
      [] Kind(a, m) = "pay" /\ ConvertsNow(a, m) -> Period * PeriodsIn(AsCredit(a, m))
      [] OTHER -> 0

\* The account with the money in it, before the cut-off and the status follow.
Effect(a, m) ==
    CASE Kind(a, m) = "extension" ->
            [a EXCEPT !.paid = RenewFrom(a, PaidUntilOf(a)) + m.days]
      [] Kind(a, m) = "upgrade" ->
            [a EXCEPT !.credit = @ + m.amount - m.expected - m.fromCredit,
                      !.plan = m.target, !.next = NoPlan]
      [] Kind(a, m) = "boost" ->
            [a EXCEPT !.credit = @ + m.amount - BoostPrice[m.target],
                      !.boost = m.target,
                      !.boostEnd = (IF a.boost = m.target /\ a.boostEnd > now THEN a.boostEnd ELSE now) + 1]
      [] OTHER -> IF ConvertsNow(a, m) THEN Converted(AsCredit(a, m)) ELSE AsCredit(a, m)

\* Mutant of WithCutOff: the grace days are taken out of the paid ones.
GraceInside(b, paidUntil) ==
    [b EXCEPT !.paid = IF paidUntil = NoTime THEN NoTime ELSE paidUntil - grace, !.expires = paidUntil]
WithCutOff(b, paidUntil) ==
    [b EXCEPT !.paid = paidUntil, !.expires = IF paidUntil = NoTime THEN NoTime ELSE paidUntil + grace]
Applied(a, m) ==
    LET e == Effect(a, m)
        b == WithCutOff(e, PaidUntilOf(e))
    IN  IF /\ b.status # "disabled" /\ b.expires > now
           /\ DaysAdded(a, m) > 0 \/ b.status \in {"awaiting_payment", "expired"} \/ m.purpose # "pay"
        THEN [b EXCEPT !.status = "active"] ELSE b

WasCutOff(a) == a.status = "expired" \/ (PaidUntilOf(a) # NoTime /\ AccessUntil(a) <= now)
Kicks(a, m) ==
    Kind(a, m) \in {"upgrade", "boost"} \/ Applied(a, m).plan # a.plan \/ WasCutOff(a)

NewRow(u, m, receipt, tx) ==
    LET a == acct[u] b == Applied(a, m)
    IN  [user |-> u, kind |-> Kind(a, m), amount |-> m.amount, receipt |-> receipt, tx |-> tx,
         toInstall |-> ToInstall(a, m), days |-> DaysAdded(a, m),
         creditBefore |-> a.credit, creditAfter |-> b.credit,
         planBefore |-> a.plan, planAfter |-> b.plan, boostBefore |-> a.boostEnd,
         held |-> ~serves /\ m.amount > 0 /\ m.purpose # "extension", reversed |-> FALSE]

ApplyPayment(u, m, receipt, tx) ==
    LET a == acct[u] b == Applied(a, m)
    IN  /\ acct' = [acct EXCEPT ![u] = b]
        /\ payments' = Append(payments, NewRow(u, m, receipt, tx))
        /\ jobs' = IF b.status = "active" /\ (DaysAdded(a, m) > 0 \/ Kicks(a, m))
                   THEN [jobs EXCEPT ![u] = JobFor(@, b, "upsert", Kicks(a, m))] ELSE jobs

HasCheckout(tx) == \E i \in DOMAIN payments : payments[i].tx = tx
HasReceipt(r) == r # 0 /\ \E i \in DOMAIN payments : payments[i].receipt = r
Room == Len(payments) < MaxPayments

----------------------------------------------------------------------------
(* Subscribers                                                             *)

NewSubscriber == [status |-> "new", credit |-> 0, install |-> 0, paid |-> NoTime,
                  expires |-> NoTime, plan |-> CHOOSE p \in Plans : TRUE, next |-> NoPlan,
                  boost |-> NoPlan, boostEnd |-> NoTime, locked |-> NoTime]

\* userCreate and setupNewSubscriber: on a priced plan a date the owner gives is
\* "paid until", and without one the subscriber waits for the first payment.
Create(u, p, until) ==
    /\ acct[u].status = "new" /\ serves
    /\ until = NoTime \/ until > now
    /\ acct' = [acct EXCEPT ![u] =
         [@ EXCEPT !.plan = p, !.install = InstallFee,
                   !.status = IF Billed(p) /\ until = NoTime THEN "awaiting_payment" ELSE "active",
                   !.paid = IF Billed(p) THEN until ELSE NoTime,
                   !.expires = IF Billed(p) /\ until # NoTime THEN until + grace ELSE until]]
    /\ UNCHANGED <<now, serves, grace, payments, txs, jobs>>

Exists(u) == acct[u].status # "new"

\* The owner (re)sends the login; pppoeAddBlock lets it only while their plan runs.
Provision(u) ==
    /\ Exists(u) /\ serves
    /\ jobs' = [jobs EXCEPT ![u] = JobFor(@, acct[u], "upsert", FALSE)]
    /\ UNCHANGED <<now, serves, grace, acct, payments, txs>>

\* updateSubscriber: another plan at once.
MoveToPlan(u, p) ==
    /\ Exists(u) /\ p # acct[u].plan
    /\ acct' = [acct EXCEPT ![u].plan = p]
    /\ jobs' = IF acct[u].status = "active"
               THEN [jobs EXCEPT ![u] = JobFor(@, acct[u], "upsert", TRUE)] ELSE jobs
    /\ UNCHANGED <<now, serves, grace, payments, txs>>

\* scheduleChange, by the owner or by the subscriber's "from the next renewal".
BookPlan(u, p) ==
    /\ Exists(u) /\ Billed(p)
    /\ acct' = [acct EXCEPT ![u].next = IF p = acct[u].plan THEN NoPlan ELSE p]
    /\ UNCHANGED <<now, serves, grace, payments, txs, jobs>>

Lock(u) ==
    /\ Exists(u) /\ acct[u].locked = NoTime
    /\ acct' = [acct EXCEPT ![u].locked = now + 1]
    /\ jobs' = [jobs EXCEPT ![u] = JobFor(@, acct[u], "revoke", FALSE)]
    /\ UNCHANGED <<now, serves, grace, payments, txs>>
Unlock(u) ==
    /\ acct[u].locked # NoTime
    /\ acct' = [acct EXCEPT ![u].locked = NoTime]
    /\ jobs' = [jobs EXCEPT ![u] = JobFor(@, acct[u], "upsert", FALSE)]
    /\ UNCHANGED <<now, serves, grace, payments, txs>>

\* The platform's operator switches a subscriber off and on again.
AdminToggle(u) ==
    LET on == acct[u].status # "active"
        action == IF on THEN "upsert" ELSE "revoke"
    IN  /\ Exists(u)
        /\ acct' = [acct EXCEPT ![u].status = IF on THEN "active" ELSE "disabled"]
        /\ jobs' = [jobs EXCEPT ![u][action] = Queued(@.kick)]
        /\ UNCHANGED <<now, serves, grace, payments, txs>>

\* A new grace length moves every billed cut-off, and switches back on whoever
\* is inside the longer grace again.
Regraced(a, g) ==
    IF a.paid = NoTime \/ a.status \notin {"active", "expired"} THEN a
    ELSE [a EXCEPT !.expires = a.paid + g,
                   !.status = IF a.paid + g > now THEN "active" ELSE @]
SetGrace(g) ==
    /\ g \in Graces \ {grace}
    /\ grace' = g
    /\ acct' = [u \in Users |-> Regraced(acct[u], g)]
    /\ jobs' = [u \in Users |->
                  IF acct[u].status = "expired" /\ acct'[u].status = "active"
                  THEN JobFor(jobs[u], acct'[u], "upsert", TRUE) ELSE jobs[u]]
    /\ UNCHANGED <<now, serves, payments, txs>>

\* The owner's own plan lapses or is renewed (service-billing.js).
OwnerPlanChanges ==
    /\ serves' = ~serves
    /\ UNCHANGED <<now, grace, acct, payments, txs, jobs>>

----------------------------------------------------------------------------
(* Money                                                                   *)

\* What an upgrade now costs: the difference in daily price for the days left.
DaysLeft(a) == PaidUntilOf(a) - now
Difference(a, p) ==
    IF Billed(a.plan) THEN ((Price[p] - Price[a.plan]) * DaysLeft(a)) \div Period ELSE 0
UpgradeAllowed(a, p) == Billed(p) /\ PaidUp(a) /\ (Billed(a.plan) => Price[p] > Price[a.plan])
BoostAllowed(a, p) ==
    /\ BoostPrice[p] > 0 /\ p # a.plan /\ a.status # "awaiting_payment" /\ a.status # "disabled"
    /\ Billed(a.plan) /\ Billed(p) => Price[p] > Price[a.plan]
    /\ PaidUntilOf(a) = NoTime \/ PaidUntilOf(a) > now

Pending(u, source, purpose, target, amount, fromCredit) ==
    [user |-> u, source |-> source, purpose |-> purpose, target |-> target,
     amount |-> amount, fromCredit |-> fromCredit, status |-> "pending",
     receiptKnown |-> FALSE, provisioned |-> FALSE]

\* The pay page's prompt.  The quote is what the intent remembers; what happens
\* between the quote and the money happens between this step and Bank.
Prompt(u, purpose, target, sum) ==
    LET a == acct[u]
        diff == IF purpose = "upgrade" THEN Difference(a, target) ELSE 0
        credit == Least(a.credit, diff)
        quoted == CASE purpose = "pay" -> sum
                    [] purpose = "upgrade" -> diff - credit
                    [] OTHER -> BoostPrice[target]
    IN  /\ Exists(u) /\ serves /\ Billed(RenewalPlan(a)) /\ Len(txs) < MaxPrompts
        /\ purpose = "upgrade" => target # a.plan /\ UpgradeAllowed(a, target)
        /\ purpose = "boost" => BoostAllowed(a, target)
        /\ quoted > 0
        /\ txs' = Append(txs, Pending(u, "stk", purpose, target, quoted, credit))
        /\ UNCHANGED <<now, serves, grace, acct, payments, jobs>>

\* An upgrade that the credit covers needs no prompt.
UpgradeFromCredit(u, p) ==
    LET a == acct[u] IN
    /\ Room /\ Exists(u) /\ serves /\ p # a.plan /\ UpgradeAllowed(a, p)
    /\ a.credit >= Difference(a, p)
    /\ ApplyPayment(u, Money("upgrade", p, 0, 0, Difference(a, p), 0), 0, 0)
    /\ UNCHANGED <<now, serves, grace, txs>>

\* settleTransaction: idempotent by checkout and by receipt.
Settle(t, receiptKnown) ==
    LET x == txs[t]
        receipt == IF receiptKnown THEN t ELSE 0
    IN  IF HasCheckout(t) \/ HasReceipt(receipt) THEN UNCHANGED <<acct, payments, jobs>>
        ELSE ApplyPayment(x.user,
               Money(x.purpose, x.target, x.amount, IF x.source = "stk" THEN x.amount ELSE 0, x.fromCredit, 0),
               receipt, t)

\* How far a handler gets before the process stops: the payment is banked,
\* applied in one transaction, and marked provisioned after that.
Reach == {"banked", "applied", "done"}

\* M-Pesa took the money; a query of the checkout does not say the receipt.
Bank(t, receiptKnown, reach) ==
    /\ txs[t].status = "pending"
    /\ txs' = [txs EXCEPT ![t].status = "paid", ![t].receiptKnown = receiptKnown,
                          ![t].provisioned = (reach = "done")]
    /\ IF reach = "banked" THEN UNCHANGED <<acct, payments, jobs>> ELSE Settle(t, receiptKnown)
    /\ UNCHANGED <<now, serves, grace>>
\* The prompt was declined: nothing was taken, so no receipt exists.
Decline(t) ==
    /\ txs[t].status = "pending" /\ ~HasReceipt(t)
    /\ txs' = [txs EXCEPT ![t].status = "failed"]
    /\ UNCHANGED <<now, serves, grace, acct, payments, jobs>>

\* The status page or the sweep's backlog settles what a handler left.
SettleAgain(t) ==
    /\ txs[t].status = "paid" /\ ~txs[t].provisioned
    /\ txs' = [txs EXCEPT ![t].provisioned = TRUE]
    /\ Settle(t, txs[t].receiptKnown)
    /\ UNCHANGED <<now, serves, grace>>

\* PayBill with the username as account number; it arrives also while the
\* owner's plan has lapsed.
PayBill(u, amount, reach) ==
    /\ Exists(u) /\ Len(txs) < MaxPrompts
    /\ LET t == Len(txs) + 1 IN
        /\ txs' = Append(txs, [Pending(u, "c2b", "pay", NoPlan, amount, 0)
                        EXCEPT !.status = "paid", !.receiptKnown = TRUE, !.provisioned = (reach = "done")])
        /\ IF reach = "banked" THEN UNCHANGED <<acct, payments, jobs>>
           ELSE ApplyPayment(u, Plain(amount), t, t)
    /\ UNCHANGED <<now, serves, grace>>

\* Money the owner records, with the receipt the customer shows them if any.
RecordPayment(u, amount, receipt) ==
    /\ Exists(u) /\ Room
    /\ receipt # 0 => receipt \in DOMAIN txs /\ txs[receipt].amount = amount
                      /\ txs[receipt].status \in {"pending", "paid"}
                      /\ ~(txs[receipt].receiptKnown \/ HasReceipt(receipt))
    /\ ApplyPayment(u, Plain(amount), receipt, 0)
    /\ UNCHANGED <<now, serves, grace, txs>>

Extend(u, days) ==
    /\ Exists(u) /\ Room
    /\ ApplyPayment(u, Money("extension", NoPlan, 0, 0, 0, days), 0, 0)
    /\ UNCHANGED <<now, serves, grace, txs>>

\* reversePayment: the days and the credit are taken back, the fee is due again.
Reversed(a, row) ==
    LET paid == IF PaidUntilOf(a) = NoTime THEN NoTime ELSE PaidUntilOf(a) - row.days
        back == a.credit - (row.creditAfter - row.creditBefore)
        b == WithCutOff(
               [a EXCEPT !.credit = IF back > 0 THEN back ELSE 0,
                         !.install = @ + row.toInstall,
                         !.plan = IF row.kind = "upgrade" /\ a.plan = row.planAfter THEN row.planBefore ELSE @,
                         !.boostEnd = IF row.kind = "boost" THEN row.boostBefore ELSE @,
                         !.boost = IF row.kind = "boost" /\ row.boostBefore = NoTime THEN NoPlan ELSE @],
               paid)
    IN  IF Expired(b) /\ b.status = "active" THEN [b EXCEPT !.status = "expired"] ELSE b
Reverse(t) ==
    /\ txs[t].source = "c2b" /\ txs[t].status = "paid"
    /\ txs' = [txs EXCEPT ![t].status = "reversed"]
    /\ IF \E i \in DOMAIN payments : payments[i].receipt = t /\ ~payments[i].reversed
       THEN \E i \in DOMAIN payments :
              LET u == payments[i].user IN
              /\ payments[i].receipt = t
              /\ payments' = [payments EXCEPT ![i].reversed = TRUE]
              /\ acct' = [acct EXCEPT ![u] = Reversed(@, payments[i])]
              /\ jobs' = [jobs EXCEPT ![u] =
                   JobFor(@, acct'[u], IF Expired(acct'[u]) THEN "revoke" ELSE "upsert", ~Expired(acct'[u]))]
       ELSE UNCHANGED <<acct, payments, jobs>>
    /\ UNCHANGED <<now, serves, grace>>

----------------------------------------------------------------------------
(* The ten-minute sweep, subscriber by subscriber                          *)

EndBoost(u) ==
    /\ acct[u].boost # NoPlan /\ acct[u].boostEnd # NoTime /\ acct[u].boostEnd <= now
    /\ acct' = [acct EXCEPT ![u].boost = NoPlan, ![u].boostEnd = NoTime]
    /\ jobs' = IF acct[u].status = "active"
               THEN [jobs EXCEPT ![u] = JobFor(@, acct'[u], "upsert", TRUE)] ELSE jobs
    /\ UNCHANGED <<now, serves, grace, payments, txs>>
RenewFromCredit(u) ==
    LET a == acct[u] IN
    /\ Room /\ serves /\ a.status \in {"active", "expired", "awaiting_payment"} /\ Billed(a.plan)
    /\ NeedsDays(a) /\ a.install = 0 /\ a.credit >= Price[RenewalPlan(a)]
    /\ ApplyPayment(u, Plain(0), 0, 0)
    /\ UNCHANGED <<now, serves, grace, txs>>

Clock ==
    /\ now < MaxTime
    /\ now' = now + 1
    /\ UNCHANGED <<serves, grace, acct, payments, txs, jobs>>

BillingInit ==
    /\ now = 1 /\ serves = TRUE
    /\ grace = DefaultGrace
    /\ acct = [u \in Users |-> NewSubscriber]
    /\ payments = <<>> /\ txs = <<>>
    /\ jobs = [u \in Users |-> [a \in JobActions |-> NoJob]]
    /\ edits = 0

Dates == {NoTime, now + 1}

OwnerEdits ==
    \/ \E u \in Users : Provision(u) \/ Lock(u) \/ Unlock(u) \/ AdminToggle(u)
    \/ \E u \in Users, p \in Plans : MoveToPlan(u, p) \/ BookPlan(u, p)
    \/ \E g \in Graces : SetGrace(g)
    \/ OwnerPlanChanges
OwnerMoney ==
    \/ \E u \in Users, p \in Plans, until \in Dates : Create(u, p, until)
    \/ \E u \in Users, amount \in Amounts, r \in 0..MaxPrompts : RecordPayment(u, amount, r)
    \/ \E u \in Users : Extend(u, 1)
CustomerActs ==
    \/ \E u \in Users, amount \in Amounts : Prompt(u, "pay", NoPlan, amount)
    \/ \E u \in Users, purpose \in {"upgrade", "boost"}, p \in Plans : Prompt(u, purpose, p, 0)
    \/ \E u \in Users, p \in Plans : UpgradeFromCredit(u, p)
    \/ \E u \in Users, amount \in Amounts, reach \in Reach : PayBill(u, amount, reach)
MpesaActs ==
    \/ \E t \in DOMAIN txs, known \in BOOLEAN, reach \in Reach : Bank(t, known, reach)
    \/ \E t \in DOMAIN txs : Decline(t) \/ SettleAgain(t) \/ Reverse(t)
SweepActs == \E u \in Users : EndBoost(u) \/ RenewFromCredit(u)

BillingNext ==
    \/ edits < MaxEdits /\ OwnerEdits /\ edits' = edits + 1
    \/ (OwnerMoney \/ CustomerActs \/ MpesaActs \/ SweepActs \/ Clock) /\ UNCHANGED edits

BillingTypeOK ==
    /\ now \in 1..MaxTime /\ serves \in BOOLEAN /\ grace \in Graces
    /\ acct \in [Users -> Subscriber]
    /\ payments \in Seq(Row) /\ txs \in Seq(Transaction)
    /\ jobs \in [Users -> [JobActions -> Job]]
    /\ edits \in 0..MaxEdits

BillingSpec == BillingInit /\ [][BillingNext]_billingVars

----------------------------------------------------------------------------
(* Properties                                                              *)

RowsOf(u) == {i \in DOMAIN payments : payments[i].user = u}

SumOver(f, rows) == MapThenSumSet(LAMBDA i : f[i], rows)

\* What a row took from the subscriber's credit: whole periods at the price of
\* the plan they run on, an upgrade's difference or a boost's price.
Charge(r) ==
    IF r.kind = "pay" THEN (r.days \div Period) * Price[r.planAfter]
    ELSE r.creditBefore + r.amount - r.creditAfter

MoneyIn == [i \in DOMAIN payments |-> payments[i].amount]
Spent == [i \in DOMAIN payments |-> payments[i].toInstall + Charge(payments[i])]

\* Every shilling that came in is still there as credit, has paid the
\* installation fee or has bought something at its price: applyPayment and
\* convertCredit neither lose nor invent money, in whatever order prompts,
\* PayBill money, recorded payments, upgrades and renewals come.
MoneyAccounted ==
    \A u \in Users : (\A i \in RowsOf(u) : ~payments[i].reversed) =>
        SumOver(MoneyIn, RowsOf(u)) = acct[u].credit + SumOver(Spent, RowsOf(u))

\* Paid days are only ever taken back by a reversal of their payment: no
\* payment, edit, grace change or renewal moves paid_until back.
PaidDaysAreKept ==
    [][\A u \in Users : acct'[u].paid < acct[u].paid =>
         \E t \in DOMAIN txs : txs[t].status = "paid" /\ txs'[t].status = "reversed"]_billingVars
=============================================================================
