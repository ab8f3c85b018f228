--------------------------- MODULE TenantPayments ---------------------------
(***************************************************************************)
(* Payments for packages at one location, from the M-Pesa prompt to the    *)
(* package.  Three handlers learn about a payment on their own: Daraja's   *)
(* callback, the customer's status page, and the reconciliation sweep.     *)
(* Each asks Daraja and goes on when the answer comes, so each acts on an  *)
(* answer that other handlers may have overtaken; each then banks the      *)
(* payment (setTransactionResult) and switches the package on              *)
(* (provisionTenantPayment), in two database transactions.                 *)
(*                                                                         *)
(* A checkout's `age` is a class of time since the row was created:        *)
(*    0  just prompted: no status query yet, no second prompt allowed      *)
(*    1  status queries run, a failure answer is not final                 *)
(*    2  QUERY_FAILURE_AFTER_MS is over: a failure answer is final         *)
(*    3  Tuma: an hour without a callback; Daraja: two hours, not swept    *)
(***************************************************************************)
EXTENDS Subscriptions

CONSTANTS
    Checkouts,    \* checkout request ids: one per payment
    Rails,        \* the rails each payment may take
    Seconds,      \* length of the package sold
    SlowAnswers,  \* TRUE: an answer may still be on its way when the age class changes
    MaxCrashes    \* bound on server restarts

VARIABLES
    tx,         \* tenant_transactions joined with its claim and grant rows
    age,        \* age class of each row
    money,      \* at M-Pesa: what happened to the customer's money
    asked,      \* status queries on their way, by handler
    sweep,      \* the reconciliation sweep
    credits,    \* history: grants made for each payment
    crashes     \* bound: restarts so far

payVars == <<tables, tx, age, money, asked, sweep, credits, crashes>>

ASSUME PaymentsAssumption ==
    /\ Rails \in [Checkouts -> SUBSET {"daraja", "tuma", "c2b"}]
    /\ Seconds \in Nat \ {0}
    /\ SlowAnswers \in BOOLEAN
    /\ MaxCrashes \in Nat

-----------------------------------------------------------------------------
(* Rows *)

\* "asking": the prompt is being sent, the row is not written yet; "lost": it
\* never will be; the others are the values of the status column.
Statuses == {"unused", "asking", "lost", "pending", "paid", "failed", "reversed"}

\* `code`: the offline purchase's claim code; `receipt`: its M-Pesa code is
\* known; `sub`: its payment_grants row and subscription_id (0: not
\* provisioned); `error`: provision_error is set.
Payments == [status : Statuses, rail : {"none", "daraja", "tuma", "c2b"}, phone : Phones \cup {"nobody"},
             kind : DeviceKinds, mac : Macs \cup {"CLAIM", "C2B"},
             code : {"none", "open", "used"}, receipt : BOOLEAN, sub : Nat, error : BOOLEAN]

NoPayment == [status |-> "unused", rail |-> "none", phone |-> "nobody", kind |-> "phone",
              mac |-> "CLAIM", code |-> "none", receipt |-> FALSE, sub |-> 0, error |-> FALSE]

\* A payment whose prompt, or whose PayBill confirmation, is on its way.
Begun(rail, phone, kind, mac, code) ==
    [status |-> "asking", rail |-> rail, phone |-> phone, kind |-> kind,
     mac |-> mac, code |-> code, receipt |-> FALSE, sub |-> 0, error |-> FALSE]

Handlers == {"callback", "status", "sweep"}

\* The answer on its way to a handler.
Answers == {"none", "paid", "failed"}
NobodyAsks == [h \in Handlers |-> [t \in Checkouts |-> "none"]]

Phases == {"idle", "settling", "backlog"}
SweepOff == [phase |-> "idle", todo |-> {}]

Stored(t) == tx[t].status \in {"pending", "paid", "failed", "reversed"}
Idle(h, t) == asked[h][t] = "none"

\* The backlog half of a sweep awaits nothing: no other handler runs meanwhile.
LoopFree == sweep.phase # "backlog"

Init ==
    /\ now = 0 /\ subs = << >> /\ jobs = << >>
    /\ tx = [t \in Checkouts |-> NoPayment]
    /\ age = [t \in Checkouts |-> 0]
    /\ money = [t \in Checkouts |-> "none"]
    /\ asked = NobodyAsks
    /\ sweep = SweepOff
    /\ credits = [t \in Checkouts |-> 0]
    /\ crashes = 0

-----------------------------------------------------------------------------
(* Banking and provisioning *)

\* Mutant of Recorded: the last word wins.
RecordedLast(row, status, receipt) == [row EXCEPT !.status = status, !.receipt = @ \/ receipt]

\* setTransactionResult: nothing but another success overwrites a paid row.
Recorded(row, status, receipt) ==
    IF row.status = "paid" /\ status # "paid" THEN row
    ELSE [row EXCEPT !.status = status, !.receipt = @ \/ receipt]

\* Mutant of Provisionable: the grant marker is not looked at.
ProvisionableAgain(row) == row.status = "paid" /\ row.mac \in Macs

Provisionable(row) == row.status = "paid" /\ row.sub = 0 /\ row.mac \in Macs

\* Mutant of Refused: the operator is never told.
RefusedSilently(row, flag) == row

\* The row after a refused grant: `flag` says whether the caller records a
\* device that is taken as provision_error.
Refused(row, flag) ==
    [row EXCEPT !.error = @ \/ /\ flag
                               /\ Provisionable(row)
                               /\ DeviceTaken(row.phone, row.mac, row.kind)]

\* insertPaymentGrant and setTransactionProvisioned, once the grant is made.
Granted(t, row) ==
    /\ Provisionable(row)
    /\ tx' = [tx EXCEPT ![t] = [row EXCEPT !.sub = GrantedRow(row.phone, row.mac, row.kind)]]
    /\ credits' = [credits EXCEPT ![t] = @ + 1]
    /\ UNCHANGED now

\* provisionTenantPayment for payment t, whose row is `row`.  A grant that is
\* refused leaves the payment paid.
Provision(t, row, flag) ==
    \/ Granted(t, row) /\ GrantSubscription(row.phone, row.mac, row.kind, Seconds)
    \/ /\ ~(Provisionable(row) /\ CanGrant(row.phone, row.mac, row.kind))
       /\ tx' = [tx EXCEPT ![t] = Refused(row, flag)]
       /\ UNCHANGED <<tables, credits>>

\* provisionTenantPayment, and the same handler sends the login once more.
ProvisionAndResend(t, row) ==
    Granted(t, row) /\ GrantAndResend(row.phone, row.mac, row.kind, Seconds)

\* A settled answer: bank it, then switch the package on.
Settle(t, receipt) == Provision(t, Recorded(tx[t], "paid", receipt), FALSE)

\* A failure: only the row changes.
Fail(t) ==
    /\ tx' = [tx EXCEPT ![t] = Recorded(@, "failed", FALSE)]
    /\ UNCHANGED <<tables, credits>>

-----------------------------------------------------------------------------
(* The customer and M-Pesa *)

\* POST pay, up to the await: the checks, then the prompt.  A number whose
\* last prompt is still being sent, or is less than 30 seconds old and
\* unanswered, gets no second one.
PayAsk(t, r, p, m, k) ==
    /\ LoopFree
    /\ tx[t].status = "unused"
    /\ r # "c2b"
    /\ m = "CLAIM" => k = "phone"
    /\ m \in Macs => ~DeviceTaken(p, m, k)
    /\ ~\E u \in Checkouts : /\ tx[u].phone = p
                             /\ \/ tx[u].status = "asking"
                                \/ tx[u].status = "pending" /\ age[u] = 0
    /\ tx' = [tx EXCEPT ![t] = Begun(r, p, k, m, IF m = "CLAIM" THEN "open" ELSE "none")]
    /\ money' = [money EXCEPT ![t] = "prompt"]
    /\ UNCHANGED <<tables, age, asked, sweep, credits, crashes>>

\* The prompt was accepted: the row is written.
PayStore(t) ==
    /\ LoopFree
    /\ tx[t].status = "asking" /\ tx[t].rail # "c2b"
    /\ tx' = [tx EXCEPT ![t].status = "pending"]
    /\ UNCHANGED <<tables, age, money, asked, sweep, credits, crashes>>

\* The request to M-Pesa timed out although the prompt went out: no row.
PayLose(t) ==
    /\ LoopFree
    /\ tx[t].status = "asking" /\ tx[t].rail # "c2b"
    /\ tx' = [tx EXCEPT ![t].status = "lost"]
    /\ UNCHANGED <<tables, age, money, asked, sweep, credits, crashes>>

\* The customer enters the PIN, or cancels or lets the prompt run out.
Answer(t) ==
    /\ money[t] = "prompt"
    /\ \E result \in {"taken", "declined"} : money' = [money EXCEPT ![t] = result]
    /\ UNCHANGED <<tables, tx, age, asked, sweep, credits, crashes>>

\* A customer pays the PayBill by hand; Safaricom will confirm it.
PayBill(t, p) ==
    /\ "c2b" \in Rails[t]
    /\ tx[t].status = "unused"
    /\ tx' = [tx EXCEPT ![t] = Begun("c2b", p, "phone", "C2B", "none")]
    /\ money' = [money EXCEPT ![t] = "taken"]
    /\ UNCHANGED <<tables, age, asked, sweep, credits, crashes>>

\* handleTenantC2bConfirmation: banked at once, waiting for a device.  A
\* replayed confirmation finds the row and stops.
C2bConfirm(t) ==
    /\ LoopFree
    /\ tx[t].status = "asking" /\ tx[t].rail = "c2b"
    /\ tx' = [tx EXCEPT ![t] = Recorded(@, "paid", TRUE)]
    /\ UNCHANGED <<tables, age, money, asked, sweep, credits, crashes>>

MoneyReturned(t) ==
    /\ money[t] = "taken" /\ tx[t].rail = "c2b"
    /\ money' = [money EXCEPT ![t] = "returned"]
    /\ UNCHANGED <<tables, tx, age, asked, sweep, credits, crashes>>

\* handleTenantC2bReversal: the payment's package ends now.
C2bReversal(t) ==
    LET i == tx[t].sub IN
    /\ LoopFree
    /\ money[t] = "returned" /\ tx[t].rail = "c2b" /\ tx[t].status = "paid"
    /\ tx' = [tx EXCEPT ![t].status = "reversed"]
    /\ IF i = 0 THEN UNCHANGED <<subs, jobs>>
       ELSE /\ subs' = [subs EXCEPT ![i].expires = now]
            /\ jobs' = Append(jobs, NewJob(subs[i].name, "revoke", 1, subs[i].mac))
    /\ UNCHANGED <<now, age, money, asked, sweep, credits, crashes>>

-----------------------------------------------------------------------------
(* Status queries *)

\* What Daraja answers when it answers.  It "can briefly return timeout/
\* cancellation-looking results while the handset prompt is still resolving".
Verdict(t) == IF money[t] = "taken" THEN "paid" ELSE "failed"

Ask(h, t) ==
    /\ Idle(h, t)
    /\ asked' = [asked EXCEPT ![h][t] = Verdict(t)]

Answered(h, t) == asked' = [asked EXCEPT ![h][t] = "none"]

\* "Not settled yet", or the request failed or timed out: the handler gives up.
NoAnswer(h, t) ==
    /\ LoopFree
    /\ ~Idle(h, t)
    /\ Answered(h, t)
    /\ UNCHANGED <<tables, tx, age, money, sweep, credits, crashes>>

-----------------------------------------------------------------------------
(* handleTenantCallback *)

\* callbackNeedsVerification
NeedsVerification(t) ==
    \/ tx[t].status = "pending"
    \/ money[t] = "taken" /\ (tx[t].status = "failed" \/ ~tx[t].receipt)

\* A callback, first or replayed, is only a signal to ask Daraja.
CallbackAsk(t) ==
    /\ LoopFree
    /\ money[t] \in {"taken", "declined"}
    /\ Stored(t) /\ tx[t].rail = "daraja"
    /\ NeedsVerification(t)
    /\ Ask("callback", t)
    /\ UNCHANGED <<tables, tx, age, money, sweep, credits, crashes>>

CallbackResume(t) ==
    /\ LoopFree
    /\ ~Idle("callback", t)
    /\ IF asked["callback"][t] = "paid" THEN Settle(t, TRUE) ELSE Fail(t)
    /\ Answered("callback", t)
    /\ UNCHANGED <<age, money, sweep, crashes>>

\* handleTumaCallback: authenticated, so believed without a query.
TumaCalls(t) ==
    /\ money[t] \in {"taken", "declined"}
    /\ Stored(t) /\ tx[t].rail = "tuma"
    /\ NeedsVerification(t)

TumaCallback(t) ==
    /\ LoopFree
    /\ TumaCalls(t)
    /\ IF money[t] = "taken" THEN Settle(t, TRUE) ELSE Fail(t)
    /\ UNCHANGED <<age, money, asked, sweep, crashes>>

-----------------------------------------------------------------------------
(* The status page *)

\* queryTenantNow: the age is read before the query, so whether a failure will
\* be believed is known when it is sent.
StatusAsk(t) ==
    /\ LoopFree
    /\ tx[t].status = "pending" /\ tx[t].rail = "daraja"
    /\ age[t] >= 1
    /\ Verdict(t) = "failed" => age[t] >= 2
    /\ Ask("status", t)
    /\ UNCHANGED <<tables, tx, age, money, sweep, credits, crashes>>

StatusResume(t) ==
    /\ LoopFree
    /\ ~Idle("status", t)
    /\ IF asked["status"][t] = "paid" THEN Settle(t, FALSE) ELSE Fail(t)
    /\ Answered("status", t)
    /\ UNCHANGED <<age, money, sweep, crashes>>

\* The page of a payment already banked tries to switch it on again.
StatusPaid(t) ==
    /\ LoopFree
    /\ tx[t].status = "paid"
    /\ Provision(t, tx[t], FALSE)
    /\ UNCHANGED <<age, money, asked, sweep, crashes>>

-----------------------------------------------------------------------------
(* reconcile: one sweep at a time *)

\* Mutant of Stale: the sweep looks at Tuma payments only.
StaleTuma == {t \in Checkouts : tx[t].status = "pending" /\ tx[t].rail = "tuma" /\ age[t] = 3}

\* staleTransactions, less the Tuma rows that it has nothing to do for.
Stale == {t \in Checkouts : /\ tx[t].status = "pending"
                            /\ IF tx[t].rail = "tuma" THEN age[t] = 3 ELSE age[t] \in {1, 2}}

SweepStart ==
    /\ sweep.phase = "idle"
    /\ sweep' = [phase |-> "settling", todo |-> Stale]
    /\ UNCHANGED <<tables, tx, age, money, asked, credits, crashes>>

SweepFree == \A t \in Checkouts : Idle("sweep", t)

SweepTurn(t) ==
    /\ sweep.phase = "settling" /\ t \in sweep.todo /\ SweepFree
    /\ sweep' = [sweep EXCEPT !.todo = @ \ {t}]

SweepTuma(t) ==
    /\ SweepTurn(t)
    /\ tx[t].rail = "tuma"
    /\ Fail(t)
    /\ UNCHANGED <<age, money, asked, crashes>>

SweepAsk(t) ==
    /\ SweepTurn(t)
    /\ tx[t].rail = "daraja"
    /\ Ask("sweep", t)
    /\ UNCHANGED <<tables, tx, age, money, credits, crashes>>

\* Unlike the status page, the sweep reads the age after the answer came.
SweepResume(t) ==
    /\ ~Idle("sweep", t)
    /\ CASE asked["sweep"][t] = "paid" -> Settle(t, FALSE)
         [] asked["sweep"][t] = "failed" /\ age[t] >= 2 -> Fail(t)
         [] OTHER -> UNCHANGED <<tables, tx, credits>>
    /\ Answered("sweep", t)
    /\ UNCHANGED <<age, money, sweep, crashes>>

\* paidUnprovisioned
Backlog == {t \in Checkouts : Provisionable(tx[t]) /\ ~tx[t].error}

SweepBacklog ==
    /\ sweep.phase = "settling" /\ sweep.todo = {} /\ SweepFree
    /\ sweep' = [phase |-> "backlog", todo |-> Backlog]
    /\ UNCHANGED <<tables, tx, age, money, asked, credits, crashes>>

SweepGrant(t) ==
    /\ sweep.phase = "backlog" /\ t \in sweep.todo
    /\ Provision(t, tx[t], TRUE)
    /\ sweep' = [sweep EXCEPT !.todo = @ \ {t}]
    /\ UNCHANGED <<age, money, asked, crashes>>

SweepEnd ==
    /\ sweep.phase = "backlog" /\ sweep.todo = {}
    /\ sweep' = SweepOff
    /\ UNCHANGED <<tables, tx, age, money, asked, credits, crashes>>

-----------------------------------------------------------------------------
(* Binding an offline or PayBill payment to a device *)

Bound(t, m) == [tx[t] EXCEPT !.mac = m, !.code = IF @ = "open" THEN "used" ELSE @]

\* Mutant of Claim: a code that was used binds the next device as well.
ClaimUsedCode(t, m) ==
    /\ LoopFree
    /\ tx[t].status = "paid" /\ tx[t].code # "none" /\ age[t] < 3
    /\ Provision(t, Bound(t, m), FALSE)
    /\ UNCHANGED <<age, money, asked, sweep, crashes>>

\* POST claim, with a code that is still open.
Claim(t, m) ==
    /\ LoopFree
    /\ tx[t].status = "paid" /\ tx[t].mac = "CLAIM" /\ age[t] < 3
    /\ Provision(t, Bound(t, m), FALSE)
    /\ UNCHANGED <<age, money, asked, sweep, crashes>>

\* POST claim again from the same device: the login is sent again.
ClaimAgain(t) ==
    LET i == tx[t].sub IN
    /\ LoopFree
    /\ Len(jobs) < MaxJobs
    /\ tx[t].status = "paid" /\ tx[t].code = "used" /\ i # 0
    /\ subs[i].mac = tx[t].mac /\ Live(i)
    /\ jobs' = Append(jobs, NewJob(subs[i].name, "upsert", subs[i].total, subs[i].mac))
    /\ UNCHANGED <<now, subs, tx, age, money, asked, sweep, credits, crashes>>

\* ... and when the first claim could not be provisioned, it is granted now and
\* its login is sent twice.
ClaimGranted(t) ==
    /\ LoopFree
    /\ tx[t].code = "used"
    /\ ProvisionAndResend(t, tx[t])
    /\ UNCHANGED <<age, money, asked, sweep, crashes>>

\* POST payment-recover: the paying number and the receipt bind the payment
\* to this device, unless that is another number's, and retry the grant.
Recover(t, m) ==
    LET row == IF tx[t].mac \in Macs THEN tx[t] ELSE Bound(t, m) IN
    /\ LoopFree
    /\ tx[t].status = "paid" /\ tx[t].receipt /\ tx[t].sub = 0
    /\ tx[t].mac = "CLAIM" => \A i \in RowsAt(m) : Live(i) => subs[i].payer = tx[t].phone
    /\ Provision(t, [row EXCEPT !.error = FALSE], TRUE)
    /\ UNCHANGED <<age, money, asked, sweep, crashes>>

\* POST operations/transactions/:id/retry: the owner asks for the grant again.
\* A reset is not among the jobs the route then looks for, so the login of a
\* fresh cycle is sent a second time, behind its reset.
OwnerRetry(t) ==
    /\ LoopFree
    /\ tx[t].status = "paid" /\ tx[t].sub = 0
    /\ LET row == [tx[t] EXCEPT !.error = FALSE] IN
       \/ /\ FreshCycle(row.phone, row.mac, row.kind)
          /\ ProvisionAndResend(t, row)
       \/ /\ ~FreshCycle(row.phone, row.mac, row.kind)
          /\ Provision(t, row, TRUE)
    /\ UNCHANGED <<age, money, asked, sweep, crashes>>

\* The same two routes for a payment already provisioned: the login is sent
\* again unless its job is still waiting.  Only the customer's route looks at
\* the expiry; the owner's looks for three actions that could be waiting.
Requeue(t) ==
    LET i == tx[t].sub IN
    /\ LoopFree
    /\ tx[t].status = "paid" /\ tx[t].receipt /\ i # 0
    /\ Live(i) /\ ~ProvisioningPending(subs[i].name)
    /\ Len(jobs) < MaxJobs
    /\ jobs' = Append(jobs, NewJob(subs[i].name, UpsertAction(subs[i].kind), subs[i].total, subs[i].mac))
    /\ UNCHANGED <<now, subs, tx, age, money, asked, sweep, credits, crashes>>

OwnerRequeue(t) ==
    LET i == tx[t].sub IN
    /\ LoopFree
    /\ tx[t].status = "paid" /\ i # 0
    /\ ~\E j \in DOMAIN jobs : /\ jobs[j].name = subs[i].name /\ IsNewest(j) /\ ~jobs[j].acked
                               /\ jobs[j].action \in {"upsert", "transfer", "tv-upsert"}
    /\ Len(jobs) < MaxJobs
    /\ jobs' = Append(jobs, NewJob(subs[i].name, UpsertAction(subs[i].kind), subs[i].total, subs[i].mac))
    /\ UNCHANGED <<now, subs, tx, age, money, asked, sweep, credits, crashes>>

-----------------------------------------------------------------------------
(* Time, the router and restarts *)

\* Daraja resolves a prompt well within the grace window.
Aging(t) ==
    /\ tx[t].status = "pending" /\ age[t] < 3
    /\ age[t] = 1 => money[t] # "prompt"
    /\ ~SlowAnswers => \A h \in Handlers : Idle(h, t)
    /\ age' = [age EXCEPT ![t] = @ + 1]
    /\ UNCHANGED <<tables, tx, money, asked, sweep, credits, crashes>>

\* What a sync of RouterQueue does to the tables, one row at a time: the
\* revocation of an ended package, and the acknowledgement of a login's newest job.
RouterRevoke(i) ==
    /\ LoopFree
    /\ QueueRevoke(i)
    /\ UNCHANGED <<now, tx, age, money, asked, sweep, credits, crashes>>

RouterAck(j) ==
    /\ LoopFree
    /\ j \in DOMAIN jobs /\ IsNewest(j) /\ ~jobs[j].acked
    /\ jobs' = [jobs EXCEPT ![j] = Served(jobs[j])]
    /\ UNCHANGED <<now, subs, tx, age, money, asked, sweep, credits, crashes>>

CustomerStep ==
    /\ \/ LoopFree /\ \E i \in DOMAIN subs, m \in Macs : Transfer(i, m)
       \/ Tick
    /\ UNCHANGED <<tx, age, money, asked, sweep, credits, crashes>>

\* The process stops: every handler is gone, the database stays.
Stop ==
    /\ crashes < MaxCrashes
    /\ crashes' = crashes + 1
    /\ asked' = NobodyAsks
    /\ sweep' = SweepOff
    /\ UNCHANGED <<tables, age, money, credits>>

Forgotten(rows) ==
    [t \in Checkouts |-> IF rows[t].status = "asking" /\ rows[t].rail # "c2b"
                         THEN [rows[t] EXCEPT !.status = "lost"] ELSE rows[t]]

Crash == Stop /\ tx' = Forgotten(tx)

\* It stops after a payment was banked and before it was provisioned.
CrashAfterBanking(t) ==
    /\ LoopFree
    /\ Stop
    /\ \/ \E h \in Handlers :
            /\ asked[h][t] = "paid"
            /\ tx' = Forgotten([tx EXCEPT ![t] = Recorded(@, "paid", h = "callback")])
       \/ /\ TumaCalls(t) /\ money[t] = "taken"
          /\ tx' = Forgotten([tx EXCEPT ![t] = Recorded(@, "paid", TRUE)])

-----------------------------------------------------------------------------

Customer(t) ==
    \/ \E r \in Rails[t], p \in Phones, m \in Macs \cup {"CLAIM"}, k \in Kinds : PayAsk(t, r, p, m, k)
    \/ \E p \in Phones : PayBill(t, p)
    \/ PayStore(t) \/ PayLose(t) \/ Answer(t)
    \/ \E m \in Macs : Claim(t, m) \/ Recover(t, m)
    \/ ClaimAgain(t) \/ ClaimGranted(t) \/ Requeue(t) \/ OwnerRetry(t) \/ OwnerRequeue(t)

Settling(t) ==
    \/ CallbackAsk(t) \/ StatusAsk(t) \/ SweepAsk(t)
    \/ \E h \in Handlers : NoAnswer(h, t)
    \/ CallbackResume(t) \/ StatusResume(t) \/ SweepResume(t)
    \/ TumaCallback(t) \/ StatusPaid(t) \/ SweepTuma(t) \/ SweepGrant(t)
    \/ C2bConfirm(t) \/ MoneyReturned(t) \/ C2bReversal(t)

Next ==
    \/ \E t \in Checkouts : Customer(t) \/ Settling(t) \/ Aging(t)
    \/ SweepStart \/ SweepBacklog \/ SweepEnd
    \/ CustomerStep
    \/ \E i \in DOMAIN subs : RouterRevoke(i)
    \/ \E j \in DOMAIN jobs : RouterAck(j)
    \/ Crash
    \/ \E t \in Checkouts : CrashAfterBanking(t)

Spec == Init /\ [][Next]_payVars

SweepStep ==
    \/ SweepStart \/ SweepBacklog \/ SweepEnd
    \/ \E t \in Checkouts :
          SweepTuma(t) \/ SweepAsk(t) \/ NoAnswer("sweep", t) \/ SweepResume(t) \/ SweepGrant(t)

\* The interval timer starts a sweep whenever none is running, and a sweep that
\* was started goes on: every wait in it ends within 15 seconds.
SweepFairness == WF_payVars(SweepStep)

SweepSpec == Spec /\ SweepFairness

\* Daraja does not fail to answer the sweep for ever, a callback's wait ends
\* too (it gets its turn although a backlog is in its way), and the first
\* seconds of a payment pass.
DarajaFairness ==
    \A t \in {u \in Checkouts : "daraja" \in Rails[u]} :
        /\ SF_payVars(SweepResume(t))
        /\ SF_payVars(NoAnswer("callback", t))
        /\ SF_payVars(age[t] = 0 /\ Aging(t))

FairSpec == SweepSpec /\ DarajaFairness

-----------------------------------------------------------------------------
(* Properties *)

TypeOK ==
    /\ TablesTypeOK
    /\ tx \in [Checkouts -> Payments]
    /\ age \in [Checkouts -> 0..3]
    /\ money \in [Checkouts -> {"none", "prompt", "taken", "declined", "returned"}]
    /\ asked \in [Handlers -> [Checkouts -> Answers]]
    /\ sweep \in [phase : Phases, todo : SUBSET Checkouts]
    /\ credits \in [Checkouts -> Nat]
    /\ crashes \in 0..MaxCrashes

\* Time on the books is time sold: a package's ceiling is one package length
\* for each payment granted to it.  Callback, status page, sweep, claim and
\* recovery can all reach provisionPaidTransaction for one payment, and its
\* comment promises that this "prevents an accidental double package".  Under
\* the expiry pilot a renewal after expiry starts counting again.
TimeMatchesSales ==
    \A i \in DOMAIN subs :
        LET sold == Cardinality({t \in Checkouts : tx[t].sub = i}) IN
        \E n \in (IF ExpiryV2 THEN 1..sold ELSE {sold}) : subs[i].total = Seconds * n

\* A package is only ever switched on with money that was taken, and it is the
\* package of the number that paid and of the kind of device it was sold for,
\* whatever devices were released, moved or bound in between.
GrantIsForPayer ==
    \A t \in Checkouts :
        tx[t].sub # 0 => /\ tx[t].sub \in DOMAIN subs
                         /\ money[t] \in {"taken", "returned"}
                         /\ subs[tx[t].sub].payer = tx[t].phone
                         /\ subs[tx[t].sub].kind = tx[t].kind

\* A late failure, timeout or give-up never takes back what was banked, and a
\* payment's grant is never replaced: only a PayBill reversal ends a paid row.
PaidStays ==
    [][\A t \in Checkouts :
          /\ tx[t].status = "paid" => \/ tx'[t].status = "paid"
                                      \/ tx'[t].status = "reversed" /\ money[t] = "returned"
          /\ tx[t].sub # 0 => tx'[t].sub = tx[t].sub]_payVars

\* No purchase, recovery or claim by one number takes the device, or the
\* router login, of a package that is still running (deviceTakenError).
LivePackageKeepsDevice ==
    [][\A i \in DOMAIN subs :
          Live(i) => subs'[i].mac \in Macs /\ subs'[i].name = subs[i].name]_payVars

\* An offline or PayBill payment belongs to the first device that presented
\* its code or its receipt; later claims, recoveries and races never move it.
FirstDeviceKeepsPayment ==
    [][\A t \in Checkouts :
          tx[t].status = "paid" /\ tx[t].mac \in Macs => tx'[t].mac = tx[t].mac]_payVars

\* What a sale promises, of the money and credits of this module.
S == INSTANCE Sale WITH Checkouts <- Checkouts, money <- money, credits <- credits

\* The whole payment path implements the sale that Sale states.
ImplementsSale == S!SaleSpec

\* A payment whose callback never came is found by the sweep while it still
\* looks (README: "Callback never arrives | A sweep ... queries Daraja and
\* recovers it"): money taken is not left with a pending or a failed row.
LostCallbackRecovered ==
    []<>(\A t \in Checkouts :
            tx[t].status \in {"pending", "failed"} /\ tx[t].rail = "daraja" /\ money[t] = "taken"
                => age[t] = 3)

\* Paid and bound to a device means switched on in the end, or on the
\* operator's list (README: "Payment is banked; a sweep retries provisioning").
PaidIsSwitchedOn ==
    []<>(\A t \in Checkouts : Provisionable(tx[t]) => tx[t].error)
=============================================================================
