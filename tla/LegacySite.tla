------------------------------ MODULE LegacySite ------------------------------
(***************************************************************************)
(* The original single hotspot, which runs beside the tenants with tables  *)
(* and a job queue of its own (fulfil.js, grant.js, db.js and the routes   *)
(* of server.js without a business): M-Pesa prompts, PayBill money and     *)
(* vouchers become time on a login, the login moves between devices and    *)
(* lends its time to a TV, and the site's router collects jobs by polling. *)
(* PROVISION_MODE=poll, the default, is modelled.                          *)
(*                                                                         *)
(* Time is counted in units of which a sale gives Length.  A poll, with    *)
(* the script its reply carries, is one step: nothing but new jobs can     *)
(* come between, and those wait for the next poll.                         *)
(***************************************************************************)
EXTENDS Naturals, Sequences, FiniteSets

CONSTANTS
    Phones,     \* M-Pesa numbers
    Macs,       \* customers' devices
    Tv,         \* a television's address
    Pushes,     \* checkouts of M-Pesa prompts
    Codes,      \* vouchers on sale
    Receipts,   \* receipts of PayBill payments
    Length,     \* units of time that a sale gives
    MaxNow,     \* bound: units of time
    MaxGifts,   \* bound: payments, receipts and codes that give time
    MaxJobs,    \* bound: unacknowledged jobs
    Faults,     \* what may go wrong, each once: a subset of AllFaults
    MaxEvents   \* bound: faults, moves of a login and changes of a TV together

\* crash: the process stops between two writes.  loss: a poll's reply is lost.
\* reset: the router's counters start again.  fresh: the server starts with an
\* empty database.  repeat: a PayBill confirmation comes twice.
\* rebuild: the operator rebuilds a balance from the M-Pesa payments.
\* overrun: a login uses time past its end, before a poll switches it off.
AllFaults == {"crash", "loss", "reset", "fresh", "repeat", "rebuild", "overrun"}

ASSUME LegacyAssumption ==
    /\ Length \in Nat \ {0} /\ MaxNow \in Nat /\ MaxJobs \in Nat /\ MaxGifts \in Nat
    /\ MaxEvents \in Nat
    /\ Faults \subseteq AllFaults
    /\ Pushes \cap Codes = {} /\ Pushes \cap Receipts = {} /\ Codes \cap Receipts = {}

VARIABLES
    now,
    verdict,  \* M-Pesa: the customer's answer to a prompt
    tx,       \* transactions, by checkout
    acct,     \* accounts, by login
    recent,   \* the logins with an account, the last updated first
    tvs,      \* devices: the login a TV lives on
    spent,    \* vouchers already redeemed
    jobs,     \* jobs of the site, oldest first
    user,     \* /ip hotspot user of the site's router
    given,    \* history: how often a payment, a receipt or a code gave time
    moves,    \* bound: moves so far, and changes of a TV
    faults    \* faults that have happened

serverVars == <<tx, acct, recent, tvs, spent, jobs>>
legacyVars == <<now, verdict, serverVars, user, given, moves, faults>>

None == "none"
\* The payer's own number, or the number with a tag of the device's address.
Logins == Phones \X ({None} \cup Macs)
Users == Logins \X {"phone", "tv"}
NoLogin == <<None, None>>
NoAccount == [total |-> 0, used |-> 0, expiry |-> 0, mac |-> None]
NoUser == [limit |-> 0, used |-> 0, mac |-> None, on |-> FALSE]
NoTx == [status |-> None, receipt |-> FALSE, provisioned |-> FALSE, phone |-> None, mac |-> None]
\* new, sent, ran (its id is in the router's fitiAck) or acked.
Job(u, action, total, mac) ==
    [user |-> u, action |-> action, total |-> total, mac |-> mac, state |-> "new"]
Sources == Pushes \cup Codes \cup Receipts

LegacyInit ==
    /\ now = 1
    /\ verdict = [p \in Pushes |-> None] /\ tx = [p \in Pushes |-> NoTx]
    /\ acct = [l \in Logins |-> NoAccount] /\ recent = <<>>
    /\ tvs = NoLogin /\ spent = {} /\ jobs = <<>>
    /\ user = [u \in Users |-> NoUser]
    /\ given = [s \in Sources |-> 0] /\ moves = [login |-> 0, tv |-> 0] /\ faults = {}

MoreEvents == Cardinality(faults) + moves.login + moves.tv < MaxEvents
Fault(kind) ==
    /\ kind \in Faults \ faults /\ MoreEvents
    /\ faults' = faults \cup {kind}
NoFault == UNCHANGED faults
Opened == {p \in Pushes : verdict[p] # None} \cup spent \cup {r \in Receipts : given[r] > 0}
MoreGifts == Cardinality(Opened) < MaxGifts
OpenJobs(js) == {i \in DOMAIN js : js[i].state # "acked"}
MoreJobs == Cardinality(OpenJobs(jobs)) < MaxJobs
Running(l) == acct[l].expiry > now
Larger(a, b) == IF a > b THEN a ELSE b

----------------------------------------------------------------------------
(* Time is given                                                            *)

Known(l) == \E i \in DOMAIN recent : recent[i] = l
Touched(l) == <<l>> \o SelectSeq(recent, LAMBDA other : other # l)
FirstOf(Test(_)) == LET found == SelectSeq(recent, Test) IN IF found = <<>> THEN NoLogin ELSE found[1]
AccountByMac(mac) == FirstOf(LAMBDA l : acct[l].mac = mac)
Unbound(phone) == FirstOf(LAMBDA l : l[1] = phone /\ acct[l].mac = None)

\* Mutant of NewTotal: the allowance starts again.
NewTotalFresh(a) == Length
\* The router counts up and never back, so the ceiling must clear what is used.
NewTotal(a) == Larger(a.total, a.used) + Length
NewExpiry(a) == Larger(now, a.expiry) + Length

\* grantTime: a job for the login, and one for its TV.
GrantTime(l, mac) ==
    LET total == NewTotal(acct[l])
        device == IF mac = None THEN acct[l].mac ELSE mac
    IN  /\ acct' = [acct EXCEPT ![l] = [total |-> total, used |-> @.used, expiry |-> NewExpiry(@),
                                        mac |-> device]]
        /\ recent' = Touched(l)
        /\ jobs' = jobs \o <<Job(<<l, "phone">>, "upsert", total, mac)>>
                        \o (IF tvs = l THEN <<Job(<<l, "tv">>, "upsert", total, Tv)>> ELSE <<>>)
        /\ Cardinality(OpenJobs(jobs')) <= MaxJobs

\* fulfil: which login a payment for a device is for.
Username(phone, mac) ==
    LET bound == AccountByMac(mac) IN
    IF mac = None THEN <<phone, None>>
    ELSE IF bound # NoLogin /\ bound[1] = phone THEN bound
    ELSE IF Unbound(phone) # NoLogin THEN Unbound(phone)
    ELSE IF \E m \in {None} \cup Macs : Known(<<phone, m>>) THEN <<phone, mac>> ELSE <<phone, None>>

\* Mutant of Provisionable: what is already provisioned is provisioned again.
ProvisionableAgain(t) == t.status = "paid"
Provisionable(t) == t.status = "paid" /\ ~t.provisioned
\* The time is given and then the transaction is marked; a crash may come
\* between the two.
Fulfil(p, t) ==
    IF Provisionable(t)
    THEN /\ given' = [given EXCEPT ![p] = @ + 1]
         /\ GrantTime(Username(t.phone, t.mac), t.mac)
         /\ \/ NoFault /\ tx' = [tx EXCEPT ![p] = [t EXCEPT !.provisioned = TRUE]]
            \/ Fault("crash") /\ tx' = [tx EXCEPT ![p] = t]
    ELSE /\ NoFault
         /\ tx' = [tx EXCEPT ![p] = t]
         /\ UNCHANGED <<acct, recent, jobs, given>>

----------------------------------------------------------------------------
(* Payments and vouchers                                                    *)

\* POST /api/pay: the prompt goes out, then its row is written.
Pay(p, phone, mac) ==
    /\ tx[p] = NoTx /\ verdict[p] = None /\ MoreGifts
    /\ verdict' = [verdict EXCEPT ![p] = "asked"]
    /\ \/ NoFault
          /\ tx' = [tx EXCEPT ![p] = [NoTx EXCEPT !.status = "pending", !.phone = phone, !.mac = mac]]
       \/ Fault("crash") /\ UNCHANGED tx
    /\ UNCHANGED <<now, acct, recent, tvs, spent, jobs, user, given, moves>>

\* The customer pays.  (A prompt that is turned down stays as it is.)
Answer(p) ==
    /\ verdict[p] = "asked"
    /\ verdict' = [verdict EXCEPT ![p] = "paid"]
    /\ UNCHANGED <<now, serverVars, user, given, moves, faults>>

Collected(p, withReceipt) ==
    /\ verdict[p] = "paid"
    /\ Fulfil(p, [tx[p] EXCEPT !.status = "paid", !.receipt = @ \/ withReceipt])
    /\ UNCHANGED <<now, verdict, tvs, spent, user, moves>>
\* The status page or the sweep asks about a prompt that waits.
Query(p) == tx[p].status = "pending" /\ Collected(p, FALSE)
\* A callback, checked with a query: a success may come after a failure was
\* written, and brings the receipt of what a query found paid.
Callback(p) ==
    /\ tx[p] # NoTx /\ ~(tx[p].status = "paid" /\ tx[p].receipt)
    /\ Collected(p, TRUE)

\* A query that finds the prompt declined or run out.  It counts only three
\* minutes after the prompt, may still be wrong, and never takes back what is
\* paid (markResult).
LooksFailed(p) ==
    /\ verdict[p] = "asked" /\ tx[p].status = "pending"
    /\ tx' = [tx EXCEPT ![p].status = "failed"]
    /\ UNCHANGED <<now, verdict, acct, recent, tvs, spent, jobs, user, given, moves, faults>>

\* reconcile: what was paid and not provisioned.
Backlog(p) == tx[p].status = "paid" /\ ~tx[p].provisioned
Sweep(p) ==
    /\ Backlog(p)
    /\ Fulfil(p, tx[p])
    /\ UNCHANGED <<now, verdict, tvs, spent, user, moves>>

\* handleSiteC2bConfirmation: the receipt is looked for among the prompts'
\* receipts and is not kept.
ConfirmPaybill(r, phone) ==
    /\ \/ given[r] = 0 /\ MoreGifts /\ NoFault
       \/ given[r] = 1 /\ Fault("repeat")
    /\ given' = [given EXCEPT ![r] = @ + 1]
    /\ GrantTime(<<phone, None>>, None)
    /\ UNCHANGED <<now, verdict, tx, tvs, spent, user, moves>>

Redeemable(c) == c \notin spent
\* POST /api/voucher/redeem: claimed, then the time is given.
Redeem(c, phone, mac) ==
    /\ Redeemable(c) /\ MoreGifts
    /\ spent' = spent \cup {c}
    /\ \/ NoFault /\ given' = [given EXCEPT ![c] = @ + 1] /\ GrantTime(<<phone, None>>, mac)
       \/ Fault("crash") /\ UNCHANGED <<acct, recent, jobs, given>>
    /\ UNCHANGED <<now, verdict, tx, tvs, user, moves>>

----------------------------------------------------------------------------
(* Devices                                                                  *)

\* POST /api/session/lookup: the first device on the site to ask for a PayBill
\* payment that has no device yet.
Lookup(l, mac) ==
    /\ Running(l) /\ acct[l].mac = None
    /\ AccountByMac(mac) = NoLogin
    /\ acct' = [acct EXCEPT ![l].mac = mac]
    /\ UNCHANGED <<now, verdict, tx, recent, tvs, spent, jobs, user, given, moves, faults>>

\* POST /api/subscriptions/transfer, with the password of the receipt.
Transfer(l, mac) ==
    /\ Running(l) /\ MoreEvents /\ MoreJobs
    /\ moves' = [moves EXCEPT !.login = @ + 1]
    /\ acct' = [acct EXCEPT ![l].mac = mac]
    /\ jobs' = Append(jobs, Job(<<l, "phone">>, "transfer", acct[l].total, mac))
    /\ UNCHANGED <<now, verdict, tx, recent, tvs, spent, user, given, faults>>

\* POST /api/device/add and /remove, from the paying device.
AddTv(mac) ==
    LET l == AccountByMac(mac) IN
    /\ l # NoLogin /\ tvs = NoLogin
    /\ Running(l) /\ MoreEvents /\ MoreJobs
    /\ moves' = [moves EXCEPT !.tv = @ + 1]
    /\ tvs' = l
    /\ jobs' = Append(jobs, Job(<<l, "tv">>, "upsert", acct[l].total, Tv))
    /\ UNCHANGED <<now, verdict, tx, acct, recent, spent, user, given, faults>>
RemoveTv(mac) ==
    LET l == AccountByMac(mac) IN
    /\ l # NoLogin /\ tvs = l /\ MoreEvents /\ MoreJobs
    /\ moves' = [moves EXCEPT !.tv = @ + 1]
    /\ tvs' = NoLogin
    /\ jobs' = Append(jobs, Job(<<l, "tv">>, "revoke", 1, None))
    /\ UNCHANGED <<now, verdict, tx, acct, recent, spent, user, given, faults>>

----------------------------------------------------------------------------
(* The operator                                                             *)

\* rebuildLedger and its job: M-Pesa prompts paid by the number, nothing else.
Rebuild(phone) ==
    LET l == <<phone, None>>
        paid == {p \in Pushes : tx[p].phone = phone /\ tx[p].status = "paid"}
        total == Larger(Length * Cardinality(paid), acct[l].used)
    IN  /\ Known(l) /\ total > 0 /\ MoreJobs
        /\ Fault("rebuild")
        /\ acct' = [acct EXCEPT ![l].total = total]
        /\ recent' = Touched(l)
        /\ jobs' = Append(jobs, Job(<<l, "phone">>, "upsert", total, acct[l].mac))
        /\ UNCHANGED <<now, verdict, tx, tvs, spent, user, given, moves>>

\* The server comes up with an empty database; the router knows its customers.
FreshDatabase ==
    /\ Fault("fresh")
    /\ tx' = [p \in Pushes |-> NoTx] /\ acct' = [l \in Logins |-> NoAccount] /\ recent' = <<>>
    /\ tvs' = NoLogin /\ spent' = Codes /\ jobs' = <<>>
    /\ UNCHANGED <<now, verdict, user, given, moves>>

----------------------------------------------------------------------------
(* The router                                                               *)

\* Usage of the phones' logins; a count that went back lowers the total too.
Reported(l) ==
    LET a == acct[l]
        used == user[<<l, "phone">>].used
        back == IF used < a.used THEN a.used - used ELSE 0
    IN  IF ~Known(l) \/ user[<<l, "phone">>] = NoUser THEN a
        ELSE [a EXCEPT !.used = used, !.total = IF back > @ THEN 0 ELSE @ - back]

\* New, or delivered over a minute ago (late).
Waiting(j, late) == j.state = "new" \/ (late /\ j.state = "sent")

\* One block of the script: an absolute ceiling and, if it names one, a device.
RunJob(users, j) ==
    [users EXCEPT ![j.user] =
        IF j.action = "revoke" THEN NoUser
        ELSE [limit |-> j.total, used |-> @.used, on |-> TRUE,
              mac |-> IF j.mac = None THEN @.mac ELSE j.mac]]

Expired(l) == Known(l) /\ acct[l].expiry <= now
\* buildExpiryScript: the login and its TV.
RunExpiry(users) ==
    [u \in Users |-> IF Expired(u[1]) /\ users[u] # NoUser THEN [users[u] EXCEPT !.on = FALSE]
                                                           ELSE users[u]]

\* The reply: the expiry script, then a block for each waiting job, oldest first.
RunScript(late) ==
    LET after[i \in 0..Len(jobs)] ==
          IF i = 0 THEN RunExpiry(user)
          ELSE IF Waiting(jobs[i], late) THEN RunJob(after[i - 1], jobs[i]) ELSE after[i - 1]
    IN  after[Len(jobs)]

\* POST /api/router/sync.  What the router ran before is acknowledged, then all
\* waiting jobs go out; the router keeps its acknowledgements until a reply
\* comes.
Sync(late) ==
    LET Polled(j, reached) ==
          [j EXCEPT !.state = IF @ = "ran" THEN "acked"
                              ELSE IF Waiting(j, late) THEN reached ELSE @]
    IN  /\ acct' = [l \in Logins |-> Reported(l)]
        /\ \/ NoFault
              /\ user' = RunScript(late)
              /\ jobs' = [i \in DOMAIN jobs |-> Polled(jobs[i], "ran")]
           \/ Fault("loss")
              /\ jobs' = [i \in DOMAIN jobs |-> Polled(jobs[i], "sent")]
              /\ UNCHANGED user
        /\ UNCHANGED <<now, verdict, tx, recent, tvs, spent, given, moves>>

\* Time passes; whoever is on and below the ceiling may use it.  (A TV's use
\* is not counted: no total rests on it.)
MayUse(u) == u[2] = "phone" /\ user[u].on /\ user[u].used < user[u].limit
Tick(online) ==
    /\ now < MaxNow
    /\ now' = now + 1
    /\ user' = [u \in Users |-> IF u \in online THEN [user[u] EXCEPT !.used = @ + 1] ELSE user[u]]
    /\ IF "overrun" \in faults \/ \A u \in online : Running(u[1]) THEN NoFault ELSE Fault("overrun")
    /\ UNCHANGED <<verdict, serverVars, given, moves>>

ResetCounters ==
    /\ \E u \in Users : user[u].used > 0
    /\ Fault("reset")
    /\ user' = [u \in Users |-> [user[u] EXCEPT !.used = 0]]
    /\ UNCHANGED <<now, verdict, serverVars, given, moves>>

----------------------------------------------------------------------------

MoneyNext ==
    \/ \E p \in Pushes : Answer(p) \/ Query(p) \/ Callback(p) \/ LooksFailed(p) \/ Sweep(p)
    \/ \E p \in Pushes, phone \in Phones, mac \in {None} \cup Macs : Pay(p, phone, mac)
    \/ \E r \in Receipts, phone \in Phones : ConfirmPaybill(r, phone)
    \/ \E c \in Codes, phone \in Phones, mac \in Macs : Redeem(c, phone, mac)
DeviceNext ==
    \/ \E l \in Logins, mac \in Macs : Lookup(l, mac) \/ Transfer(l, mac)
    \/ \E mac \in Macs : AddTv(mac) \/ RemoveTv(mac)
OperatorNext == FreshDatabase \/ \E phone \in Phones : Rebuild(phone)
Syncs == \E late \in BOOLEAN : Sync(late)
RouterNext == Syncs \/ ResetCounters \/ \E online \in SUBSET {u \in Users : MayUse(u)} : Tick(online)
LegacyNext == MoneyNext \/ DeviceNext \/ OperatorNext \/ RouterNext

LegacySpec == LegacyInit /\ [][LegacyNext]_legacyVars

----------------------------------------------------------------------------
(* Properties                                                               *)

\* A prompt's payment and a voucher give time once, with callbacks, the status
\* page and the sweep at one of them in any order; only a process that stopped
\* between a prompt's gift and its mark gives it a second time.  A PayBill
\* receipt has no mark: each confirmation of it gives time.
GivenOnce ==
    \A s \in Pushes \cup Codes :
        given[s] <= (IF "crash" \in faults THEN 2 ELSE 1)

\* With no job of a login under way, whoever has time left is switched on and
\* the ceiling leaves room for all of it.
Quiet(u) == \A i \in OpenJobs(jobs) : jobs[i].user # u
NotLockedOut ==
    \A l \in Logins : LET u == <<l, "phone">> IN
        Running(l) /\ Quiet(u) => user[u].on /\ user[u].limit >= user[u].used + (acct[l].expiry - now)

\* Nothing but a lost database, a lost reply or a rebuilt balance locks a
\* customer out of time they have left; and counters that started again, where
\* a login was used past its end before a poll came.
LocksOut == {"loss", "fresh", "rebuild"}
PaidTimeUsable ==
    faults \cap LocksOut = {} /\ ~({"reset", "overrun"} \subseteq faults) => NotLockedOut

=============================================================================
