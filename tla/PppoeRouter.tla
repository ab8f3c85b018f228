----------------------------- MODULE PppoeRouter -----------------------------
(***************************************************************************)
(* The way of PPPoE jobs to the router and back (src/src/lib/pppoe.js):    *)
(* every poll's reply carries a script made from the subscribers' present  *)
(* state, the router runs it line by line, and the fetch at its end says   *)
(* which jobs were done.  Reply and report can be lost; a job the router   *)
(* refuses is tried again later, MaxAttempts times.                        *)
(***************************************************************************)
EXTENDS PppoeBilling

CONSTANTS
    ExpiredPage,  \* the owner keeps ended customers on the pay page
    Overlap,      \* TRUE: payments and edits may fall between poll and report
    Refusable,    \* the job actions the router may refuse
    MaxAttempts,  \* tries of a job before it is given up (5 in the code)
    MaxLosses     \* bound: replies and reports lost

ASSUME RouterAssumption ==
    /\ ExpiredPage \in BOOLEAN /\ Overlap \in BOOLEAN
    /\ Refusable \subseteq JobActions
    /\ MaxAttempts \in Nat \ {0} /\ MaxLosses \in Nat
    /\ {"absent", "disabled", "page"} \cap Plans = {}

VARIABLES
    script,   \* the reply on its way: a set of lines
    report,   \* the router's report on its way: the jobs done and not done
    secret,   \* /ppp secret of each subscriber
    session,  \* what the live session was started as, Offline when there is none
    losses    \* replies and reports lost so far

routerVars == <<script, report, secret, session, losses>>
vars == <<billingVars, routerVars>>

Offline == "offline"
Absent == "absent"
\* A secret is absent, disabled, on the pay page's profile, or has a plan's speed.
Service == {Absent, "disabled", "page"} \cup Plans
Keys == Users \X JobActions
NoReport == [ok |-> {}, failed |-> {}]

Idle == script = {} /\ report = NoReport

\* A boost that still runs decides the profile.
SpeedOf(a) == IF a.boost # NoPlan /\ a.boostEnd > now THEN a.boost ELSE a.plan
LockedNow(a) == a.locked > now

\* What the script makes of a job: the subscriber's state at the poll decides,
\* except that a job queued to revoke always revokes.
Entitled(a) == a.status = "active" /\ ~Expired(a) /\ ~LockedNow(a)
CutService(a) == IF ExpiredPage /\ a.status = "expired" /\ ~LockedNow(a) THEN "page" ELSE "disabled"
LineFor(k, a, j) ==
    LET on == k[2] = "upsert" /\ Entitled(a)
    IN  [job |-> k, service |-> IF on THEN SpeedOf(a) ELSE CutService(a), kick |-> ~on \/ j.kick]

\* revokeExpiredForLocation, the first thing every poll does.
Lapsed(a) == a.status = "active" /\ Expired(a)
Revoked(a) == IF Lapsed(a) THEN [a EXCEPT !.status = "expired"] ELSE a
\* Mutant of RevokedJobs: the status changes and no job is queued.
RevokedJobsNone(u) == jobs[u]
RevokedJobs(u) == IF Lapsed(acct[u]) THEN JobFor(jobs[u], acct[u], "revoke", FALSE) ELSE jobs[u]

Due(j) == j.status \in {"queued", "delivered"} /\ ~j.waiting

\* scriptForLocation: expire, send every job that is due, mark it delivered.
Poll ==
    LET jobsNow == [u \in Users |-> RevokedJobs(u)]
        due == {k \in Keys : Due(jobsNow[k[1]][k[2]])}
    IN  /\ Idle
        /\ due # {}
        /\ acct' = [u \in Users |-> Revoked(acct[u])]
        /\ script' = {LineFor(k, acct'[k[1]], jobsNow[k[1]][k[2]]) : k \in due}
        /\ jobs' = [u \in Users |-> [a \in JobActions |->
             IF <<u, a>> \in due THEN [jobsNow[u][a] EXCEPT !.status = "delivered"] ELSE jobsNow[u][a]]]
        /\ UNCHANGED <<now, serves, grace, payments, txs, edits, report, secret, session, losses>>

\* The lines that cut run before the lines that switch on, so a subscriber's
\* upsert decides when both are there.  Cutting a login the router has not got
\* is done at once.
LinesFor(u, ls) == {l \in ls : l.job[1] = u}
LastLine(ls) ==
    IF \E l \in ls : l.service \in Plans THEN CHOOSE l \in ls : l.service \in Plans ELSE CHOOSE l \in ls : TRUE
SecretAfter(u, ls) ==
    LET mine == LinesFor(u, ls) IN
    IF mine = {} \/ (secret[u] = Absent /\ LastLine(mine).service \notin Plans) THEN secret[u]
    ELSE LastLine(mine).service
RunScript(refused) ==
    LET done == {l \in script : l.job \notin refused} IN
    /\ script # {}
    /\ refused \subseteq {l.job : l \in script} /\ \A k \in refused : k[2] \in Refusable
    /\ secret' = [u \in Users |-> SecretAfter(u, done)]
    /\ session' = [u \in Users |-> IF \E l \in LinesFor(u, done) : l.kick THEN Offline ELSE session[u]]
    /\ report' = [ok |-> {l.job : l \in done}, failed |-> refused]
    /\ script' = {}
    /\ UNCHANGED <<billingVars, losses>>

\* Mutant of Reported: a job the router refused counts as done.
ReportedDone(k, j) ==
    IF j.status \in {"queued", "delivered"} /\ k \in report.ok \cup report.failed
    THEN [j EXCEPT !.status = "acked"] ELSE j

\* applyRouterReport: only a job still queued or delivered hears of it.
Reported(k, j) ==
    LET tried == j.attempts + 1 IN
    IF j.status \notin {"queued", "delivered"} THEN j
    ELSE IF k \in report.ok THEN [j EXCEPT !.status = "acked"]
    ELSE IF k \notin report.failed THEN j
    ELSE IF tried >= MaxAttempts THEN [j EXCEPT !.status = "failed", !.attempts = tried]
    ELSE [j EXCEPT !.status = "queued", !.attempts = tried, !.waiting = TRUE]
ApplyReport ==
    /\ report # NoReport
    /\ jobs' = [u \in Users |-> [a \in JobActions |-> Reported(<<u, a>>, jobs[u][a])]]
    /\ report' = NoReport
    /\ UNCHANGED <<now, serves, grace, acct, payments, txs, edits, script, secret, session, losses>>

\* The back-off of a refused job is over.
BackoffEnds(k) ==
    /\ jobs[k[1]][k[2]].waiting
    /\ jobs' = [jobs EXCEPT ![k[1]][k[2]].waiting = FALSE]
    /\ UNCHANGED <<now, serves, grace, acct, payments, txs, edits, routerVars>>

Lose ==
    /\ ~Idle /\ losses < MaxLosses
    /\ losses' = losses + 1
    /\ script' = {} /\ report' = NoReport
    /\ UNCHANGED <<billingVars, secret, session>>

\* The customer's own router dials again, or goes away.
Redial(u) ==
    /\ session[u] = Offline /\ secret[u] \notin {Absent, "disabled"}
    /\ session' = [session EXCEPT ![u] = secret[u]]
    /\ UNCHANGED <<billingVars, script, report, secret, losses>>

RouterInit ==
    /\ script = {} /\ report = NoReport
    /\ secret = [u \in Users |-> Absent] /\ session = [u \in Users |-> Offline]
    /\ losses = 0

Init == BillingInit /\ RouterInit

\* Without Overlap the server's other work falls between two polls.
ServerActs == (Overlap \/ Idle) /\ BillingNext /\ UNCHANGED routerVars
Next ==
    \/ ServerActs
    \/ Poll
    \/ \E refused \in SUBSET Keys : RunScript(refused)
    \/ ApplyReport \/ Lose
    \/ \E k \in Keys : BackoffEnds(k)
    \/ \E u \in Users : Redial(u)

\* A router in use polls and reports again and again (every few seconds), the
\* script runs as soon as it is there, and a customer's router redials.
Fairness ==
    /\ WF_vars(Poll) /\ WF_vars(ApplyReport)
    /\ WF_vars(\E refused \in SUBSET Keys : RunScript(refused))
    /\ \A k \in Keys : WF_vars(BackoffEnds(k))
    /\ \A u \in Users : WF_vars(Redial(u))

Spec == Init /\ [][Next]_vars
FairSpec == Spec /\ Fairness

----------------------------------------------------------------------------
(* Properties                                                              *)

\* When nothing is on its way and no job of a subscriber waits or was given up,
\* the router serves exactly whom the server counts as paid, at the speed of
\* their plan or boost.  A lock that ran out is the exception: nothing queues
\* the login again (clearUserLock does).
Settled(u) ==
    /\ Idle /\ ~Lapsed(acct[u])
    /\ \A a \in JobActions : jobs[u][a].status \in {"none", "acked"}
BoostOver(a) == a.boost # NoPlan /\ a.boostEnd <= now
RouterFollowsServer ==
    \A u \in Users :
        Settled(u) /\ acct[u].locked = NoTime /\ ~BoostOver(acct[u]) /\ secret[u] # Absent =>
            IF Entitled(acct[u]) THEN secret[u] = SpeedOf(acct[u]) ELSE secret[u] \notin Plans

\* Whoever's paid days are over loses the login, also when replies and reports
\* get lost on the way.
LapsedIsCut ==
    \A u \in Users : Lapsed(acct[u]) ~> (secret[u] \notin Plans \/ Entitled(acct[u]))

=============================================================================
