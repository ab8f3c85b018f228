----------------------------- MODULE RouterQueue -----------------------------
(***************************************************************************)
(* The router of a location and the queue it polls.                        *)
(*                                                                         *)
(* POST /api/router/sync is one round trip: the router sends the ids its   *)
(* last script left in the global fitiAck; the server records them, queues *)
(* the revocation of every ended package, and answers with the RouterOS    *)
(* script of the waiting jobs, whose last line sets fitiAck again.  The    *)
(* request and the server's handling of it are one step (Poll); the script *)
(* runs block by block, one for each job; the reply can be lost, and the   *)
(* router can stop between two blocks or restart and forget its globals.   *)
(*                                                                         *)
(* Packages come from Vouchers; a payment writes the same two tables.      *)
(***************************************************************************)
EXTENDS Vouchers, SequencesExt

CONSTANTS
    QueueLimit,   \* LIMIT of pendingJobs (25 in the code)
    MaxFaults     \* bound on lost replies, interrupted scripts and restarts

VARIABLES
    router,       \* /ip hotspot user: name -> [limit, mac, used]
    fitiAck,      \* job ids the router will acknowledge with its next sync
    reply,        \* the reply on its way or at work: [open, ids: its jobs, run: those done]
    ran,          \* history: job ids the router has executed
    faults        \* bound: faults so far

rqVars == <<vars, router, fitiAck, reply, ran, faults>>

ASSUME RouterQueueAssumption == QueueLimit \in Nat \ {0} /\ MaxFaults \in Nat

NoReply == [open |-> FALSE, ids |-> {}, run |-> {}]

RQInit ==
    /\ Init
    /\ router = << >>
    /\ fitiAck = {}
    /\ reply = NoReply
    /\ ran = {}
    /\ faults = 0

-----------------------------------------------------------------------------
(* The server's side of a sync *)

\* Mutant of Acknowledged: what was sent counts as done.
AcknowledgedWhenSent(js) ==
    [j \in DOMAIN js |-> IF js[j].delivered THEN [js[j] EXCEPT !.acked = TRUE] ELSE js[j]]

Acknowledged(js) ==
    [j \in DOMAIN js |-> IF j \in fitiAck THEN [js[j] EXCEPT !.acked = TRUE] ELSE js[j]]

\* queueExpiredSubscriptions: one revoke per ended row, remembered on the row.
Ended == {i \in DOMAIN subs : NeedsRevoke(i)}

InRowOrder(order) == Range(order) = Ended /\ \A k, l \in DOMAIN order : k < l => order[k] < order[l]

ExpiryJobs(order) == [k \in DOMAIN order |-> Revocation(order[k])]

WithExpiryJobs(order) ==
    [i \in DOMAIN subs |->
        IF NeedsRevoke(i)
        THEN [subs[i] EXCEPT !.expiryJob = Len(jobs) + CHOOSE k \in DOMAIN order : order[k] = i]
        ELSE subs[i]]

UnackedReconnects == {j \in DOMAIN jobs : jobs[j].action = "reconnect" /\ ~jobs[j].acked}

\* expireStaleReconnectJobs, for the reconnect jobs older than 20 seconds.
StaleExpired(js, stale) ==
    [j \in DOMAIN js |-> IF j \in stale THEN [js[j] EXCEPT !.acked = TRUE] ELSE js[j]]

\* Mutants of Waiting: older jobs of the same login are handed out too, or a
\* job is sent only once.
WaitingWithOlder(js, due) == {j \in DOMAIN js : ~js[j].acked /\ (~js[j].delivered \/ j \in due)}

WaitingOnce(js, due) ==
    {j \in DOMAIN js : /\ ~js[j].acked /\ ~js[j].delivered
                       /\ \A k \in DOMAIN js : js[k].name = js[j].name => k <= j}

\* pendingJobs: unacknowledged, newest of its user, never sent or sent at
\* least 3 seconds ago (`due`), in id order, at most QueueLimit of them.
Waiting(js, due) ==
    {j \in DOMAIN js : /\ ~js[j].acked
                       /\ ~js[j].delivered \/ j \in due
                       /\ \A k \in DOMAIN js : js[k].name = js[j].name => k <= j}

Batch(js, due) ==
    {j \in Waiting(js, due) : Cardinality({k \in Waiting(js, due) : k < j}) < QueueLimit}

\* jobToScript refuses a name that is not a well-formed router user.
WellFormed(job) == job.name.tag = 0

Emitted(js, due) == {j \in Batch(js, due) : WellFormed(js[j])}

MarkedDelivered(js, ids) ==
    [j \in DOMAIN js |-> IF j \in ids THEN [js[j] EXCEPT !.delivered = TRUE] ELSE js[j]]

\* One sync request, handled to its reply.
Poll(due, stale) ==
    /\ ~reply.open
    /\ \E order \in [1..Cardinality(Ended) -> Ended] :
        /\ InRowOrder(order)
        /\ LET js == StaleExpired(Acknowledged(jobs) \o ExpiryJobs(order), stale)
               ids == Emitted(js, due)
           IN  /\ jobs' = MarkedDelivered(js, ids)
               /\ reply' = [open |-> TRUE, ids |-> ids, run |-> {}]
        /\ subs' = WithExpiryJobs(order)
    /\ UNCHANGED <<now, vouchers, router, fitiAck, ran, faults>>

\* POST /api/router/telemetry with the reconnect pilot on: the router saw the
\* device of a live phone package unauthenticated.
Reconnect(i) ==
    /\ Len(jobs) < MaxJobs
    /\ Live(i)
    /\ subs[i].kind # "tv"
    /\ ~ProvisioningPending(subs[i].name)
    /\ jobs' = Append(jobs, NewJob(subs[i].name, "reconnect", subs[i].total, subs[i].mac))
    /\ UNCHANGED <<now, subs, vouchers, router, fitiAck, reply, ran, faults>>

-----------------------------------------------------------------------------
(* The router's side *)

Without(users, name) == [n \in DOMAIN users \ {name} |-> users[n]]

WithLogin(users, name, login) == [n \in DOMAIN users \cup {name} |->
                                     IF n = name THEN login ELSE users[n]]

\* What one block of the script does to the router's users.
Execute(users, job) ==
    LET used == IF job.name \in DOMAIN users /\ job.action # "fresh-start"
                THEN users[job.name].used ELSE 0
    IN  CASE job.action = "revoke"    -> Without(users, job.name)
          [] job.action = "reconnect" -> users
          [] OTHER -> WithLogin(users, job.name,
                                [limit |-> job.total, mac |-> job.mac, used |-> used])

Unrun == reply.ids \ reply.run

\* The reply arrived, and its next block runs; the answered sync has cleared
\* fitiAck.
RunBlock(j) ==
    /\ reply.open
    /\ j \in Unrun /\ \A k \in Unrun : j <= k
    /\ router' = Execute(router, jobs[j])
    /\ ran' = ran \cup {j}
    /\ reply' = [reply EXCEPT !.run = @ \cup {j}]
    /\ fitiAck' = {}
    /\ UNCHANGED <<vars, faults>>

\* Mutant of EndScript: the acknowledgement does not wait for the blocks.
EndScriptAnyway ==
    /\ reply.open
    /\ fitiAck' = reply.ids
    /\ reply' = NoReply
    /\ UNCHANGED <<vars, router, ran, faults>>

\* The script's last line sets fitiAck; an empty reply has none.
EndScript ==
    /\ reply.open
    /\ Unrun = {}
    /\ fitiAck' = reply.ids
    /\ reply' = NoReply
    /\ UNCHANGED <<vars, router, ran, faults>>

\* The fetch failed on the way back: nothing ran, fitiAck is kept.
LoseReply ==
    /\ reply.open
    /\ reply.run = {}
    /\ faults < MaxFaults
    /\ reply' = NoReply
    /\ faults' = faults + 1
    /\ UNCHANGED <<vars, router, fitiAck, ran>>

\* A power cut: users are kept in flash, globals are not (fiti-boot).  A line
\* that fails leaves the same: the rest of the script is skipped (fitiJobError).
Restart ==
    /\ faults < MaxFaults
    /\ fitiAck' = {}
    /\ reply' = NoReply
    /\ faults' = faults + 1
    /\ UNCHANGED <<vars, router, ran>>

\* Time passes; a login may be in use until its uptime reaches the limit.
Clock(online) ==
    /\ Tick
    /\ \A n \in online : router[n].used < router[n].limit
    /\ router' = [n \in DOMAIN router |->
                     IF n \in online THEN [router[n] EXCEPT !.used = @ + 1] ELSE router[n]]
    /\ UNCHANGED <<vouchers, fitiAck, reply, ran, faults>>

-----------------------------------------------------------------------------

Sale ==
    /\ \/ \E c \in Codes : Manage(c) \/ \E p \in Phones, m \in Macs : Redeem(c, p, m)
       \/ CustomerStep
    /\ UNCHANGED <<router, fitiAck, reply, ran, faults>>

\* The jobs sent at least 3 seconds ago are any of those already delivered.
Delivered == {j \in DOMAIN jobs : jobs[j].delivered /\ ~jobs[j].acked}

RQNext ==
    \/ Sale
    \/ \E i \in DOMAIN subs : Reconnect(i)
    \/ \E due \in SUBSET Delivered, stale \in SUBSET UnackedReconnects : Poll(due, stale)
    \/ \E j \in reply.ids : RunBlock(j)
    \/ EndScript \/ LoseReply
    \/ Restart
    \/ \E online \in SUBSET DOMAIN router : Clock(online)

RQSpec == RQInit /\ [][RQNext]_rqVars

\* The fiti-poll scheduler fires every few seconds for as long as the router
\* is up, polls keep coming more than 3 seconds after a delivery, and the
\* link and the script do not fail for ever.
RouterKeepsPolling ==
    /\ SF_rqVars(Poll(Delivered, {}))
    /\ WF_rqVars(\E j \in reply.ids : RunBlock(j))
    /\ WF_rqVars(EndScript)
    /\ WF_rqVars(\E online \in SUBSET DOMAIN router : Clock(online))

FairRQSpec == RQSpec /\ RouterKeepsPolling

-----------------------------------------------------------------------------
(* Properties *)

Done(job) ==
    IF job.action = "revoke" THEN job.name \notin DOMAIN router
    ELSE /\ job.name \in DOMAIN router
         /\ router[job.name].limit = job.total
         /\ router[job.name].mac = job.mac

\* What the server believes done is done: when the newest job of a login is
\* acknowledged, the router is in the state that job asked for, whatever was
\* lost, cut short or delivered twice on the way (rsc.js: "the server is the
\* source of truth, the router is a cache").
AckedIsDone ==
    \A j \in DOMAIN jobs :
        jobs[j].acked /\ IsNewest(j) /\ jobs[j].action # "reconnect" => Done(jobs[j])

\* A customer who topped up never sees the balance snap back: the ceiling of a
\* login on the router only grows while the login exists (buildScript records
\* the bug this guards against: an old job redelivered after a newer one).
CeilingNeverDrops ==
    [][\A n \in DOMAIN router \cap DOMAIN router' : router'[n].limit >= router[n].limit]_rqVars

LiveNames == {subs[i].name : i \in {r \in DOMAIN subs : Live(r)}}

\* Once customers stop buying and time stops, every running package is on the
\* router with the ceiling and the device the server holds for it.
LiveReachesRouter ==
    <>[](\A i \in DOMAIN subs : Live(i) =>
            /\ subs[i].name \in DOMAIN router
            /\ router[subs[i].name].limit = subs[i].total
            /\ router[subs[i].name].mac = subs[i].mac)

\* And no login outlives its package: the sync "also disconnects accounts
\* whose expiry has passed" (server.js).
EndedLeavesRouter == <>[](DOMAIN router \subseteq LiveNames)
=============================================================================
