---------------------------- MODULE Subscriptions ----------------------------
(***************************************************************************)
(* The two tables every hotspot sale of one location writes:               *)
(*                                                                         *)
(*   tenant_subscriptions  one row per device that ever held a package     *)
(*   tenant_jobs           the RouterOS work queued for the router         *)
(*                                                                         *)
(* and the operations of src/src/lib/tenant.js on them that payments,      *)
(* vouchers and the router poll share.  A subscription id is the row's     *)
(* position (rows are never deleted while the location exists), a job id   *)
(* is the job's position (AUTOINCREMENT).  Time is counted in one abstract *)
(* unit, so a package of s seconds runs for s ticks.                       *)
(***************************************************************************)
EXTENDS Integers, Sequences, FiniteSets

CONSTANTS
    Phones,     \* M-Pesa numbers that pay
    Macs,       \* MAC addresses of the devices at this location
    Kinds,      \* device types packages are sold for
    ExpiryV2,   \* TRUE: the location is listed in FITI_EXPIRY_V2_LOCATIONS
    MaxTime,    \* bound: the clock stops here
    MaxJobs     \* bound: customers ask for no more work once this many jobs exist

VARIABLES
    now,        \* wall clock
    subs,       \* tenant_subscriptions, in insertion order
    jobs        \* tenant_jobs, in insertion order

tables == <<now, subs, jobs>>

\* What the mac column holds when it names no device: a released row, and a
\* payment still waiting for a claim code or a PayBill recovery.
Placeholders == {"RELEASED", "CLAIM", "C2B"}

DeviceKinds == {"phone", "tv"}

ASSUME SubscriptionsAssumption ==
    /\ Macs \cap Placeholders = {}
    /\ Kinds \subseteq DeviceKinds
    /\ ExpiryV2 \in BOOLEAN
    /\ MaxTime \in Nat
    /\ MaxJobs \in Nat

-----------------------------------------------------------------------------
(* Row and job formats *)

\* `phone-HASH8(location, mac)`; `tag` is the row id that a released row's
\* name is suffixed with, 0 for a name never released.
Names == [payer : Phones, mac : Macs, tag : Nat]

Suffixed(name, i) == [name EXCEPT !.tag = i]

FreshName(p, m) == [payer |-> p, mac |-> m, tag |-> 0]

Rows == [name : Names, payer : Phones, mac : Macs \cup {"RELEASED"},
         kind : DeviceKinds, total : Nat, expires : Int, expiryJob : Nat]

Actions == {"upsert", "tv-upsert", "fresh-start", "transfer", "reconnect", "revoke"}

Jobs == [name : Names, action : Actions, total : Nat, mac : Macs \cup {"RELEASED"},
         delivered : BOOLEAN, acked : BOOLEAN]

NewJob(name, action, total, mac) ==
    [name |-> name, action |-> action, total |-> total, mac |-> mac,
     delivered |-> FALSE, acked |-> FALSE]

\* A job the router was sent and has acknowledged.
Served(job) == [job EXCEPT !.delivered = TRUE, !.acked = TRUE]

Later(a, b) == IF a >= b THEN a ELSE b

-----------------------------------------------------------------------------
(* Lookups *)

RowsAt(m) == {i \in DOMAIN subs : subs[i].mac = m}

Live(i) == subs[i].expires > now

Remaining(i) == Later(subs[i].expires - now, 0)

\* The newest job of each router user: the only one the queue still hands out.
IsNewest(j) == \A k \in DOMAIN jobs : jobs[k].name = jobs[j].name => k <= j

\* pendingProvisioningJobForUsername: the newest job of the user creates or
\* moves the login and is not acknowledged yet.
ProvisioningPending(name) ==
    \E j \in DOMAIN jobs : /\ jobs[j].name = name
                           /\ IsNewest(j)
                           /\ ~jobs[j].acked
                           /\ jobs[j].action # "revoke"

UpsertAction(kind) == IF kind = "tv" THEN "tv-upsert" ELSE "upsert"

-----------------------------------------------------------------------------
(* grantSubscription: device m, sold to payer p as a device of kind k *)

\* Mutant of ForeignRows: the payer of the row is not looked at.
AnyPayersRows(p, m, k) == {i \in RowsAt(m) : subs[i].kind # k}

\* The device's row belongs to another number, or is of another kind.
ForeignRows(p, m, k) == {i \in RowsAt(m) : subs[i].payer # p \/ subs[i].kind # k}

OwnRows(p, m, k) == RowsAt(m) \ ForeignRows(p, m, k)

DeviceTaken(p, m, k) == \E i \in ForeignRows(p, m, k) : Live(i)

\* releaseEndedSubscription on the foreign row: history kept, device freed.
Released(p, m, k) ==
    [i \in DOMAIN subs |->
        IF i \in ForeignRows(p, m, k)
        THEN [subs[i] EXCEPT !.mac = "RELEASED", !.name = Suffixed(subs[i].name, i)]
        ELSE subs[i]]

\* UNIQUE(location_id, router_username): the INSERT of a new row fails when
\* another row still carries the name computed for this payer and device.
NameTaken(p, m, k) ==
    /\ OwnRows(p, m, k) = {}
    /\ \E i \in DOMAIN subs : Released(p, m, k)[i].name = FreshName(p, m)

\* Mutant of CanGrant: nobody asks whether the device is in use.
CanGrantTakenDevice(p, m, k) == ~NameTaken(p, m, k)

CanGrant(p, m, k) == ~DeviceTaken(p, m, k) /\ ~NameTaken(p, m, k)

\* The row the grant lands on: the device's own row, or a new one.
GrantedRow(p, m, k) ==
    IF OwnRows(p, m, k) = {} THEN Len(subs) + 1
                             ELSE CHOOSE i \in OwnRows(p, m, k) : TRUE

FreshCycle(p, m, k) == ExpiryV2 /\ \E i \in OwnRows(p, m, k) : ~Live(i)

\* Mutants of GrantedValue: a renewal replaces the ceiling, or keeps the
\* revocation of the last package.
RenewalReplacesTotal(p, m, k, seconds) ==
    IF OwnRows(p, m, k) = {}
    THEN [name |-> FreshName(p, m), payer |-> p, mac |-> m, kind |-> k,
          total |-> seconds, expires |-> now + seconds, expiryJob |-> 0]
    ELSE [subs[GrantedRow(p, m, k)] EXCEPT !.total = seconds,
                                           !.expires = Later(now, @) + seconds,
                                           !.expiryJob = 0]

\* The row as the upsert leaves it.
GrantedValue(p, m, k, seconds) ==
    IF OwnRows(p, m, k) = {}
    THEN [name |-> FreshName(p, m), payer |-> p, mac |-> m, kind |-> k,
          total |-> seconds, expires |-> now + seconds, expiryJob |-> 0]
    ELSE LET old == subs[GrantedRow(p, m, k)] IN
         [old EXCEPT !.total = (IF FreshCycle(p, m, k) THEN 0 ELSE old.total) + seconds,
                     !.expires = Later(now, old.expires) + seconds,
                     !.expiryJob = 0]

GrantAction(p, m, k) == IF FreshCycle(p, m, k) THEN "fresh-start" ELSE UpsertAction(k)

GrantRow(p, m, k, seconds) ==
    LET row == GrantedValue(p, m, k, seconds) IN
    /\ CanGrant(p, m, k)
    /\ subs' = IF OwnRows(p, m, k) = {}
               THEN Append(Released(p, m, k), row)
               ELSE [subs EXCEPT ![GrantedRow(p, m, k)] = row]

\* The login of the granted row, sent to the router with the given action.
LoginJob(p, m, k, seconds, action) ==
    LET row == GrantedValue(p, m, k, seconds) IN NewJob(row.name, action, row.total, m)

GrantJob(p, m, k, seconds) == LoginJob(p, m, k, seconds, GrantAction(p, m, k))

GrantSubscription(p, m, k, seconds) ==
    /\ GrantRow(p, m, k, seconds)
    /\ jobs' = Append(jobs, GrantJob(p, m, k, seconds))

\* A grant in a handler that goes on to send the login once more.
GrantAndResend(p, m, k, seconds) ==
    /\ GrantRow(p, m, k, seconds)
    /\ jobs' = Append(Append(jobs, GrantJob(p, m, k, seconds)),
                      LoginJob(p, m, k, seconds, UpsertAction(k)))

-----------------------------------------------------------------------------
(* What a customer does with a running package *)

\* POST subscriptions/transfer: move row i to device m.
Transfer(i, m) ==
    /\ Len(jobs) < MaxJobs
    /\ i \in DOMAIN subs
    /\ Live(i)
    /\ subs[i].kind = "tv" => subs[i].mac = m
    /\ RowsAt(m) \subseteq {i}
    /\ subs' = [subs EXCEPT ![i].mac = m]
    /\ jobs' = Append(jobs, NewJob(subs[i].name,
                  IF subs[i].kind = "tv" THEN "tv-upsert" ELSE "transfer",
                  subs[i].total, m))
    /\ UNCHANGED now

\* POST session/connect: queue the login again.
Connect(i) ==
    /\ Len(jobs) < MaxJobs
    /\ i \in DOMAIN subs
    /\ Live(i)
    /\ jobs' = Append(jobs, NewJob(subs[i].name, UpsertAction(subs[i].kind),
                                   subs[i].total, subs[i].mac))
    /\ UNCHANGED <<now, subs>>

(* What the server does with a package that has ended *)

NeedsRevoke(i) == ~Live(i) /\ subs[i].expiryJob = 0

Revocation(i) == NewJob(subs[i].name, "revoke", 1, subs[i].mac)

\* One row of queueExpiredSubscriptions.
QueueRevoke(i) ==
    /\ NeedsRevoke(i)
    /\ jobs' = Append(jobs, Revocation(i))
    /\ subs' = [subs EXCEPT ![i].expiryJob = Len(jobs) + 1]

Tick == now < MaxTime /\ now' = now + 1 /\ UNCHANGED <<subs, jobs>>

-----------------------------------------------------------------------------
(* Properties of the tables that hold in every module that writes them *)

TablesTypeOK ==
    /\ now \in Nat
    /\ subs \in Seq(Rows)
    /\ jobs \in Seq(Jobs)

\* No device and no router login ever belongs to two packages: grant checks
\* the device, transfer checks the destination, and release renames the row it
\* frees, so the two UNIQUE keys of tenant_subscriptions hold by the handlers'
\* own checks and no statement after them is ever refused.
KeysUnique ==
    \A i, j \in DOMAIN subs :
        i # j => /\ subs[i].name # subs[j].name
                 /\ subs[i].mac = subs[j].mac => subs[i].mac = "RELEASED"

\* The subscription's mac was given to another customer's package.
Gone(i) == subs[i].mac = "RELEASED"

\* A row the server has marked as revoked (expiry_job_id) has ended, and the
\* revocation is still the newest job of its login: no later job, from a
\* transfer, a reconnect or an owner's action, can put it back on the router
\* without first giving it time.  tenant.js queueExpiredSubscriptions and the
\* `disconnect` of manageVouchers both rely on this to queue it only once.
RevokedStaysRevoked ==
    \A i \in DOMAIN subs :
        subs[i].expiryJob # 0 /\ ~Gone(i) =>
            LET j == subs[i].expiryJob IN
            /\ ~Live(i)
            /\ j \in DOMAIN jobs
            /\ jobs[j].action = "revoke"
            /\ jobs[j].name = subs[i].name
            /\ IsNewest(j)
=============================================================================
