--------------------------- MODULE RouterQueueProofs ---------------------------
(***************************************************************************)
(* Ended packages stay off the router, what is acknowledged is done,        *)
(* ceilings rise and paid time is kept, for any number of vouchers,         *)
(* devices, rows, jobs and faults.                                          *)
(***************************************************************************)
EXTENDS RouterQueue, SubscriptionsProofs, Sums, FiniteSetTheorems, TLAPS

\* What vouchers hold, and the row a redeemed one opened.
VouchersTypeOK ==
    /\ vouchers \in [Codes -> [state : {"open", "redeemed", "deleted"}, seconds : Nat,
                               paused : BOOLEAN, held : Nat, row : Nat]]
    /\ \A c \in Codes : vouchers[c].state = "redeemed" => vouchers[c].row \in DOMAIN subs

CutInv == TablesInv /\ RevokedStaysRevoked
VouchersInv == CutInv /\ VouchersTypeOK

-----------------------------------------------------------------------------
(* Steps of one row *)

\* A step that writes one row g and queues jobs of its login only leaves every
\* other revocation the newest job of its login, for no two rows share one.
LEMMA OneRowStaysCut ==
    ASSUME CutInv, TablesInv', now' = now, NEW g \in DOMAIN subs',
           Len(jobs') >= Len(jobs),
           \A j \in DOMAIN jobs : jobs'[j] = jobs[j],
           \A j \in DOMAIN jobs' : j \notin DOMAIN jobs => jobs'[j].name = subs'[g].name,
           \A i \in DOMAIN subs' : i # g /\ subs'[i].mac # "RELEASED" =>
               i \in DOMAIN subs /\ subs'[i] = subs[i],
           \/ subs'[g].expiryJob = 0
           \/ /\ subs'[g].expires <= now
              /\ subs'[g].expiryJob = Len(jobs') /\ Len(jobs') > Len(jobs)
              /\ jobs'[Len(jobs')].action = "revoke"
    PROVE  CutInv'
  <1>1. /\ jobs \in Seq(Jobs) /\ jobs' \in Seq(Jobs) /\ subs' \in Seq(Rows) /\ now \in Nat
        /\ Len(jobs) \in Nat /\ Len(jobs') \in Nat
        /\ DOMAIN jobs = 1..Len(jobs) /\ DOMAIN jobs' = 1..Len(jobs')
    BY DEF CutInv, TablesInv, TablesTypeOK
  <1>2. ASSUME NEW i \in DOMAIN subs', subs'[i].expiryJob # 0, subs'[i].mac # "RELEASED"
        PROVE  LET j == subs'[i].expiryJob IN
               /\ ~(subs'[i].expires > now)
               /\ j \in DOMAIN jobs'
               /\ jobs'[j].action = "revoke" /\ jobs'[j].name = subs'[i].name
               /\ \A k \in DOMAIN jobs' : jobs'[k].name = jobs'[j].name => k <= j
    <2>1. CASE i = g
      <3>0. subs'[i] \in Rows
        BY <1>1, <1>2
      <3>1. subs'[i].expires \in Int
        BY <3>0 DEF Rows
      <3>2. /\ subs'[g].expires <= now /\ subs'[g].expiryJob = Len(jobs')
            /\ Len(jobs') > Len(jobs) /\ jobs'[Len(jobs')].action = "revoke"
        BY <1>2, <2>1
      <3>3. Len(jobs') \in DOMAIN jobs' /\ Len(jobs') \notin DOMAIN jobs
        BY <1>1, <3>2
      <3>4. jobs'[Len(jobs')].name = subs'[g].name /\ \A k \in DOMAIN jobs' : k <= Len(jobs')
        BY <1>1, <3>3
      <3>5. ~(subs'[g].expires > now)
        BY <1>1, <2>1, <3>1, <3>2
      <3> QED BY <2>1, <3>2, <3>3, <3>4, <3>5
    <2>2. CASE i # g
      <3>1. i \in DOMAIN subs /\ subs'[i] = subs[i]
        BY <1>2, <2>2
      <3>2. LET j == subs[i].expiryJob IN
            /\ ~(subs[i].expires > now)
            /\ j \in DOMAIN jobs /\ jobs[j].action = "revoke" /\ jobs[j].name = subs[i].name
            /\ \A k \in DOMAIN jobs : jobs[k].name = jobs[j].name => k <= j
        BY <1>2, <3>1 DEF CutInv, RevokedStaysRevoked, Gone, Live, IsNewest
      <3>3. subs'[i].name # subs'[g].name
        BY <2>2 DEF TablesInv, KeysUnique
      <3> QED BY <1>1, <3>1, <3>2, <3>3
    <2> QED BY <2>1, <2>2
  <1> QED BY <1>2 DEF CutInv, RevokedStaysRevoked, Gone, Live, IsNewest

\* The same, when one job is queued.
LEMMA OneJobStaysCut ==
    ASSUME CutInv, TablesInv', now' = now, NEW g \in DOMAIN subs', NEW job \in Jobs,
           jobs' = Append(jobs, job), job.name = subs'[g].name,
           \A i \in DOMAIN subs' : i # g /\ subs'[i].mac # "RELEASED" =>
               i \in DOMAIN subs /\ subs'[i] = subs[i],
           \/ subs'[g].expiryJob = 0
           \/ /\ subs'[g].expires <= now /\ subs'[g].expiryJob = Len(jobs) + 1
              /\ job.action = "revoke"
    PROVE  CutInv'
  <1>1. jobs \in Seq(Jobs)
    BY DEF CutInv, TablesInv, TablesTypeOK
  <1>2. /\ Len(jobs') = Len(jobs) + 1 /\ Len(jobs) \in Nat /\ jobs'[Len(jobs')] = job
        /\ \A j \in DOMAIN jobs : jobs'[j] = jobs[j]
        /\ \A j \in DOMAIN jobs' : j \notin DOMAIN jobs => jobs'[j] = job
    BY <1>1
  <1> QED BY <1>2, OneRowStaysCut

\* Steps that leave rows and queue as they are, but for delivery marks.
LEMMA SameRowsStayCut ==
    ASSUME CutInv, TablesInv', now' >= now, subs' = subs, DOMAIN jobs' = DOMAIN jobs,
           \A j \in DOMAIN jobs : jobs'[j].name = jobs[j].name /\ jobs'[j].action = jobs[j].action
    PROVE  CutInv'
  <1>1. now \in Int /\ now' \in Int /\ \A i \in DOMAIN subs : subs[i].expires \in Int
    BY RowTypes DEF CutInv, TablesInv, TablesTypeOK
  <1>2. ASSUME NEW i \in DOMAIN subs, subs[i].expiryJob # 0, subs[i].mac # "RELEASED"
        PROVE  LET j == subs[i].expiryJob IN
               /\ ~(subs[i].expires > now')
               /\ j \in DOMAIN jobs
               /\ jobs'[j].action = "revoke" /\ jobs'[j].name = subs[i].name
               /\ \A k \in DOMAIN jobs' : jobs'[k].name = jobs'[j].name => k <= j
    <2>1. LET j == subs[i].expiryJob IN
          /\ ~(subs[i].expires > now)
          /\ j \in DOMAIN jobs /\ jobs[j].action = "revoke" /\ jobs[j].name = subs[i].name
          /\ \A k \in DOMAIN jobs : jobs[k].name = jobs[j].name => k <= j
      BY <1>2 DEF CutInv, RevokedStaysRevoked, Gone, Live, IsNewest
    <2> QED BY <1>1, <2>1
  <1> QED BY <1>2 DEF CutInv, RevokedStaysRevoked, Gone, Live, IsNewest

\* A sale clears the mark of the row it lands on; rows it frees are gone.
LEMMA GrantStaysCut ==
    ASSUME CutInv, NEW p \in Phones, NEW m \in Macs, NEW k \in DeviceKinds, NEW s \in Nat,
           now' = now, GrantSubscription(p, m, k, s)
    PROVE  CutInv' /\ GrantedRow(p, m, k) \in DOMAIN subs' /\ DOMAIN subs \subseteq DOMAIN subs'
  <1> DEFINE g == GrantedRow(p, m, k)
             row == GrantedValue(p, m, k, s)
             job == GrantJob(p, m, k, s)
             R == Released(p, m, k)
  <1>1. TablesInv' /\ GrantFrame(p, m, k) /\ TablesTypeOK
    BY GrantKeepsTables DEF CutInv, TablesInv
  <1>2. g \in DOMAIN subs' /\ DOMAIN subs \subseteq DOMAIN subs'
    BY <1>1 DEF GrantFrame
  <1>3. GrantAction(p, m, k) \in Actions
    BY DEF GrantAction, UpsertAction, Actions
  <1>4. job \in Jobs /\ job.name = row.name /\ jobs' = Append(jobs, job)
    BY <1>1, <1>3, LoginJobType DEF GrantJob, LoginJob, NewJob, GrantSubscription
  <1>5. CASE OwnRows(p, m, k) # {}
    <2>1. subs' = [subs EXCEPT ![g] = row] /\ subs \in Seq(Rows) /\ g \in DOMAIN subs
      BY <1>1, <1>5, OwnRowType DEF GrantSubscription, GrantRow, TablesTypeOK
    <2>2. row.expiryJob = 0
      <3>1. subs[g] \in Rows
        BY <2>1
      <3> QED BY <1>5, <3>1 DEF GrantedValue, Rows
    <2> HIDE DEF row, g, job
    <2>3. subs'[g] = row /\ DOMAIN subs' = DOMAIN subs
          /\ \A i \in DOMAIN subs : i # g => subs'[i] = subs[i]
      BY <2>1
    <2>4. CutInv'
      BY <1>1, <1>2, <1>4, <2>2, <2>3, OneJobStaysCut DEF g
    <2> QED BY <1>2, <2>4 DEF g
  <1>6. CASE OwnRows(p, m, k) = {}
    <2>1. subs' = Append(R, row) /\ g = Len(subs) + 1 /\ subs \in Seq(Rows)
      BY <1>1, <1>6 DEF GrantSubscription, GrantRow, GrantedRow, TablesTypeOK
    <2>2. row.expiryJob = 0
      BY <1>6 DEF GrantedValue
    <2>3. /\ R \in Seq(Rows) /\ Len(R) = Len(subs)
          /\ \A i \in DOMAIN subs : R[i].mac = "RELEASED" \/ R[i] = subs[i]
      BY <1>1, ReleasedType
    <2> HIDE DEF row, g, job, R
    <2>4. subs'[g] = row /\ \A i \in DOMAIN subs' : i # g => i \in DOMAIN subs /\ subs'[i] = R[i]
      BY <2>1, <2>3
    <2>5. \A i \in DOMAIN subs' : i # g /\ subs'[i].mac # "RELEASED" =>
              i \in DOMAIN subs /\ subs'[i] = subs[i]
      BY <2>3, <2>4
    <2>6. CutInv'
      BY <1>1, <1>2, <1>4, <2>2, <2>4, <2>5, OneJobStaysCut DEF g
    <2> QED BY <1>2, <2>6 DEF g
  <1> QED BY <1>2, <1>5, <1>6

\* Time given to a row that has its device clears the mark.
LEMMA GiveTimeStaysCut ==
    ASSUME CutInv, NEW i \in DOMAIN subs, ~Gone(i), NEW extra \in Nat,
           GiveTime(i, extra), now' = now
    PROVE  CutInv' /\ DOMAIN subs' = DOMAIN subs
  <1> DEFINE total == subs[i].total + extra
             row == [subs[i] EXCEPT !.expires = Later(now, @) + extra, !.total = total, !.expiryJob = 0]
             job == NewJob(subs[i].name, UpsertAction(subs[i].kind), total, subs[i].mac)
  <1>1. /\ TablesInv /\ TablesTypeOK /\ subs \in Seq(Rows) /\ jobs \in Seq(Jobs) /\ now \in Nat
        /\ subs[i] \in Rows /\ subs[i].mac # "RELEASED"
    BY DEF CutInv, TablesInv, TablesTypeOK, Gone
  <1>2. total \in Nat /\ subs[i].name \in Names /\ subs[i].mac \in Macs \cup {"RELEASED"}
    BY <1>1 DEF Rows
  <1>3. UpsertAction(subs[i].kind) \in Actions
    BY DEF UpsertAction, Actions
  <1>4. job \in Jobs /\ job.name = subs[i].name
    BY <1>2, <1>3, JobType DEF NewJob
  <1>5. row \in Rows /\ row.name = subs[i].name /\ row.mac = subs[i].mac /\ row.expiryJob = 0
    <2>1. subs[i].expires \in Int
      BY <1>1 DEF Rows
    <2>2. Later(now, subs[i].expires) + extra \in Int
      BY <1>1, <2>1 DEF Later
    <2> HIDE DEF total
    <2> QED BY <1>1, <1>2, <2>2 DEF Rows
  <1>6. subs' = [subs EXCEPT ![i] = row] /\ jobs' = Append(jobs, job)
    BY DEF GiveTime, Provision
  <1> HIDE DEF row, job, total
  <1>7. /\ subs' \in Seq(Rows) /\ DOMAIN subs' = DOMAIN subs /\ subs'[i] = row
        /\ \A l \in DOMAIN subs : l # i => subs'[l] = subs[l]
        /\ jobs' \in Seq(Jobs)
    BY <1>1, <1>4, <1>5, <1>6
  <1>8. TablesInv'
    <2>1. ASSUME NEW l \in DOMAIN subs, subs[l].mac = "RELEASED"
          PROVE  subs'[l].expires <= now
      <3>1. ~(subs[l].expires > now) /\ subs[l].expires \in Int
        BY <1>1, <2>1, RowTypes DEF TablesInv, Live
      <3> QED BY <1>1, <1>7, <2>1, <3>1
    <2> QED BY <1>1, <1>5, <1>7, <2>1, SameKeys
  <1> QED BY <1>4, <1>5, <1>6, <1>7, <1>8, OneJobStaysCut

\* A package ended now is marked with its own revocation.
LEMMA DisconnectStaysCut ==
    ASSUME CutInv, NEW i \in DOMAIN subs, ~Gone(i), Disconnect(i), now' = now
    PROVE  CutInv' /\ DOMAIN subs' = DOMAIN subs
  <1> DEFINE row == [subs[i] EXCEPT !.expires = now - 1, !.expiryJob = Len(jobs) + 1]
             job == NewJob(subs[i].name, "revoke", 1, subs[i].mac)
  <1>1. /\ TablesInv /\ TablesTypeOK /\ subs \in Seq(Rows) /\ jobs \in Seq(Jobs) /\ now \in Nat
        /\ subs[i] \in Rows /\ subs[i].mac # "RELEASED" /\ Len(jobs) \in Nat
    BY DEF CutInv, TablesInv, TablesTypeOK, Gone
  <1>2. subs[i].name \in Names /\ subs[i].mac \in Macs \cup {"RELEASED"}
    BY <1>1 DEF Rows
  <1>3. job \in Jobs /\ job.name = subs[i].name /\ job.action = "revoke"
    BY <1>2, JobType DEF NewJob, Actions
  <1>4. /\ row \in Rows /\ row.name = subs[i].name /\ row.mac = subs[i].mac
        /\ row.expiryJob = Len(jobs) + 1 /\ row.expires <= now
    <2>1. now - 1 \in Int /\ Len(jobs) + 1 \in Nat /\ now - 1 <= now
      BY <1>1
    <2>2. row \in Rows
      BY <1>1, <2>1 DEF Rows
    <2> QED BY <1>1, <2>1, <2>2 DEF Rows
  <1>5. subs' = [subs EXCEPT ![i] = row] /\ jobs' = Append(jobs, job)
    BY DEF Disconnect
  <1> HIDE DEF row, job
  <1>6. /\ subs' \in Seq(Rows) /\ DOMAIN subs' = DOMAIN subs /\ subs'[i] = row
        /\ \A l \in DOMAIN subs : l # i => subs'[l] = subs[l]
        /\ jobs' \in Seq(Jobs)
    BY <1>1, <1>3, <1>4, <1>5
  <1>7. TablesInv'
    <2>1. ASSUME NEW l \in DOMAIN subs, subs[l].mac = "RELEASED"
          PROVE  subs'[l].expires <= now
      <3>1. ~(subs[l].expires > now) /\ subs[l].expires \in Int
        BY <1>1, <2>1, RowTypes DEF TablesInv, Live
      <3> QED BY <1>1, <1>6, <2>1, <3>1
    <2> QED BY <1>1, <1>4, <1>6, <2>1, SameKeys
  <1> QED BY <1>3, <1>4, <1>5, <1>6, <1>7, OneJobStaysCut

\* A running package carries no mark, so its login may be sent again.
LEMMA ResendStaysCut ==
    ASSUME CutInv, NEW i \in DOMAIN subs, Live(i), NEW a \in Actions,
           now' = now, subs' = subs,
           jobs' = Append(jobs, NewJob(subs[i].name, a, subs[i].total, subs[i].mac))
    PROVE  CutInv'
  <1> DEFINE job == NewJob(subs[i].name, a, subs[i].total, subs[i].mac)
  <1>1. TablesInv /\ TablesInv'
    BY ResendKeepsTables DEF CutInv
  <1>2. job \in Jobs /\ job.name = subs[i].name
    BY <1>1, RowTypes, JobType DEF TablesInv, NewJob
  <1>3. subs[i].expiryJob = 0
    BY <1>1 DEF CutInv, RevokedStaysRevoked, TablesInv, Gone
  <1> HIDE DEF job
  <1>4. jobs' = Append(jobs, job)
    BY DEF job
  <1> QED BY <1>1, <1>2, <1>3, <1>4, OneJobStaysCut

LEMMA TransferStaysCut ==
    ASSUME CutInv, NEW i \in DOMAIN subs, NEW m \in Macs, Transfer(i, m)
    PROVE  CutInv' /\ DOMAIN subs' = DOMAIN subs
  <1> DEFINE row == [subs[i] EXCEPT !.mac = m]
             action == IF subs[i].kind = "tv" THEN "tv-upsert" ELSE "transfer"
             job == NewJob(subs[i].name, action, subs[i].total, m)
  <1>1. TablesInv /\ TablesInv' /\ now' = now /\ Live(i)
    BY TransferKeepsTables DEF CutInv, Transfer
  <1>2. subs \in Seq(Rows) /\ subs[i] \in Rows
    BY <1>1 DEF TablesInv, TablesTypeOK
  <1>3. job \in Jobs /\ job.name = subs[i].name
    BY <1>2, JobType DEF Rows, NewJob, Actions
  <1>4. subs[i].expiryJob = 0
    BY <1>1 DEF CutInv, RevokedStaysRevoked, TablesInv, Gone
  <1>5. row.name = subs[i].name /\ row.expiryJob = subs[i].expiryJob
    BY <1>2 DEF Rows
  <1>6. subs' = [subs EXCEPT ![i] = row] /\ jobs' = Append(jobs, job)
    BY DEF Transfer
  <1> HIDE DEF row, job
  <1>7. /\ DOMAIN subs' = DOMAIN subs /\ subs'[i] = row
        /\ \A l \in DOMAIN subs : l # i => subs'[l] = subs[l]
    BY <1>2, <1>6
  <1> QED BY <1>1, <1>3, <1>4, <1>5, <1>6, <1>7, OneJobStaysCut

LEMMA TickStaysCut ==
    ASSUME CutInv, Tick
    PROVE  CutInv' /\ DOMAIN subs' = DOMAIN subs
  <1>1. TablesInv' /\ now' >= now /\ subs' = subs /\ jobs' = jobs
    BY TickKeepsTables DEF CutInv, Tick, TablesInv, TablesTypeOK
  <1> QED BY <1>1, SameRowsStayCut

-----------------------------------------------------------------------------
(* The owner's actions *)

\* A voucher row rewritten within its type.
LEMMA VoucherWritten ==
    ASSUME VouchersTypeOK, DOMAIN subs \subseteq DOMAIN subs', NEW c \in Codes, NEW v,
           v \in [state : {"open", "redeemed", "deleted"}, seconds : Nat,
                  paused : BOOLEAN, held : Nat, row : Nat],
           v.state = "redeemed" => v.row \in DOMAIN subs',
           vouchers' = [vouchers EXCEPT ![c] = v]
    PROVE  VouchersTypeOK'
  BY DEF VouchersTypeOK

LEMMA ManageStaysCut ==
    ASSUME VouchersInv, NEW c \in Codes, Manage(c)
    PROVE  VouchersInv'
  <1> DEFINE v == vouchers[c]
  <1>1. /\ CutInv /\ VouchersTypeOK /\ TablesInv
        /\ v \in [state : {"open", "redeemed", "deleted"}, seconds : Nat,
                  paused : BOOLEAN, held : Nat, row : Nat]
        /\ v.state = "redeemed" => v.row \in DOMAIN subs
        /\ ExtendBy \in Nat
    BY VouchersAssumption DEF VouchersInv, CutInv, VouchersTypeOK
  <1>2. ASSUME UNCHANGED tables  PROVE CutInv' /\ DOMAIN subs' = DOMAIN subs
    <2>1. TablesInv' /\ now' >= now /\ subs' = subs /\ jobs' = jobs
      BY <1>1, <1>2, StutterKeepsTables DEF tables, TablesInv, TablesTypeOK
    <2> QED BY <1>1, <2>1, SameRowsStayCut
  <1>3. CASE Delete(c)
    <2>1. vouchers' = [vouchers EXCEPT ![c] = [v EXCEPT !.state = "deleted", !.paused = FALSE]]
      BY <1>1, <1>3 DEF Delete, VouchersTypeOK
    <2> QED BY <1>1, <1>2, <1>3, <2>1, VoucherWritten DEF Delete, VouchersInv
  <1>4. CASE PauseUnused(c)
    <2>1. vouchers' = [vouchers EXCEPT ![c] = [v EXCEPT !.paused = TRUE]]
      BY <1>1, <1>4 DEF PauseUnused, VouchersTypeOK
    <2> QED BY <1>1, <1>2, <1>4, <2>1, VoucherWritten DEF PauseUnused, VouchersInv
  <1>5. CASE PauseSession(c)
    <2>1. CutInv' /\ DOMAIN subs' = DOMAIN subs
      BY <1>1, <1>5, DisconnectStaysCut DEF PauseSession
    <2>2. Remaining(v.row) \in Nat
      <3>1. subs[v.row].expires \in Int /\ now \in Nat
        BY <1>1, <1>5, RowTypes DEF PauseSession, TablesInv, TablesTypeOK
      <3> QED BY <3>1 DEF Remaining, Later
    <2>3. vouchers' = [vouchers EXCEPT ![c] = [v EXCEPT !.paused = TRUE, !.held = Remaining(v.row)]]
      BY <1>1, <1>5 DEF PauseSession, VouchersTypeOK
    <2> QED BY <1>1, <2>1, <2>2, <2>3, VoucherWritten DEF VouchersInv
  <1>6. CASE ResumeUnused(c)
    <2>1. vouchers' = [vouchers EXCEPT ![c] = [v EXCEPT !.paused = FALSE, !.held = 0]]
      BY <1>1, <1>6 DEF ResumeUnused, VouchersTypeOK
    <2> QED BY <1>1, <1>2, <1>6, <2>1, VoucherWritten DEF ResumeUnused, VouchersInv
  <1>7. CASE ResumeSession(c)
    <2>1. CutInv' /\ DOMAIN subs' = DOMAIN subs
      BY <1>1, <1>7, GiveTimeStaysCut DEF ResumeSession
    <2>2. vouchers' = [vouchers EXCEPT ![c] = [v EXCEPT !.paused = FALSE, !.held = 0]]
      BY <1>1, <1>7 DEF ResumeSession, VouchersTypeOK
    <2> QED BY <1>1, <2>1, <2>2, VoucherWritten DEF VouchersInv
  <1>8. CASE ExtendUnused(c)
    <2>1. vouchers' = [vouchers EXCEPT ![c] = [v EXCEPT !.seconds = @ + ExtendBy]]
      BY <1>1, <1>8 DEF ExtendUnused, VouchersTypeOK
    <2>2. [v EXCEPT !.seconds = @ + ExtendBy] \in [state : {"open", "redeemed", "deleted"}, seconds : Nat,
                                               paused : BOOLEAN, held : Nat, row : Nat]
      BY <1>1
    <2>3. CutInv' /\ DOMAIN subs' = DOMAIN subs
      BY <1>2, <1>8 DEF ExtendUnused
    <2>4. [v EXCEPT !.seconds = @ + ExtendBy].state = v.state /\ [v EXCEPT !.seconds = @ + ExtendBy].row = v.row
      BY <1>1
    <2> HIDE DEF v
    <2> QED BY <1>1, <2>1, <2>2, <2>3, <2>4, VoucherWritten DEF VouchersInv
  <1>9. CASE ExtendPaused(c)
    <2>1. vouchers' = [vouchers EXCEPT ![c] = [v EXCEPT !.held = @ + ExtendBy]]
      BY <1>1, <1>9 DEF ExtendPaused, VouchersTypeOK
    <2>2. [v EXCEPT !.held = @ + ExtendBy] \in [state : {"open", "redeemed", "deleted"}, seconds : Nat,
                                               paused : BOOLEAN, held : Nat, row : Nat]
      BY <1>1
    <2>3. CutInv' /\ DOMAIN subs' = DOMAIN subs
      BY <1>2, <1>9 DEF ExtendPaused
    <2>4. [v EXCEPT !.held = @ + ExtendBy].state = v.state /\ [v EXCEPT !.held = @ + ExtendBy].row = v.row
      BY <1>1
    <2> HIDE DEF v
    <2> QED BY <1>1, <2>1, <2>2, <2>3, <2>4, VoucherWritten DEF VouchersInv
  <1>10. CASE ExtendSession(c)
    <2>1. CutInv' /\ DOMAIN subs' = DOMAIN subs /\ vouchers' = vouchers
      BY <1>1, <1>10, GiveTimeStaysCut DEF ExtendSession
    <2> QED BY <1>1, <2>1 DEF VouchersInv, VouchersTypeOK
  <1> QED BY <1>3, <1>4, <1>5, <1>6, <1>7, <1>8, <1>9, <1>10 DEF Manage

LEMMA RedeemStaysCut ==
    ASSUME VouchersInv, NEW c \in Codes, NEW p \in Phones, NEW m \in Macs, Redeem(c, p, m)
    PROVE  VouchersInv'
  <1> DEFINE v == vouchers[c]
             g == GrantedRow(p, m, "phone")
  <1>1. /\ CutInv /\ VouchersTypeOK
        /\ v \in [state : {"open", "redeemed", "deleted"}, seconds : Nat,
                  paused : BOOLEAN, held : Nat, row : Nat]
        /\ "phone" \in DeviceKinds /\ now' = now
    BY DEF VouchersInv, VouchersTypeOK, DeviceKinds, Redeem
  <1>2. CutInv' /\ g \in DOMAIN subs' /\ DOMAIN subs \subseteq DOMAIN subs'
    BY <1>1, GrantStaysCut DEF Redeem
  <1>3. g \in Nat
    BY <1>2 DEF CutInv, TablesInv, TablesTypeOK
  <1>4. vouchers' = [vouchers EXCEPT ![c] = [v EXCEPT !.state = "redeemed", !.row = g]]
    BY <1>1 DEF Redeem, VouchersTypeOK
  <1> HIDE DEF g
  <1> QED BY <1>1, <1>2, <1>3, <1>4, VoucherWritten DEF VouchersInv

LEMMA CustomerStaysCut ==
    ASSUME VouchersInv, CustomerStep
    PROVE  VouchersInv'
  <1>1. CutInv' /\ DOMAIN subs' = DOMAIN subs
    <2>1. ASSUME NEW i \in DOMAIN subs, Connect(i)  PROVE CutInv' /\ DOMAIN subs' = DOMAIN subs
      <3>1. UpsertAction(subs[i].kind) \in Actions
        BY DEF UpsertAction, Actions
      <3> QED BY <2>1, <3>1, ResendStaysCut DEF Connect, VouchersInv
    <2>2. ASSUME NEW i \in DOMAIN subs, NEW m \in Macs, Transfer(i, m)
          PROVE  CutInv' /\ DOMAIN subs' = DOMAIN subs
      BY <2>2, TransferStaysCut DEF VouchersInv
    <2> QED BY <2>1, <2>2 DEF CustomerStep
  <1> QED BY <1>1 DEF CustomerStep, VouchersInv, VouchersTypeOK

-----------------------------------------------------------------------------

LEMMA VouchersInit == Init => VouchersInv
  <1> SUFFICES ASSUME Init PROVE VouchersInv
    OBVIOUS
  <1>1. now = 0 /\ subs = << >> /\ jobs = << >>
    BY DEF Init
  <1>2. DOMAIN subs = {} /\ subs \in Seq(Rows) /\ jobs \in Seq(Jobs)
    BY <1>1
  <1>3. CutInv
    BY <1>1, <1>2 DEF CutInv, TablesInv, TablesTypeOK, KeysUnique, RevokedStaysRevoked
  <1>4. VouchersTypeOK
    BY VouchersAssumption DEF Init, VouchersTypeOK
  <1> QED BY <1>3, <1>4 DEF VouchersInv

LEMMA VouchersStutter ==
    ASSUME VouchersInv, UNCHANGED vars
    PROVE  VouchersInv'
  <1>1. UNCHANGED tables /\ vouchers' = vouchers
    BY DEF vars
  <1>2. TablesInv' /\ now' >= now /\ subs' = subs /\ jobs' = jobs
    BY <1>1, StutterKeepsTables DEF VouchersInv, CutInv, TablesInv, TablesTypeOK, tables
  <1> QED BY <1>1, <1>2, SameRowsStayCut DEF VouchersInv, VouchersTypeOK

LEMMA VouchersNext ==
    ASSUME VouchersInv, Next
    PROVE  VouchersInv'
  <1>1. CASE \E c \in Codes : Manage(c) \/ \E p \in Phones, m \in Macs : Redeem(c, p, m)
    BY <1>1, ManageStaysCut, RedeemStaysCut
  <1>2. CASE CustomerStep
    BY <1>2, CustomerStaysCut
  <1>3. CASE Tick /\ UNCHANGED vouchers
    BY <1>3, TickStaysCut DEF VouchersInv, VouchersTypeOK
  <1> QED BY <1>1, <1>2, <1>3 DEF Next

\* Whatever is redeemed, paused, resumed, extended, moved or reconnected, a
\* package marked as ended has a revocation no later job of its login
\* overtakes (manageVouchers, queueExpiredSubscriptions).
THEOREM EndedPackagesStayCut == Spec => []RevokedStaysRevoked
  <1>1. VouchersInv /\ [Next]_vars => VouchersInv'
    BY VouchersNext, VouchersStutter
  <1>2. VouchersInv => RevokedStaysRevoked
    BY DEF VouchersInv, CutInv
  <1> QED BY VouchersInit, <1>1, <1>2, PTL DEF Spec


-----------------------------------------------------------------------------
(* What a sync does to the two tables *)

\* The work a job asks for: everything but its delivery marks.
SameWork(a, b) == a.name = b.name /\ a.action = b.action /\ a.total = b.total /\ a.mac = b.mac

LEMMA AckMarks ==
    ASSUME NEW js \in Seq(Jobs), NEW marked, NEW ks, ks = StaleExpired(js, marked)
    PROVE  /\ ks \in Seq(Jobs) /\ Len(ks) = Len(js) /\ DOMAIN ks = DOMAIN js
           /\ \A j \in DOMAIN js : /\ SameWork(ks[j], js[j])
                                   /\ ks[j].acked <=> js[j].acked \/ j \in marked
  <1>1. ASSUME NEW j \in DOMAIN js
        PROVE  /\ ks[j] \in Jobs /\ SameWork(ks[j], js[j])
               /\ ks[j].acked <=> js[j].acked \/ j \in marked
    <2>1. js[j] \in Jobs /\ ks[j] = IF j \in marked THEN [js[j] EXCEPT !.acked = TRUE] ELSE js[j]
      BY DEF StaleExpired
    <2> QED BY <2>1 DEF Jobs, SameWork
  <1>2. DOMAIN ks = 1..Len(js) /\ Len(js) \in Nat /\ DOMAIN js = 1..Len(js)
    BY DEF StaleExpired
  <1>3. ks \in [1..Len(js) -> Jobs]
    BY <1>1, <1>2 DEF StaleExpired
  <1> QED BY <1>1, <1>2, <1>3

LEMMA SentMarks ==
    ASSUME NEW js \in Seq(Jobs), NEW ids, NEW ks, ks = MarkedDelivered(js, ids)
    PROVE  /\ ks \in Seq(Jobs) /\ Len(ks) = Len(js) /\ DOMAIN ks = DOMAIN js
           /\ \A j \in DOMAIN js : SameWork(ks[j], js[j]) /\ ks[j].acked = js[j].acked
  <1>1. ASSUME NEW j \in DOMAIN js
        PROVE  ks[j] \in Jobs /\ SameWork(ks[j], js[j]) /\ ks[j].acked = js[j].acked
    <2>1. js[j] \in Jobs /\ ks[j] = IF j \in ids THEN [js[j] EXCEPT !.delivered = TRUE] ELSE js[j]
      BY DEF MarkedDelivered
    <2> QED BY <2>1 DEF Jobs, SameWork
  <1>2. DOMAIN ks = 1..Len(js) /\ Len(js) \in Nat /\ DOMAIN js = 1..Len(js)
    BY DEF MarkedDelivered
  <1>3. ks \in [1..Len(js) -> Jobs]
    BY <1>1, <1>2 DEF MarkedDelivered
  <1> QED BY <1>1, <1>2, <1>3

\* The queue after a sync: the old jobs, in their places, and one revocation
\* for each ended row.
Queued(js, order) ==
    /\ js \in Seq(Jobs) /\ Len(js) = Len(jobs) + Len(order)
    /\ \A j \in DOMAIN jobs :
          /\ SameWork(js[j], jobs[j])
          /\ js[j].acked => jobs[j].acked \/ j \in fitiAck \/ jobs[j].action = "reconnect"
    /\ \A k \in DOMAIN order : LET j == Len(jobs) + k IN
          /\ js[j].name = subs[order[k]].name /\ js[j].action = "revoke" /\ ~js[j].acked

LEMMA EndedFinite ==
    ASSUME TablesTypeOK
    PROVE  /\ Cardinality(Ended) \in Nat
           /\ \A order \in [1..Cardinality(Ended) -> Ended] :
                 order \in Seq(DOMAIN subs) /\ Len(order) = Cardinality(Ended)
  <1>1. DOMAIN subs = 1..Len(subs) /\ Len(subs) \in Nat
    BY DEF TablesTypeOK
  <1>2. IsFiniteSet(Ended) /\ Ended \subseteq DOMAIN subs
    <2>1. IsFiniteSet(DOMAIN subs)
      BY <1>1, FS_Interval
    <2>2. Ended \subseteq DOMAIN subs
      BY DEF Ended
    <2> QED BY <2>1, <2>2, FS_Subset
  <1>3. Cardinality(Ended) \in Nat
    BY <1>2, FS_CardinalityType
  <1> QED BY <1>2, <1>3

LEMMA SyncQueues ==
    ASSUME TablesTypeOK, NEW order \in [1..Cardinality(Ended) -> Ended],
           NEW stale \in SUBSET UnackedReconnects, NEW ids, NEW ks,
           ks = MarkedDelivered(StaleExpired(Acknowledged(jobs) \o ExpiryJobs(order), stale), ids)
    PROVE  Queued(ks, order)
  <1> DEFINE A == Acknowledged(jobs)
             E == ExpiryJobs(order)
             B == A \o E
             C == StaleExpired(B, stale)
  <1>1. /\ jobs \in Seq(Jobs) /\ Len(jobs) \in Nat /\ DOMAIN jobs = 1..Len(jobs)
        /\ order \in Seq(DOMAIN subs) /\ Len(order) \in Nat /\ DOMAIN order = 1..Len(order)
    BY EndedFinite DEF TablesTypeOK
  <1>2. A = StaleExpired(jobs, fitiAck)
    BY DEF Acknowledged, StaleExpired
  <1>3. /\ A \in Seq(Jobs) /\ Len(A) = Len(jobs) /\ DOMAIN A = DOMAIN jobs
        /\ \A j \in DOMAIN jobs : /\ SameWork(A[j], jobs[j])
                                  /\ A[j].acked <=> jobs[j].acked \/ j \in fitiAck
    <2> HIDE DEF A
    <2> QED BY <1>1, <1>2, AckMarks
  <1>4. ASSUME NEW k \in DOMAIN order
        PROVE  E[k] \in Jobs /\ E[k].name = subs[order[k]].name /\ E[k].action = "revoke" /\ ~E[k].acked
    <2>1. order[k] \in DOMAIN subs
      <3>1. order[k] \in Ended
        BY <1>4
      <3> QED BY <3>1 DEF Ended
    <2>4. E[k] = Revocation(order[k])
      BY <1>4 DEF ExpiryJobs
    <2>2. subs[order[k]].name \in Names /\ subs[order[k]].mac \in Macs \cup {"RELEASED"}
      BY <2>1, RowTypes
    <2>3. Revocation(order[k]) \in Jobs
      BY <2>2, JobType DEF Revocation, Actions
    <2> QED BY <2>3, <2>4 DEF Revocation, NewJob
  <1>5. E \in Seq(Jobs) /\ Len(E) = Len(order)
    <2>1. E \in [1..Len(order) -> Jobs]
      BY <1>1, <1>4 DEF ExpiryJobs
    <2> QED BY <1>1, <2>1
  <1> HIDE DEF A, E
  <1>6. /\ B \in Seq(Jobs) /\ Len(B) = Len(jobs) + Len(order)
        /\ \A j \in DOMAIN jobs : j \in DOMAIN B /\ B[j] = A[j]
        /\ \A k \in DOMAIN order : Len(jobs) + k \in DOMAIN B /\ B[Len(jobs) + k] = E[k]
    <2>1. B \in Seq(Jobs) /\ Len(B) = Len(A) + Len(E) /\ DOMAIN B = 1..(Len(A) + Len(E))
      BY <1>3, <1>5
    <2>2. ASSUME NEW j \in 1..(Len(A) + Len(E))
          PROVE  B[j] = IF j <= Len(A) THEN A[j] ELSE E[j - Len(A)]
      BY <1>3, <1>5, <2>2
    <2> HIDE DEF B
    <2>3. ASSUME NEW j \in DOMAIN jobs  PROVE j \in DOMAIN B /\ B[j] = A[j]
      BY <1>1, <1>3, <1>5, <2>1, <2>2
    <2>4. ASSUME NEW k \in DOMAIN order
          PROVE  Len(jobs) + k \in DOMAIN B /\ B[Len(jobs) + k] = E[k]
      BY <1>1, <1>3, <1>5, <2>1, <2>2
    <2> QED BY <1>3, <1>5, <2>1, <2>3, <2>4
  <1> HIDE DEF B
  <1>7. /\ C \in Seq(Jobs) /\ Len(C) = Len(B) /\ DOMAIN C = DOMAIN B
        /\ \A j \in DOMAIN B : SameWork(C[j], B[j]) /\ (C[j].acked <=> B[j].acked \/ j \in stale)
    BY <1>6, AckMarks
  <1> HIDE DEF C
  <1>8. /\ ks \in Seq(Jobs) /\ Len(ks) = Len(C) /\ DOMAIN ks = DOMAIN C
        /\ \A j \in DOMAIN C : SameWork(ks[j], C[j]) /\ ks[j].acked = C[j].acked
    BY <1>7, SentMarks DEF A, B, C, E
  <1>9. ASSUME NEW j \in DOMAIN jobs
        PROVE  /\ SameWork(ks[j], jobs[j])
               /\ ks[j].acked => jobs[j].acked \/ j \in fitiAck \/ jobs[j].action = "reconnect"
    <2>1. j \in stale => jobs[j].action = "reconnect"
      BY DEF UnackedReconnects
    <2> QED BY <1>3, <1>6, <1>7, <1>8, <2>1 DEF SameWork
  <1>10. ASSUME NEW k \in DOMAIN order
         PROVE  LET j == Len(jobs) + k IN
                /\ ks[j].name = subs[order[k]].name /\ ks[j].action = "revoke" /\ ~ks[j].acked
    <2>1. Len(jobs) + k \notin stale
      BY <1>1 DEF UnackedReconnects
    <2>2. Len(jobs) + k \in DOMAIN B /\ B[Len(jobs) + k] = E[k]
      BY <1>6
    <2>3. SameWork(ks[Len(jobs) + k], E[k]) /\ (ks[Len(jobs) + k].acked <=> E[k].acked)
      BY <1>7, <1>8, <2>1, <2>2 DEF SameWork
    <2> QED BY <1>4, <2>3 DEF SameWork
  <1> QED BY <1>6, <1>7, <1>8, <1>9, <1>10 DEF Queued

\* The rows after a sync: each ended one knows its revocation.
LEMMA SyncRows ==
    ASSUME TablesTypeOK, NEW order \in [1..Cardinality(Ended) -> Ended], InRowOrder(order),
           subs' = WithExpiryJobs(order)
    PROVE  /\ subs' \in Seq(Rows) /\ DOMAIN subs' = DOMAIN subs
           /\ \A i \in DOMAIN subs :
                /\ subs'[i].name = subs[i].name /\ subs'[i].mac = subs[i].mac
                /\ subs'[i].total = subs[i].total /\ subs'[i].expires = subs[i].expires
                /\ ~NeedsRevoke(i) => subs'[i] = subs[i]
                /\ NeedsRevoke(i) => \E k \in DOMAIN order :
                                        order[k] = i /\ subs'[i].expiryJob = Len(jobs) + k
  <1>1. /\ DOMAIN subs = 1..Len(subs) /\ Len(subs) \in Nat /\ Len(jobs) \in Nat
        /\ DOMAIN order = 1..Cardinality(Ended) /\ Cardinality(Ended) \in Nat
    BY EndedFinite DEF TablesTypeOK
  <1>2. ASSUME NEW i \in DOMAIN subs
        PROVE  /\ subs'[i] \in Rows
               /\ subs'[i].name = subs[i].name /\ subs'[i].mac = subs[i].mac
               /\ subs'[i].total = subs[i].total /\ subs'[i].expires = subs[i].expires
               /\ ~NeedsRevoke(i) => subs'[i] = subs[i]
               /\ NeedsRevoke(i) => \E k \in DOMAIN order :
                                       order[k] = i /\ subs'[i].expiryJob = Len(jobs) + k
    <2>1. subs[i] \in Rows
      BY RowTypes
    <2>2. CASE ~NeedsRevoke(i)
      BY <2>1, <2>2 DEF WithExpiryJobs
    <2>3. CASE NeedsRevoke(i)
      <3> DEFINE k == CHOOSE l \in DOMAIN order : order[l] = i
      <3>1. subs'[i] = [subs[i] EXCEPT !.expiryJob = Len(jobs) + k]
        BY <2>3 DEF WithExpiryJobs
      <3>2. i \in Range(order)
        BY <2>3 DEF InRowOrder, Ended
      <3>3. k \in DOMAIN order /\ order[k] = i
        BY <3>2 DEF Range
      <3> HIDE DEF k
      <3>4. Len(jobs) + k \in Nat
        BY <1>1, <3>3
      <3> QED BY <2>1, <2>3, <3>1, <3>3, <3>4 DEF Rows
    <2> QED BY <2>2, <2>3
  <1>3. DOMAIN subs' = DOMAIN subs
    BY DEF WithExpiryJobs
  <1>4. subs' \in [1..Len(subs) -> Rows]
    BY <1>1, <1>2 DEF WithExpiryJobs
  <1> QED BY <1>1, <1>2, <1>3, <1>4

LEMMA SyncStaysCut ==
    ASSUME CutInv, now' = now, NEW order \in [1..Cardinality(Ended) -> Ended], InRowOrder(order),
           subs' = WithExpiryJobs(order), Queued(jobs', order)
    PROVE  CutInv'
  <1>1. /\ TablesInv /\ TablesTypeOK /\ KeysUnique /\ jobs \in Seq(Jobs) /\ now \in Nat
        /\ Len(jobs) \in Nat /\ DOMAIN jobs = 1..Len(jobs) /\ DOMAIN subs \subseteq Nat
        /\ Len(order) \in Nat /\ DOMAIN order = 1..Len(order)
    BY EndedFinite DEF CutInv, TablesInv, TablesTypeOK
  <1>2. /\ subs' \in Seq(Rows) /\ DOMAIN subs' = DOMAIN subs
        /\ \A i \in DOMAIN subs :
             /\ subs'[i].name = subs[i].name /\ subs'[i].mac = subs[i].mac
             /\ subs'[i].total = subs[i].total /\ subs'[i].expires = subs[i].expires
             /\ ~NeedsRevoke(i) => subs'[i] = subs[i]
             /\ NeedsRevoke(i) => \E k \in DOMAIN order :
                                     order[k] = i /\ subs'[i].expiryJob = Len(jobs) + k
    BY <1>1, SyncRows
  <1>3. jobs' \in Seq(Jobs) /\ Len(jobs') = Len(jobs) + Len(order) /\ DOMAIN jobs' = 1..(Len(jobs) + Len(order))
    BY <1>1 DEF Queued
  <1>4. TablesInv'
    <2>1. ASSUME NEW i \in DOMAIN subs, subs[i].mac = "RELEASED"  PROVE subs'[i].expires <= now
      <3>1. ~(subs[i].expires > now) /\ subs[i].expires \in Int
        BY <1>1, <2>1, RowTypes DEF TablesInv, Live
      <3> QED BY <1>1, <1>2, <3>1
    <2> QED BY <1>1, <1>2, <1>3, <2>1, SameKeys
  <1>5. \A j \in DOMAIN jobs : jobs'[j].name = jobs[j].name /\ jobs'[j].action = jobs[j].action
    BY DEF Queued, SameWork
  <1>6. \A k \in DOMAIN order : /\ order[k] \in DOMAIN subs /\ NeedsRevoke(order[k])
                                /\ jobs'[Len(jobs) + k].name = subs[order[k]].name
                                /\ jobs'[Len(jobs) + k].action = "revoke"
    BY DEF Queued, Ended
  <1>7. ASSUME NEW j \in DOMAIN jobs', j \notin DOMAIN jobs
        PROVE  \E k \in DOMAIN order : j = Len(jobs) + k
    <2>1. j - Len(jobs) \in DOMAIN order /\ j = Len(jobs) + (j - Len(jobs))
      BY <1>1, <1>3, <1>7
    <2> QED BY <2>1
  <1>8. ASSUME NEW i \in DOMAIN subs, subs'[i].expiryJob # 0, subs[i].mac # "RELEASED"
        PROVE  LET j == subs'[i].expiryJob IN
               /\ ~(subs[i].expires > now)
               /\ j \in DOMAIN jobs'
               /\ jobs'[j].action = "revoke" /\ jobs'[j].name = subs[i].name
               /\ \A l \in DOMAIN jobs' : jobs'[l].name = jobs'[j].name => l <= j
    <2>1. CASE NeedsRevoke(i)
      <3>1. PICK k \in DOMAIN order : order[k] = i /\ subs'[i].expiryJob = Len(jobs) + k
        BY <1>2, <2>1
      <3>2. Len(jobs) + k \in DOMAIN jobs' /\ jobs'[Len(jobs) + k].name = subs[i].name
            /\ jobs'[Len(jobs) + k].action = "revoke"
        BY <1>1, <1>3, <1>6, <3>1
      <3>3. ASSUME NEW l \in DOMAIN jobs', jobs'[l].name = subs[i].name
            PROVE  l <= Len(jobs) + k
        <4>1. CASE l \in DOMAIN jobs
          BY <1>1, <4>1
        <4>2. CASE l \notin DOMAIN jobs
          <5>1. PICK h \in DOMAIN order : l = Len(jobs) + h
            BY <1>7, <4>2
          <5>2. order[h] = i
            BY <1>1, <1>6, <3>3, <5>1 DEF KeysUnique
          <5>3. ~(k < h)
            <6>1. i \in Nat
              BY <1>1
            <6> QED BY <3>1, <5>2, <6>1 DEF InRowOrder
          <5> QED BY <1>1, <5>1, <5>3
        <4> QED BY <4>1, <4>2
      <3>4. ~(subs[i].expires > now)
        BY <2>1 DEF NeedsRevoke, Live
      <3> QED BY <3>1, <3>2, <3>3, <3>4
    <2>2. CASE ~NeedsRevoke(i)
      <3> DEFINE j == subs[i].expiryJob
      <3>1. /\ subs'[i] = subs[i] /\ j # 0
        BY <1>2, <1>8, <2>2
      <3>2. /\ ~(subs[i].expires > now)
            /\ j \in DOMAIN jobs /\ jobs[j].action = "revoke" /\ jobs[j].name = subs[i].name
            /\ \A l \in DOMAIN jobs : jobs[l].name = jobs[j].name => l <= j
        BY <1>8, <3>1 DEF CutInv, RevokedStaysRevoked, Gone, Live, IsNewest
      <3> HIDE DEF j
      <3>3. ASSUME NEW l \in DOMAIN jobs', jobs'[l].name = subs[i].name  PROVE l <= j
        <4>1. CASE l \in DOMAIN jobs
          BY <1>5, <3>2, <3>3, <4>1
        <4>2. CASE l \notin DOMAIN jobs
          <5>1. PICK h \in DOMAIN order : l = Len(jobs) + h
            BY <1>7, <4>2
          <5>2. order[h] # i /\ order[h] \in DOMAIN subs
            BY <1>6, <2>2
          <5> QED BY <1>1, <1>6, <3>3, <5>1, <5>2 DEF KeysUnique
        <4> QED BY <4>1, <4>2
      <3>4. j \in DOMAIN jobs' /\ jobs'[j].action = "revoke" /\ jobs'[j].name = subs[i].name
        BY <1>1, <1>3, <1>5, <3>2
      <3> QED BY <3>1, <3>2, <3>3, <3>4 DEF j
    <2> QED BY <2>1, <2>2
  <1>9. RevokedStaysRevoked'
    BY <1>2, <1>8 DEF RevokedStaysRevoked, Gone, Live, IsNewest
  <1> QED BY <1>4, <1>9 DEF CutInv

\* Every step of the router and its server keeps the tables in order.
LEMMA QueueTables ==
    ASSUME VouchersInv, [RQNext]_rqVars
    PROVE  VouchersInv'
  <1>1. CASE Sale
    BY <1>1, ManageStaysCut, RedeemStaysCut, CustomerStaysCut DEF Sale
  <1>2. ASSUME NEW i \in DOMAIN subs, Reconnect(i)  PROVE VouchersInv'
    <2>1. CutInv'
      BY <1>2, ResendStaysCut DEF Reconnect, VouchersInv, Actions
    <2> QED BY <1>2, <2>1 DEF Reconnect, VouchersInv, VouchersTypeOK
  <1>3. ASSUME NEW due \in SUBSET Delivered, NEW stale \in SUBSET UnackedReconnects, Poll(due, stale)
        PROVE  VouchersInv'
    <2>1. PICK order \in [1..Cardinality(Ended) -> Ended] :
             /\ InRowOrder(order) /\ subs' = WithExpiryJobs(order)
             /\ jobs' = MarkedDelivered(StaleExpired(Acknowledged(jobs) \o ExpiryJobs(order), stale),
                            Emitted(StaleExpired(Acknowledged(jobs) \o ExpiryJobs(order), stale), due))
      BY <1>3 DEF Poll
    <2>2. TablesTypeOK /\ CutInv
      BY DEF VouchersInv, CutInv, TablesInv
    <2>3. Queued(jobs', order)
      BY <2>1, <2>2, SyncQueues
    <2>4. CutInv' /\ DOMAIN subs' = DOMAIN subs
      BY <1>3, <2>1, <2>2, <2>3, SyncStaysCut, SyncRows DEF Poll
    <2> QED BY <1>3, <2>4 DEF Poll, VouchersInv, VouchersTypeOK
  <1>4. CASE UNCHANGED vars
    BY <1>4, VouchersStutter
  <1>5. ASSUME NEW online \in SUBSET DOMAIN router, Clock(online)  PROVE VouchersInv'
    BY <1>5, TickStaysCut DEF Clock, VouchersInv, VouchersTypeOK
  <1>6. CASE (\E j \in reply.ids : RunBlock(j)) \/ EndScript \/ LoseReply \/ Restart \/ UNCHANGED rqVars
    BY <1>4, <1>6 DEF RunBlock, EndScript, LoseReply, Restart, rqVars
  <1> QED BY <1>1, <1>2, <1>3, <1>5, <1>6 DEF RQNext


-----------------------------------------------------------------------------
(* What the server believes done *)

Logins == [limit : Nat, mac : Macs \cup {"RELEASED"}, used : Nat]

\* Jobs that have run stay in the queue, and only they are acknowledged.
QueueTypeOK ==
    /\ router \in [DOMAIN router -> Logins]
    /\ reply \in [open : BOOLEAN, ids : SUBSET DOMAIN jobs, run : SUBSET ran]
    /\ ran \subseteq DOMAIN jobs /\ fitiAck \subseteq ran

\* A reconnect logs a device in; every other job writes its login.
Writes(j) == jobs[j].action # "reconnect"

\* The blocks still to run come behind whatever ran for their login.
InTurn == \A j \in Unrun, k \in ran : jobs[k].name = jobs[j].name => k <= j

AckedRan == \A j \in DOMAIN jobs : jobs[j].acked /\ Writes(j) => j \in ran

\* The last of a login's jobs to run is the newest of those that ran.
LastWriter(j) == \A k \in ran : Writes(k) /\ jobs[k].name = jobs[j].name => k <= j

LastIsDone == \A j \in ran : Writes(j) /\ LastWriter(j) => Done(jobs[j])

QueueInv == VouchersInv /\ QueueTypeOK /\ InTurn /\ AckedRan /\ LastIsDone

LEMMA QueueTypes ==
    ASSUME QueueInv
    PROVE  /\ jobs \in Seq(Jobs) /\ Len(jobs) \in Nat /\ DOMAIN jobs = 1..Len(jobs)
           /\ DOMAIN jobs \subseteq Nat /\ TablesTypeOK
  BY DEF QueueInv, VouchersInv, CutInv, TablesInv, TablesTypeOK

\* Jobs are only added, keep their work, and are acknowledged only if they ran
\* or write nothing.
QueueGrows ==
    /\ DOMAIN jobs \subseteq DOMAIN jobs'
    /\ \A j \in DOMAIN jobs : SameWork(jobs'[j], jobs[j])
    /\ \A j \in DOMAIN jobs' : jobs'[j].acked /\ jobs'[j].action # "reconnect" =>
          j \in DOMAIN jobs /\ (jobs[j].acked \/ j \in fitiAck)

\* The router's logins, but for the time they were used.
LoginsKept ==
    /\ DOMAIN router' = DOMAIN router /\ router' \in [DOMAIN router -> Logins]
    /\ \A n \in DOMAIN router : router'[n].limit = router[n].limit /\ router'[n].mac = router[n].mac

\* A reply that hands out newest jobs only.
FreshReply ==
    /\ reply' \in [open : BOOLEAN, ids : SUBSET DOMAIN jobs', run : {{}}]
    /\ \A j \in reply'.ids, k \in DOMAIN jobs' : jobs'[k].name = jobs'[j].name => k <= j

\* What the server and the clock do.
LEMMA ServerSide ==
    ASSUME QueueInv, VouchersInv', QueueGrows, LoginsKept, ran' = ran, fitiAck' = fitiAck,
           reply' = reply \/ FreshReply
    PROVE  QueueInv'
  <1>1. jobs \in Seq(Jobs) /\ DOMAIN jobs \subseteq Nat /\ jobs' \in Seq(Jobs)
    BY QueueTypes DEF VouchersInv, CutInv, TablesInv, TablesTypeOK
  <1>2. /\ QueueTypeOK /\ InTurn /\ AckedRan /\ LastIsDone
        /\ ran \subseteq DOMAIN jobs /\ fitiAck \subseteq ran
    BY DEF QueueInv, QueueTypeOK
  <1>3. \A j \in ran : j \in DOMAIN jobs' /\ SameWork(jobs'[j], jobs[j])
    BY <1>2 DEF QueueGrows
  <1>4. QueueTypeOK'
    <2>1. reply' \in [open : BOOLEAN, ids : SUBSET DOMAIN jobs', run : SUBSET ran]
      BY <1>2 DEF QueueTypeOK, QueueGrows, FreshReply
    <2> QED BY <1>2, <1>3, <2>1 DEF QueueTypeOK, LoginsKept
  <1>5. InTurn'
    <2>1. CASE reply' = reply
      <3>1. reply.ids \subseteq DOMAIN jobs /\ Unrun' = Unrun /\ Unrun \subseteq DOMAIN jobs
        BY <1>2, <2>1 DEF QueueTypeOK, Unrun
      <3> QED BY <1>2, <1>3, <3>1 DEF InTurn, QueueGrows, SameWork
    <2>2. CASE FreshReply
      BY <1>3, <2>2 DEF FreshReply, InTurn, Unrun
    <2> QED BY <2>1, <2>2
  <1>6. AckedRan'
    BY <1>2 DEF AckedRan, Writes, QueueGrows, SameWork
  <1>7. LastIsDone'
    <2>1. ASSUME NEW j \in ran, Writes(j)', LastWriter(j)'  PROVE Done(jobs[j])
      BY <1>2, <1>3, <2>1 DEF LastIsDone, Writes, LastWriter, SameWork
    <2>2. ASSUME NEW j \in ran, Done(jobs[j])  PROVE Done(jobs[j])'
      BY <1>3, <2>2 DEF Done, LoginsKept, SameWork
    <2> QED BY <2>1, <2>2 DEF LastIsDone
  <1> QED BY <1>4, <1>5, <1>6, <1>7 DEF QueueInv

\* A block of the script runs: it is its login's last writer now.
LEMMA BlockRuns ==
    ASSUME QueueInv, NEW j \in reply.ids, RunBlock(j)
    PROVE  QueueInv' /\ LastWriter(j)
  <1>1. /\ jobs \in Seq(Jobs) /\ DOMAIN jobs \subseteq Nat
        /\ QueueTypeOK /\ InTurn /\ AckedRan /\ LastIsDone
        /\ ran \subseteq DOMAIN jobs /\ fitiAck \subseteq ran
    BY QueueTypes DEF QueueInv, QueueTypeOK
  <1>2. /\ j \in Unrun /\ \A k \in Unrun : j <= k
        /\ router' = Execute(router, jobs[j]) /\ ran' = ran \cup {j} /\ fitiAck' = {}
        /\ reply' = [reply EXCEPT !.run = @ \cup {j}] /\ UNCHANGED vars
    BY DEF RunBlock
  <1>3. now' = now /\ subs' = subs /\ jobs' = jobs /\ vouchers' = vouchers
    BY <1>2 DEF vars, tables
  <1>4. /\ reply \in [open : BOOLEAN, ids : SUBSET DOMAIN jobs, run : SUBSET ran]
        /\ reply' \in [open : BOOLEAN, ids : SUBSET DOMAIN jobs, run : SUBSET ran']
        /\ reply'.ids = reply.ids /\ reply'.run = reply.run \cup {j} /\ j \in DOMAIN jobs
    BY <1>1, <1>2 DEF QueueTypeOK
  <1>5. jobs[j] \in Jobs
    BY <1>1, <1>4
  <1>6. LastWriter(j)
    BY <1>1, <1>2 DEF InTurn, LastWriter
  <1>7. VouchersInv'
    BY <1>2, VouchersStutter DEF QueueInv
  <1> DEFINE n == jobs[j].name
             used == IF n \in DOMAIN router /\ jobs[j].action # "fresh-start" THEN router[n].used ELSE 0
             login == [limit |-> jobs[j].total, mac |-> jobs[j].mac, used |-> used]
  <1>8. /\ jobs[j].action = "revoke" => router' = Without(router, n)
        /\ jobs[j].action = "reconnect" => router' = router
        /\ jobs[j].action \notin {"revoke", "reconnect"} => router' = WithLogin(router, n, login)
    BY <1>2 DEF Execute
  <1>9. login \in Logins
    <2>1. used \in Nat
      BY <1>1 DEF QueueTypeOK, Logins
    <2> HIDE DEF used
    <2> QED BY <1>5, <2>1 DEF Logins, Jobs
  <1> HIDE DEF login, n, used
  <1>10. /\ router' \in [DOMAIN router' -> Logins]
         /\ \A m \in DOMAIN router' : m # n => m \in DOMAIN router /\ router'[m] = router[m]
         /\ \A m \in DOMAIN router : m # n => m \in DOMAIN router'
    BY <1>1, <1>8, <1>9 DEF QueueTypeOK, Without, WithLogin
  <1>11. Writes(j) => Done(jobs[j])'
    <2>1. login.limit = jobs[j].total /\ login.mac = jobs[j].mac
      BY DEF login
    <2> QED BY <1>3, <1>8, <2>1 DEF Writes, Done, Without, WithLogin, n
  <1>12. QueueTypeOK'
    BY <1>1, <1>2, <1>3, <1>4, <1>10 DEF QueueTypeOK
  <1>13. InTurn'
    <2>1. Unrun' \subseteq Unrun
      BY <1>4 DEF Unrun
    <2> QED BY <1>1, <1>2, <1>3, <2>1 DEF InTurn
  <1>14. AckedRan'
    BY <1>1, <1>2, <1>3 DEF AckedRan, Writes
  <1>15. LastIsDone'
    <2>1. ASSUME NEW i \in ran', Writes(i), LastWriter(i)'  PROVE Done(jobs[i])'
      <3>1. CASE i = j
        BY <1>11, <2>1, <3>1
      <3>2. CASE i # j
        <4>1. i \in ran /\ i \in DOMAIN jobs /\ LastWriter(i)
          BY <1>1, <1>2, <1>3, <2>1, <3>2 DEF LastWriter, Writes
        <4>2. Done(jobs[i])
          BY <1>1, <2>1, <4>1 DEF LastIsDone
        <4>3. CASE jobs[i].name # n
          BY <1>3, <1>10, <4>2, <4>3 DEF Done
        <4>4. CASE jobs[i].name = n
          <5>1. i <= j
            BY <1>1, <1>2, <4>1, <4>4 DEF InTurn, n
          <5>2. Writes(j) => j <= i
            BY <1>2, <1>3, <2>1, <4>4 DEF LastWriter, Writes, n
          <5>3. ~Writes(j)
            BY <1>1, <1>4, <3>2, <4>1, <5>1, <5>2
          <5> QED BY <1>3, <1>8, <4>2, <5>3 DEF Writes, Done
        <4> QED BY <4>3, <4>4
      <3> QED BY <3>1, <3>2
    <2> QED BY <1>3, <2>1 DEF LastIsDone, Writes
  <1> QED BY <1>6, <1>7, <1>12, <1>13, <1>14, <1>15 DEF QueueInv

\* The script ends, or the reply is lost with what the globals held.
LEMMA ReplyGone ==
    ASSUME QueueInv, UNCHANGED <<vars, router, ran>>, reply' = NoReply,
           fitiAck' \in {fitiAck, {}} \/ EndScript
    PROVE  QueueInv'
  <1>1. now' = now /\ subs' = subs /\ jobs' = jobs /\ vouchers' = vouchers /\ router' = router /\ ran' = ran
    BY DEF vars, tables
  <1>2. VouchersInv'
    BY VouchersStutter DEF QueueInv
  <1>3. fitiAck' \subseteq ran
    BY DEF QueueInv, QueueTypeOK, EndScript, Unrun
  <1>4. QueueTypeOK'
    BY <1>1, <1>3 DEF QueueInv, QueueTypeOK, NoReply
  <1>5. InTurn'
    BY DEF InTurn, Unrun, NoReply
  <1>6. AckedRan' /\ LastIsDone'
    BY <1>1 DEF QueueInv, AckedRan, LastIsDone, LastWriter, Writes, Done
  <1> QED BY <1>2, <1>4, <1>5, <1>6 DEF QueueInv


-----------------------------------------------------------------------------
(* What a sale queues, and what it makes of the rows *)

\* At most one job is queued, not yet acknowledged, and unless it is a removal
\* it carries the ceiling of the row whose login it names.
QueuesOne ==
    \/ jobs' = jobs
    \/ \E job \in Jobs :
          /\ jobs' = Append(jobs, job) /\ ~job.acked
          /\ \/ job.action = "revoke"
             \/ \E i \in DOMAIN subs' : subs'[i].name = job.name /\ subs'[i].total = job.total

\* The payer and device a name was made of, also after its row was released.
SameLogin(a, b) == a.payer = b.payer /\ a.mac = b.mac

\* No row is made another login's, and its ceiling only rises.
RowsRise ==
    \A i \in DOMAIN subs :
        /\ i \in DOMAIN subs'
        /\ SameLogin(subs'[i].name, subs[i].name)
        /\ ~ExpiryV2 => subs'[i].total >= subs[i].total

LEMMA RowsSame ==
    ASSUME TablesTypeOK, DOMAIN subs' = DOMAIN subs,
           \A i \in DOMAIN subs : subs'[i].name = subs[i].name /\ subs'[i].total = subs[i].total
    PROVE  RowsRise
  <1>1. \A i \in DOMAIN subs : subs[i].total \in Nat
    BY RowTypes
  <1> QED BY <1>1 DEF RowsRise, SameLogin

\* A job of a row's login with the row's ceiling.
LEMMA QueuesLogin ==
    ASSUME TablesTypeOK, NEW i \in DOMAIN subs, NEW a \in Actions, NEW m \in Macs \cup {"RELEASED"},
           NEW total \in Nat, i \in DOMAIN subs', subs'[i].name = subs[i].name, subs'[i].total = total,
           jobs' = Append(jobs, NewJob(subs[i].name, a, total, m))
    PROVE  QueuesOne
  <1>1. NewJob(subs[i].name, a, total, m) \in Jobs
    BY RowTypes, JobType
  <1>2. /\ NewJob(subs[i].name, a, total, m).name = subs[i].name
        /\ NewJob(subs[i].name, a, total, m).total = total
        /\ ~NewJob(subs[i].name, a, total, m).acked
    BY DEF NewJob
  <1> QED BY <1>1, <1>2 DEF QueuesOne

LEMMA ReleasedLogins ==
    ASSUME TablesTypeOK, NEW p \in Phones, NEW m \in Macs, NEW k \in DeviceKinds
    PROVE  \A i \in DOMAIN subs : /\ SameLogin(Released(p, m, k)[i].name, subs[i].name)
                                  /\ Released(p, m, k)[i].total = subs[i].total
  <1> SUFFICES ASSUME NEW i \in DOMAIN subs
               PROVE  /\ SameLogin(Released(p, m, k)[i].name, subs[i].name)
                      /\ Released(p, m, k)[i].total = subs[i].total
    OBVIOUS
  <1>1. subs[i] \in Rows /\ subs[i].name \in Names
    BY RowTypes
  <1>2. SameLogin(Suffixed(subs[i].name, i), subs[i].name)
    BY <1>1 DEF Suffixed, Names, SameLogin
  <1>3. Released(p, m, k)[i] = IF i \in ForeignRows(p, m, k)
                               THEN [subs[i] EXCEPT !.mac = "RELEASED", !.name = Suffixed(subs[i].name, i)]
                               ELSE subs[i]
    BY DEF Released
  <1> QED BY <1>1, <1>2, <1>3 DEF Rows, SameLogin

LEMMA GrantQueues ==
    ASSUME TablesInv, NEW p \in Phones, NEW m \in Macs, NEW k \in DeviceKinds, NEW s \in Nat,
           now' = now, GrantSubscription(p, m, k, s)
    PROVE  QueuesOne /\ RowsRise
  <1> DEFINE g == GrantedRow(p, m, k)
             row == GrantedValue(p, m, k, s)
             job == GrantJob(p, m, k, s)
             R == Released(p, m, k)
  <1>1. TablesTypeOK /\ subs \in Seq(Rows) /\ GrantAction(p, m, k) \in Actions
    BY DEF TablesInv, TablesTypeOK, GrantAction, UpsertAction, Actions
  <1>2. job \in Jobs /\ jobs' = Append(jobs, job)
        /\ job.name = row.name /\ job.total = row.total /\ ~job.acked
    BY <1>1, LoginJobType DEF GrantJob, LoginJob, NewJob, GrantSubscription
  <1>3. CASE OwnRows(p, m, k) # {}
    <2>1. subs' = [subs EXCEPT ![g] = row] /\ g \in DOMAIN subs /\ subs[g] \in Rows
      BY <1>1, <1>3, OwnRowType DEF GrantSubscription, GrantRow
    <2>2. row.name = subs[g].name /\ (~ExpiryV2 => row.total >= subs[g].total)
      <3>1. row.name = subs[g].name
        BY <1>1, <1>3, RenewedType
      <3>2. ~ExpiryV2 => row.total = subs[g].total + s
        BY <1>3, <2>1 DEF GrantedValue, FreshCycle, Rows
      <3>3. subs[g].total \in Nat
        BY <2>1 DEF Rows
      <3> HIDE DEF row, g
      <3> QED BY <3>1, <3>2, <3>3
    <2> HIDE DEF row, g, job
    <2>3. DOMAIN subs' = DOMAIN subs /\ subs'[g] = row /\ \A i \in DOMAIN subs : i # g => subs'[i] = subs[i]
      BY <2>1
    <2>4. \A i \in DOMAIN subs : subs[i].total \in Nat
      BY <1>1, RowTypes
    <2> QED BY <1>2, <2>1, <2>2, <2>3, <2>4 DEF QueuesOne, RowsRise, SameLogin
  <1>4. CASE OwnRows(p, m, k) = {}
    <2>1. subs' = Append(R, row)
      BY <1>4 DEF GrantSubscription, GrantRow
    <2>2. /\ R \in Seq(Rows) /\ Len(R) = Len(subs) /\ DOMAIN R = DOMAIN subs
          /\ \A i \in DOMAIN subs : SameLogin(R[i].name, subs[i].name) /\ R[i].total = subs[i].total
      BY <1>1, ReleasedType, ReleasedLogins
    <2> HIDE DEF row, R, job
    <2>3. /\ Len(subs) + 1 \in DOMAIN subs' /\ subs'[Len(subs) + 1] = row
          /\ \A i \in DOMAIN subs : i \in DOMAIN subs' /\ subs'[i] = R[i]
      BY <1>1, <2>1, <2>2
    <2>4. \A i \in DOMAIN subs : subs[i].total \in Nat
      BY <1>1, RowTypes
    <2>5. RowsRise
      BY <2>2, <2>3, <2>4 DEF RowsRise
    <2> QED BY <1>2, <2>3, <2>5 DEF QueuesOne
  <1> QED BY <1>3, <1>4

LEMMA GiveTimeQueues ==
    ASSUME TablesTypeOK, NEW i \in DOMAIN subs, NEW extra \in Nat, GiveTime(i, extra)
    PROVE  QueuesOne /\ RowsRise
  <1> DEFINE total == subs[i].total + extra
  <1>1. subs \in Seq(Rows) /\ subs[i] \in Rows /\ subs[i].total \in Nat /\ total \in Nat
        /\ subs[i].mac \in Macs \cup {"RELEASED"} /\ UpsertAction(subs[i].kind) \in Actions
    BY RowTypes DEF TablesTypeOK, UpsertAction, Actions
  <1>2. /\ DOMAIN subs' = DOMAIN subs
        /\ subs'[i].name = subs[i].name /\ subs'[i].total = total
        /\ \A l \in DOMAIN subs : l # i => subs'[l] = subs[l]
    <2>1. subs' = [subs EXCEPT ![i] = [subs[i] EXCEPT !.expires = Later(now, @) + extra,
                                                      !.total = total, !.expiryJob = 0]]
      BY <1>1 DEF GiveTime
    <2> HIDE DEF total
    <2> QED BY <1>1, <2>1 DEF Rows
  <1>3. jobs' = Append(jobs, NewJob(subs[i].name, UpsertAction(subs[i].kind), total, subs[i].mac))
    BY DEF GiveTime, Provision
  <1>4. \A l \in DOMAIN subs : subs[l].total \in Nat
    BY RowTypes
  <1>5. RowsRise
    BY <1>1, <1>2, <1>4 DEF RowsRise, SameLogin
  <1> HIDE DEF total
  <1> QED BY <1>1, <1>2, <1>3, <1>5, QueuesLogin

LEMMA DisconnectQueues ==
    ASSUME TablesTypeOK, NEW i \in DOMAIN subs, Disconnect(i)
    PROVE  QueuesOne /\ RowsRise
  <1>1. subs \in Seq(Rows) /\ subs[i] \in Rows /\ subs[i].name \in Names
        /\ subs[i].mac \in Macs \cup {"RELEASED"}
    BY RowTypes DEF TablesTypeOK
  <1>2. DOMAIN subs' = DOMAIN subs
        /\ \A l \in DOMAIN subs : subs'[l].name = subs[l].name /\ subs'[l].total = subs[l].total
    <2>1. subs' = [subs EXCEPT ![i] = [subs[i] EXCEPT !.expires = now - 1, !.expiryJob = Len(jobs) + 1]]
      BY <1>1 DEF Disconnect
    <2> QED BY <1>1, <2>1 DEF Rows
  <1>3. NewJob(subs[i].name, "revoke", 1, subs[i].mac) \in Jobs
    BY <1>1, JobType DEF Actions
  <1>4. jobs' = Append(jobs, NewJob(subs[i].name, "revoke", 1, subs[i].mac))
    BY DEF Disconnect
  <1>5. QueuesOne
    BY <1>3, <1>4 DEF QueuesOne, NewJob
  <1> QED BY <1>2, <1>5, RowsSame

\* Every sale, transfer and action of the owner queues one job at most.
LEMMA SaleQueues ==
    ASSUME VouchersInv, Sale
    PROVE  QueuesOne /\ RowsRise
  <1>1. /\ TablesInv /\ TablesTypeOK /\ ExtendBy \in Nat
        /\ \A c \in Codes : /\ vouchers[c].seconds \in Nat /\ vouchers[c].held \in Nat
                            /\ vouchers[c].state = "redeemed" => vouchers[c].row \in DOMAIN subs
    BY VouchersAssumption DEF VouchersInv, CutInv, TablesInv, VouchersTypeOK
  <1>2. ASSUME UNCHANGED tables  PROVE QueuesOne /\ RowsRise
    BY <1>1, <1>2, RowsSame DEF tables, QueuesOne
  <1>3. ASSUME NEW c \in Codes, Manage(c)  PROVE QueuesOne /\ RowsRise
    <2>1. CASE Delete(c) \/ PauseUnused(c) \/ ResumeUnused(c) \/ ExtendUnused(c) \/ ExtendPaused(c)
      BY <1>2, <2>1 DEF Delete, PauseUnused, ResumeUnused, ExtendUnused, ExtendPaused
    <2>2. CASE PauseSession(c)
      BY <1>1, <2>2, DisconnectQueues DEF PauseSession
    <2>3. CASE ResumeSession(c)
      BY <1>1, <2>3, GiveTimeQueues DEF ResumeSession
    <2>4. CASE ExtendSession(c)
      BY <1>1, <2>4, GiveTimeQueues DEF ExtendSession
    <2> QED BY <1>3, <2>1, <2>2, <2>3, <2>4 DEF Manage
  <1>4. ASSUME NEW c \in Codes, NEW p \in Phones, NEW m \in Macs, Redeem(c, p, m)
        PROVE  QueuesOne /\ RowsRise
    BY <1>1, <1>4, GrantQueues DEF Redeem, DeviceKinds
  <1>5. ASSUME NEW i \in DOMAIN subs, Connect(i)  PROVE QueuesOne /\ RowsRise
    <2>1. UpsertAction(subs[i].kind) \in Actions
      BY DEF UpsertAction, Actions
    <2> QED BY <1>1, <1>5, <2>1, RowTypes, QueuesLogin, RowsSame DEF Connect
  <1>6. ASSUME NEW i \in DOMAIN subs, NEW m \in Macs, Transfer(i, m)  PROVE QueuesOne /\ RowsRise
    <2> DEFINE action == IF subs[i].kind = "tv" THEN "tv-upsert" ELSE "transfer"
    <2>1. action \in Actions /\ subs[i].total \in Nat /\ subs \in Seq(Rows) /\ subs[i] \in Rows
      BY <1>1, RowTypes DEF Actions, TablesTypeOK
    <2>2. jobs' = Append(jobs, NewJob(subs[i].name, action, subs[i].total, m))
      BY <1>6 DEF Transfer
    <2>3. DOMAIN subs' = DOMAIN subs
          /\ \A l \in DOMAIN subs : subs'[l].name = subs[l].name /\ subs'[l].total = subs[l].total
      BY <1>6, <2>1 DEF Transfer, Rows
    <2> HIDE DEF action
    <2> QED BY <1>1, <2>1, <2>2, <2>3, QueuesLogin, RowsSame
  <1> QED BY <1>3, <1>4, <1>5, <1>6 DEF Sale, CustomerStep


-----------------------------------------------------------------------------
(* The server's steps, in one form *)

\* What a job that is queued asks for is a removal or its row's ceiling.
NewJobsFit ==
    \A j \in DOMAIN jobs' :
        \/ j \in DOMAIN jobs \/ jobs'[j].action = "revoke"
        \/ \E i \in DOMAIN subs' : subs'[i].name = jobs'[j].name /\ subs'[i].total = jobs'[j].total

ServerStep ==
    /\ QueueGrows /\ NewJobsFit /\ RowsRise /\ LoginsKept
    /\ ran' = ran /\ fitiAck' = fitiAck /\ (reply' = reply \/ FreshReply)

LEMMA OneJobGrows ==
    ASSUME TablesTypeOK, QueuesOne
    PROVE  QueueGrows /\ NewJobsFit
  <1>1. jobs \in Seq(Jobs) /\ Len(jobs) \in Nat /\ DOMAIN jobs = 1..Len(jobs)
    BY DEF TablesTypeOK
  <1>2. CASE jobs' = jobs
    BY <1>2 DEF QueueGrows, SameWork, NewJobsFit
  <1>3. ASSUME NEW job \in Jobs, jobs' = Append(jobs, job), ~job.acked,
               \/ job.action = "revoke"
               \/ \E i \in DOMAIN subs' : subs'[i].name = job.name /\ subs'[i].total = job.total
        PROVE  QueueGrows /\ NewJobsFit
    <2>1. /\ DOMAIN jobs \subseteq DOMAIN jobs'
          /\ \A j \in DOMAIN jobs : jobs'[j] = jobs[j]
          /\ \A j \in DOMAIN jobs' : j \notin DOMAIN jobs => jobs'[j] = job
      BY <1>1, <1>3
    <2> QED BY <1>3, <2>1 DEF QueueGrows, SameWork, NewJobsFit
  <1> QED BY <1>2, <1>3 DEF QueuesOne

LEMMA SyncGrows ==
    ASSUME TablesTypeOK, NEW order \in [1..Cardinality(Ended) -> Ended], Queued(jobs', order)
    PROVE  QueueGrows /\ NewJobsFit
  <1>1. /\ jobs \in Seq(Jobs) /\ Len(jobs) \in Nat /\ DOMAIN jobs = 1..Len(jobs)
        /\ Len(order) \in Nat /\ DOMAIN order = 1..Len(order)
        /\ DOMAIN jobs' = 1..(Len(jobs) + Len(order))
    BY EndedFinite DEF TablesTypeOK, Queued
  <1>2. ASSUME NEW j \in DOMAIN jobs', j \notin DOMAIN jobs
        PROVE  jobs'[j].action = "revoke" /\ ~jobs'[j].acked
    <2>1. j - Len(jobs) \in DOMAIN order /\ Len(jobs) + (j - Len(jobs)) = j
      BY <1>1, <1>2
    <2> QED BY <2>1 DEF Queued
  <1>3. /\ DOMAIN jobs \subseteq DOMAIN jobs'
        /\ \A j \in DOMAIN jobs :
             /\ SameWork(jobs'[j], jobs[j])
             /\ jobs'[j].acked => jobs[j].acked \/ j \in fitiAck \/ jobs[j].action = "reconnect"
    BY <1>1 DEF Queued
  <1>4. NewJobsFit
    BY <1>2 DEF NewJobsFit
  <1>5. QueueGrows
    BY <1>2, <1>3 DEF QueueGrows, SameWork
  <1> QED BY <1>4, <1>5

LEMMA LoginsUntouched ==
    ASSUME QueueTypeOK, router' = router
    PROVE  LoginsKept
  BY DEF QueueTypeOK, LoginsKept

LEMMA ServerSteps ==
    ASSUME QueueInv, Sale \/ (\E i \in DOMAIN subs : Reconnect(i)) \/ UNCHANGED rqVars
    PROVE  ServerStep
  <1>1. TablesTypeOK /\ VouchersInv /\ QueueTypeOK
    BY QueueTypes DEF QueueInv
  <1>2. CASE Sale
    <2>1. QueuesOne /\ RowsRise
      BY <1>1, <1>2, SaleQueues
    <2> QED BY <1>1, <1>2, <2>1, OneJobGrows, LoginsUntouched DEF Sale, ServerStep
  <1>3. ASSUME NEW i \in DOMAIN subs, Reconnect(i)  PROVE ServerStep
    <2>1. subs[i].mac \in Macs \cup {"RELEASED"} /\ subs[i].total \in Nat
      BY <1>1, RowTypes
    <2>2. subs' = subs /\ jobs' = Append(jobs, NewJob(subs[i].name, "reconnect", subs[i].total, subs[i].mac))
      BY <1>3 DEF Reconnect
    <2>3. QueuesOne /\ RowsRise
      BY <1>1, <2>1, <2>2, QueuesLogin, RowsSame DEF Actions
    <2> QED BY <1>1, <1>3, <2>3, OneJobGrows, LoginsUntouched DEF Reconnect, ServerStep
  <1>4. CASE UNCHANGED rqVars
    <2>1. subs' = subs /\ jobs' = jobs /\ router' = router /\ ran' = ran /\ fitiAck' = fitiAck /\ reply' = reply
      BY <1>4 DEF rqVars, vars, tables
    <2>2. QueuesOne /\ RowsRise
      BY <1>1, <2>1, RowsSame DEF QueuesOne
    <2> QED BY <1>1, <2>1, <2>2, OneJobGrows, LoginsUntouched DEF ServerStep
  <1> QED BY <1>2, <1>3, <1>4

LEMMA ClockStep ==
    ASSUME QueueInv, NEW online \in SUBSET DOMAIN router, Clock(online)
    PROVE  ServerStep
  <1>1. TablesTypeOK /\ router \in [DOMAIN router -> Logins]
    BY QueueTypes DEF QueueInv, QueueTypeOK
  <1>2. subs' = subs /\ jobs' = jobs
    BY DEF Clock, Tick
  <1>3. QueuesOne /\ RowsRise
    BY <1>1, <1>2, RowsSame DEF QueuesOne
  <1>4. LoginsKept
    <2>1. router' = [n \in DOMAIN router |->
                        IF n \in online THEN [router[n] EXCEPT !.used = @ + 1] ELSE router[n]]
      BY DEF Clock
    <2>2. ASSUME NEW n \in DOMAIN router
          PROVE  router'[n] \in Logins /\ router'[n].limit = router[n].limit /\ router'[n].mac = router[n].mac
      <3>1. router[n] \in Logins
        BY <1>1
      <3> QED BY <2>1, <3>1 DEF Logins
    <2> QED BY <2>1, <2>2 DEF LoginsKept
  <1> QED BY <1>1, <1>3, <1>4, OneJobGrows DEF Clock, ServerStep

LEMMA PollStep ==
    ASSUME QueueInv, NEW due, NEW stale \in SUBSET UnackedReconnects, Poll(due, stale)
    PROVE  ServerStep
  <1>1. PICK order \in [1..Cardinality(Ended) -> Ended] :
           LET js == StaleExpired(Acknowledged(jobs) \o ExpiryJobs(order), stale)
               ids == Emitted(js, due)
           IN  /\ InRowOrder(order) /\ subs' = WithExpiryJobs(order)
               /\ jobs' = MarkedDelivered(js, ids)
               /\ reply' = [open |-> TRUE, ids |-> ids, run |-> {}]
    BY DEF Poll
  <1> DEFINE js == StaleExpired(Acknowledged(jobs) \o ExpiryJobs(order), stale)
             ids == Emitted(js, due)
  <1>2. TablesTypeOK /\ QueueTypeOK
    BY QueueTypes DEF QueueInv
  <1>3. Queued(jobs', order)
    BY <1>1, <1>2, SyncQueues
  <1>4. QueueGrows /\ NewJobsFit
    BY <1>2, <1>3, SyncGrows
  <1>5. RowsRise
    BY <1>1, <1>2, SyncRows, RowsSame
  <1>6. FreshReply
    <2> HIDE DEF js
    <2>1. jobs' = MarkedDelivered(js, ids) /\ reply' = [open |-> TRUE, ids |-> ids, run |-> {}]
      BY <1>1 DEF js
    <2>2. DOMAIN jobs' = DOMAIN js
      BY <2>1 DEF MarkedDelivered
    <2>3. jobs' \in Seq(Jobs) /\ DOMAIN jobs' \subseteq Nat
      BY <1>3 DEF Queued
    <2>4. \A j \in DOMAIN js : jobs'[j].name = js[j].name
      <3> SUFFICES ASSUME NEW j \in DOMAIN js PROVE jobs'[j].name = js[j].name
        OBVIOUS
      <3>1. jobs'[j] \in Jobs
        BY <2>2, <2>3
      <3>2. jobs'[j] = IF j \in ids THEN [js[j] EXCEPT !.delivered = TRUE] ELSE js[j]
        BY <2>1 DEF MarkedDelivered
      <3> QED BY <3>1, <3>2 DEF Jobs
    <2>5. ids \subseteq DOMAIN js /\ \A j \in ids, k \in DOMAIN js : js[k].name = js[j].name => k <= j
      BY DEF Emitted, Batch, Waiting
    <2> HIDE DEF ids
    <2> QED BY <2>1, <2>2, <2>4, <2>5 DEF FreshReply
  <1> QED BY <1>2, <1>4, <1>5, <1>6, LoginsUntouched DEF Poll, ServerStep

\* A step of the system is one of the server and the clock, a block of the
\* script, or the end of a reply.
LEMMA StepForms ==
    ASSUME QueueInv, [RQNext]_rqVars
    PROVE  \/ ServerStep
           \/ \E j \in reply.ids : RunBlock(j)
           \/ /\ UNCHANGED <<vars, router, ran>> /\ reply' = NoReply
              /\ fitiAck' \in {fitiAck, {}} \/ EndScript
  <1>1. CASE Sale \/ (\E i \in DOMAIN subs : Reconnect(i)) \/ UNCHANGED rqVars
    BY <1>1, ServerSteps
  <1>2. CASE \E due \in SUBSET Delivered, stale \in SUBSET UnackedReconnects : Poll(due, stale)
    BY <1>2, PollStep
  <1>3. CASE \E online \in SUBSET DOMAIN router : Clock(online)
    BY <1>3, ClockStep
  <1>4. CASE EndScript \/ LoseReply \/ Restart
    BY <1>4 DEF EndScript, LoseReply, Restart
  <1> QED BY <1>1, <1>2, <1>3, <1>4 DEF RQNext

LEMMA QueueStep ==
    ASSUME QueueInv, [RQNext]_rqVars
    PROVE  QueueInv'
  <1>1. VouchersInv'
    BY QueueTables DEF QueueInv
  <1>2. CASE ServerStep
    BY <1>1, <1>2, ServerSide DEF ServerStep
  <1>3. CASE \E j \in reply.ids : RunBlock(j)
    BY <1>3, BlockRuns
  <1>4. CASE /\ UNCHANGED <<vars, router, ran>> /\ reply' = NoReply
             /\ fitiAck' \in {fitiAck, {}} \/ EndScript
    BY <1>4, ReplyGone
  <1> QED BY <1>2, <1>3, <1>4, StepForms

LEMMA QueueStarts == RQInit => QueueInv
  <1> SUFFICES ASSUME RQInit PROVE QueueInv
    OBVIOUS
  <1>1. VouchersInv /\ jobs = << >> /\ router = << >> /\ ran = {} /\ fitiAck = {} /\ reply = NoReply
    BY VouchersInit DEF RQInit, Init
  <1>2. DOMAIN jobs = {} /\ DOMAIN router = {} /\ router \in [DOMAIN router -> Logins]
    BY <1>1
  <1> QED BY <1>1, <1>2 DEF QueueInv, QueueTypeOK, InTurn, Unrun, NoReply, AckedRan, LastIsDone

LEMMA InvAckedIsDone == QueueInv => AckedIsDone
  <1> SUFFICES ASSUME QueueInv, NEW j \in DOMAIN jobs,
                      jobs[j].acked, IsNewest(j), jobs[j].action # "reconnect"
               PROVE  Done(jobs[j])
    BY DEF AckedIsDone
  <1>1. j \in ran /\ ran \subseteq DOMAIN jobs
    BY DEF QueueInv, AckedRan, Writes, QueueTypeOK
  <1> QED BY <1>1 DEF QueueInv, LastIsDone, LastWriter, Writes, IsNewest

\* Whatever was lost, cut short, sent twice or overtaken on the way, a job the
\* server counts as acknowledged and that no newer one of its login followed is
\* what the router has (acknowledgeTenantRouterJobs, pendingJobs, fiti-poll).
THEOREM AcknowledgedIsDone == RQSpec => []AckedIsDone
  <1>1. QueueInv /\ [RQNext]_rqVars => QueueInv'
    BY QueueStep
  <1> QED BY QueueStarts, <1>1, InvAckedIsDone, PTL DEF RQSpec

\* The sync, the telemetry and the router's own steps keep the revocation of an
\* ended package the last word on its login too (queueExpiredSubscriptions).
THEOREM EndedStayCutOnRouter == RQSpec => []RevokedStaysRevoked
  <1>1. QueueInv /\ [RQNext]_rqVars => QueueInv'
    BY QueueStep
  <1>2. QueueInv => RevokedStaysRevoked
    BY DEF QueueInv, VouchersInv, CutInv
  <1> QED BY QueueStarts, <1>1, <1>2, PTL DEF RQSpec


-----------------------------------------------------------------------------
(* Ceilings *)

\* No two rows were ever made for the same payer and device: nobody has bought
\* again on a device that another customer's sale took from them.
LoginsSoldOnce == \A i, l \in DOMAIN subs : i # l => ~SameLogin(subs[i].name, subs[l].name)

Provisions(j) == jobs[j].action # "revoke"

\* A job that provisions asks for no more than its row has by now.
JobsHaveRows ==
    \A j \in DOMAIN jobs : Provisions(j) =>
        \E i \in DOMAIN subs : SameLogin(subs[i].name, jobs[j].name) /\ jobs[j].total <= subs[i].total

\* Of two jobs of a login the newer one asks for at least as much.
TotalsRise ==
    \A j, k \in DOMAIN jobs :
        j <= k /\ Provisions(j) /\ Provisions(k) /\ jobs[j].name = jobs[k].name =>
            jobs[j].total <= jobs[k].total

\* A login's ceiling is that of a job that ran.
CeilingsAreSold ==
    \A n \in DOMAIN router : \E j \in ran :
        /\ jobs[j].name = n /\ Provisions(j) /\ Writes(j)
        /\ router[n].limit = jobs[j].total

CeilingInv == JobsHaveRows /\ TotalsRise /\ CeilingsAreSold

CeilingsKept == \A n \in DOMAIN router \cap DOMAIN router' : router'[n].limit >= router[n].limit

LEMMA ServerKeepsCeilings ==
    ASSUME QueueInv, QueueInv', CeilingInv, LoginsSoldOnce', ~ExpiryV2, ServerStep
    PROVE  CeilingInv' /\ CeilingsKept
  <1>1. /\ TablesTypeOK /\ TablesTypeOK'
        /\ DOMAIN jobs = 1..Len(jobs) /\ Len(jobs) \in Nat
        /\ jobs \in Seq(Jobs) /\ jobs' \in Seq(Jobs) /\ DOMAIN jobs' \subseteq Nat
    BY QueueTypes DEF QueueInv, VouchersInv, CutInv, TablesInv, TablesTypeOK
  <1>2. /\ \A j \in DOMAIN jobs : jobs[j].total \in Nat
        /\ \A j \in DOMAIN jobs' : jobs'[j].total \in Nat
        /\ \A i \in DOMAIN subs : subs[i].total \in Nat
    <2>1. \A j \in DOMAIN jobs : jobs[j] \in Jobs
      BY <1>1
    <2>2. \A j \in DOMAIN jobs' : jobs'[j] \in Jobs
      BY <1>1
    <2> QED BY <1>1, <2>1, <2>2, RowTypes DEF Jobs
  <1>3. \A i \in DOMAIN subs' : subs'[i].total \in Nat
    <2>1. \A i \in DOMAIN subs' : subs'[i] \in Rows
      BY <1>1 DEF TablesTypeOK
    <2> QED BY <2>1 DEF Rows
  <1>4. /\ \A j \in DOMAIN jobs : j \in DOMAIN jobs' /\ SameWork(jobs'[j], jobs[j])
        /\ \A j \in DOMAIN jobs' : j \notin DOMAIN jobs =>
              \/ jobs'[j].action = "revoke"
              \/ \E i \in DOMAIN subs' : subs'[i].name = jobs'[j].name /\ subs'[i].total = jobs'[j].total
        /\ \A i \in DOMAIN subs : /\ i \in DOMAIN subs' /\ SameLogin(subs'[i].name, subs[i].name)
                                  /\ subs'[i].total >= subs[i].total
    BY <1>3 DEF ServerStep, QueueGrows, NewJobsFit, RowsRise
  <1>5. ASSUME NEW j \in DOMAIN jobs, Provisions(j)
        PROVE  \E i \in DOMAIN subs' : /\ SameLogin(subs'[i].name, jobs[j].name)
                                       /\ jobs[j].total <= subs'[i].total
    <2>1. PICK i \in DOMAIN subs : SameLogin(subs[i].name, jobs[j].name) /\ jobs[j].total <= subs[i].total
      BY <1>5 DEF CeilingInv, JobsHaveRows
    <2>2. subs'[i].total >= subs[i].total /\ SameLogin(subs'[i].name, subs[i].name) /\ i \in DOMAIN subs'
      BY <1>4
    <2> QED BY <1>2, <1>3, <2>1, <2>2 DEF SameLogin
  <1>6. JobsHaveRows'
    <2>1. ASSUME NEW j \in DOMAIN jobs', jobs'[j].action # "revoke"
          PROVE  \E i \in DOMAIN subs' : /\ SameLogin(subs'[i].name, jobs'[j].name)
                                         /\ jobs'[j].total <= subs'[i].total
      <3>1. CASE j \in DOMAIN jobs
        BY <1>4, <1>5, <2>1, <3>1 DEF SameWork, Provisions
      <3>2. CASE j \notin DOMAIN jobs
        BY <1>2, <1>4, <2>1, <3>2 DEF SameLogin
      <3> QED BY <3>1, <3>2
    <2> QED BY <2>1 DEF JobsHaveRows, Provisions
  <1>7. TotalsRise'
    <2>1. ASSUME NEW j \in DOMAIN jobs', NEW k \in DOMAIN jobs', j <= k,
                 jobs'[j].action # "revoke", jobs'[k].action # "revoke", jobs'[j].name = jobs'[k].name
          PROVE  jobs'[j].total <= jobs'[k].total
      <3>1. CASE k \in DOMAIN jobs
        <4>1. j \in DOMAIN jobs
          BY <1>1, <2>1, <3>1
        <4> QED BY <1>4, <2>1, <3>1, <4>1 DEF CeilingInv, TotalsRise, SameWork, Provisions
      <3>2. CASE k \notin DOMAIN jobs
        <4>1. PICK i \in DOMAIN subs' : subs'[i].name = jobs'[k].name /\ subs'[i].total = jobs'[k].total
          BY <1>4, <2>1, <3>2
        <4>2. PICK l \in DOMAIN subs' : SameLogin(subs'[l].name, jobs'[j].name) /\ jobs'[j].total <= subs'[l].total
          BY <1>6, <2>1 DEF JobsHaveRows, Provisions
        <4>3. i = l
          BY <1>1, <2>1, <4>1, <4>2 DEF LoginsSoldOnce, SameLogin
        <4> QED BY <4>1, <4>2, <4>3
      <3> QED BY <3>1, <3>2
    <2> QED BY <2>1 DEF TotalsRise, Provisions
  <1>8. LoginsKept /\ ran' = ran /\ ran \subseteq DOMAIN jobs /\ router \in [DOMAIN router -> Logins]
    BY DEF ServerStep, QueueInv, QueueTypeOK
  <1>9. CeilingsAreSold'
    <2>1. ASSUME NEW n \in DOMAIN router'
          PROVE  \E j \in ran : /\ jobs'[j].name = n /\ jobs'[j].action \notin {"revoke", "reconnect"}
                                /\ router'[n].limit = jobs'[j].total
      <3>1. n \in DOMAIN router /\ router'[n].limit = router[n].limit
        BY <1>8, <2>1 DEF LoginsKept
      <3>2. PICK j \in ran : /\ jobs[j].name = n /\ Provisions(j) /\ Writes(j)
                             /\ router[n].limit = jobs[j].total
        BY <3>1 DEF CeilingInv, CeilingsAreSold
      <3>3. SameWork(jobs'[j], jobs[j])
        BY <1>4, <1>8
      <3> QED BY <3>1, <3>2, <3>3 DEF SameWork, Provisions, Writes
    <2> QED BY <1>8, <2>1 DEF CeilingsAreSold, Provisions, Writes
  <1>10. CeilingsKept
    <2>1. \A n \in DOMAIN router : router[n].limit \in Nat
      BY <1>8 DEF Logins
    <2> QED BY <1>8, <2>1 DEF CeilingsKept, LoginsKept
  <1> QED BY <1>6, <1>7, <1>9, <1>10 DEF CeilingInv

\* A block raises its login's ceiling: what ran for the login before it was
\* queued before it.
LEMMA BlockKeepsCeilings ==
    ASSUME QueueInv, CeilingInv, NEW j \in reply.ids, RunBlock(j)
    PROVE  CeilingInv' /\ CeilingsKept
  <1>1. /\ jobs \in Seq(Jobs) /\ DOMAIN jobs \subseteq Nat /\ ran \subseteq DOMAIN jobs /\ j \in DOMAIN jobs
        /\ router \in [DOMAIN router -> Logins] /\ InTurn
    BY QueueTypes DEF QueueInv, QueueTypeOK
  <1>2. /\ j \in Unrun /\ router' = Execute(router, jobs[j]) /\ ran' = ran \cup {j}
        /\ now' = now /\ subs' = subs /\ jobs' = jobs
    BY DEF RunBlock, vars, tables
  <1>3. JobsHaveRows' /\ TotalsRise'
    BY <1>2 DEF CeilingInv, JobsHaveRows, TotalsRise, Provisions
  <1>4. \A n \in DOMAIN router : router[n].limit \in Nat
    BY <1>1 DEF Logins
  <1>5. \A n \in DOMAIN router : \E k \in ran : /\ jobs[k].name = n /\ Provisions(k) /\ Writes(k)
                                               /\ router[n].limit = jobs[k].total
    BY DEF CeilingInv, CeilingsAreSold
  <1>6. CASE jobs[j].action \in {"revoke", "reconnect"}
    <2>1. \A n \in DOMAIN router' : n \in DOMAIN router /\ router'[n] = router[n]
      BY <1>2, <1>6 DEF Execute, Without
    <2>2. CeilingsKept
      BY <1>4, <2>1 DEF CeilingsKept
    <2>3. CeilingsAreSold'
      BY <1>2, <1>5, <2>1 DEF CeilingsAreSold, Provisions, Writes
    <2> QED BY <1>3, <2>2, <2>3 DEF CeilingInv
  <1>7. CASE jobs[j].action \notin {"revoke", "reconnect"}
    <2> DEFINE n == jobs[j].name
    <2>1. /\ n \in DOMAIN router' /\ router'[n].limit = jobs[j].total
          /\ \A m \in DOMAIN router' : m # n => m \in DOMAIN router /\ router'[m] = router[m]
      BY <1>2, <1>7 DEF Execute, WithLogin
    <2>2. jobs[j].total \in Nat /\ Provisions(j) /\ Writes(j)
      <3>1. jobs[j] \in Jobs
        BY <1>1
      <3> QED BY <1>7, <3>1 DEF Jobs, Provisions, Writes
    <2>3. CeilingsAreSold'
      <3>1. ASSUME NEW m \in DOMAIN router'
            PROVE  \E k \in ran' : /\ jobs[k].name = m /\ Provisions(k) /\ Writes(k)
                                   /\ router'[m].limit = jobs[k].total
        BY <1>2, <1>5, <2>1, <2>2
      <3> QED BY <1>2, <3>1 DEF CeilingsAreSold, Provisions, Writes
    <2>4. ASSUME n \in DOMAIN router  PROVE router'[n].limit >= router[n].limit
      <3>1. PICK k \in ran : /\ jobs[k].name = n /\ Provisions(k) /\ Writes(k)
                             /\ router[n].limit = jobs[k].total
        BY <1>5, <2>4
      <3>2. k <= j /\ k \in DOMAIN jobs
        BY <1>1, <1>2, <3>1 DEF InTurn
      <3>3. jobs[k].total <= jobs[j].total
        BY <1>1, <2>2, <3>1, <3>2 DEF CeilingInv, TotalsRise
      <3> QED BY <1>4, <2>1, <2>2, <2>4, <3>1, <3>3
    <2> HIDE DEF n
    <2>5. CeilingsKept
      BY <1>4, <2>1, <2>4 DEF CeilingsKept
    <2> QED BY <1>3, <2>3, <2>5 DEF CeilingInv
  <1> QED BY <1>6, <1>7

LEMMA CeilingStep ==
    ASSUME QueueInv, CeilingInv, LoginsSoldOnce', ~ExpiryV2, [RQNext]_rqVars
    PROVE  CeilingInv' /\ CeilingsKept
  <1>1. QueueInv'
    BY QueueStep
  <1>2. CASE ServerStep
    BY <1>1, <1>2, ServerKeepsCeilings
  <1>3. CASE \E j \in reply.ids : RunBlock(j)
    BY <1>3, BlockKeepsCeilings
  <1>4. CASE UNCHANGED <<vars, router, ran>>
    <2>1. subs' = subs /\ jobs' = jobs /\ router' = router /\ ran' = ran
      BY <1>4 DEF vars, tables
    <2>2. \A n \in DOMAIN router : router[n].limit \in Nat
      BY DEF QueueInv, QueueTypeOK, Logins
    <2>3. CeilingInv'
      BY <2>1 DEF CeilingInv, JobsHaveRows, TotalsRise, CeilingsAreSold, Provisions, Writes
    <2> QED BY <2>1, <2>2, <2>3 DEF CeilingsKept
  <1> QED BY <1>2, <1>3, <1>4, StepForms

\* A login's ceiling never drops on the router while the login exists, for any
\* number of jobs sent again, late or in part: as long as nobody buys again on
\* a device that was sold to another customer in between (the login such a
\* release leaves behind is EndedLeavesRouter's), and without the expiry pilot,
\* whose fresh start gives a login a new count (buildScript, pendingJobs).
THEOREM CeilingsOnlyRise ==
    ASSUME ~ExpiryV2
    PROVE  RQSpec /\ []LoginsSoldOnce => CeilingNeverDrops
  <1>1. RQInit => CeilingInv
    BY DEF RQInit, Init, CeilingInv, JobsHaveRows, TotalsRise, CeilingsAreSold
  <1>2. QueueInv /\ [RQNext]_rqVars => QueueInv'
    BY QueueStep
  <1>3. QueueInv /\ CeilingInv /\ LoginsSoldOnce' /\ [RQNext]_rqVars => CeilingInv'
    BY CeilingStep
  <1>4. QueueInv /\ CeilingInv /\ LoginsSoldOnce' /\ [RQNext]_rqVars =>
        [\A n \in DOMAIN router \cap DOMAIN router' : router'[n].limit >= router[n].limit]_rqVars
    BY CeilingStep DEF CeilingsKept
  <1> QED BY QueueStarts, <1>1, <1>2, <1>3, <1>4, PTL DEF RQSpec, CeilingNeverDrops
-----------------------------------------------------------------------------
(* Paid time is kept *)

\* Only a paused session's voucher holds time, and only a redeemed one is a row's.
HeldInv ==
    \A c \in Codes :
        /\ vouchers[c].state # "redeemed" => vouchers[c].row = 0 /\ vouchers[c].held = 0
        /\ ~vouchers[c].paused => vouchers[c].held = 0

TimeInv == VouchersInv /\ HeldInv

LEMMA TimeIsSum == ASSUME NEW held, NEW S PROVE TimeIn(held, S) = Sum(held, S)
  BY DEF TimeIn, Sum

LEMMA BalanceIsSum ==
    ASSUME VouchersTypeOK, NEW i
    PROVE  /\ Balance(i) = Remaining(i) + Sum(Held, VouchersOf(i))
           /\ IsFiniteSet(VouchersOf(i)) /\ VouchersOf(i) \subseteq Codes
           /\ \A c \in Codes : Held[c] = vouchers[c].held /\ Held[c] \in Nat
           /\ Sum(Held, VouchersOf(i)) \in Nat
  <1>1. VouchersOf(i) \subseteq Codes /\ IsFiniteSet(VouchersOf(i))
    BY VouchersAssumption, FS_Subset DEF VouchersOf
  <1>2. \A c \in Codes : Held[c] = vouchers[c].held /\ Held[c] \in Nat
    BY DEF Held, VouchersTypeOK
  <1>3. Sum(Held, VouchersOf(i)) \in Nat
    BY <1>1, <1>2, SumIsNat
  <1>4. Balance(i) = Remaining(i) + Sum(Held, VouchersOf(i))
    BY TimeIsSum DEF Balance
  <1> QED BY <1>1, <1>2, <1>3, <1>4

\* Where nothing is taken from the row or from a voucher of it, it has no less.
LEMMA BalanceStays ==
    ASSUME TimeInv, VouchersTypeOK', now' = now, NEW i \in DOMAIN subs, i \in DOMAIN subs',
           subs'[i].expires \in Int, subs'[i].expires >= subs[i].expires,
           \A c \in VouchersOf(i) : vouchers'[c].row = i /\ vouchers'[c].held >= vouchers[c].held
    PROVE  Balance(i)' >= Balance(i)
  <1>1. /\ IsFiniteSet(VouchersOf(i)') /\ VouchersOf(i) \subseteq VouchersOf(i)'
        /\ \A c \in VouchersOf(i)' : Held'[c] \in Nat
        /\ \A c \in VouchersOf(i) : Held[c] \in Int /\ Held[c] <= Held'[c]
    <2>1. VouchersOf(i) \subseteq Codes /\ VouchersOf(i)' \subseteq Codes
      BY DEF VouchersOf
    <2>2. VouchersOf(i) \subseteq VouchersOf(i)'
      BY DEF VouchersOf
    <2>3. \A c \in Codes : /\ Held[c] = vouchers[c].held /\ Held[c] \in Nat
                           /\ Held'[c] = vouchers'[c].held /\ Held'[c] \in Nat
      BY DEF Held, VouchersTypeOK, TimeInv, VouchersInv
    <2> QED BY <2>1, <2>2, <2>3, VouchersAssumption, FS_Subset
  <1>2. Sum(Held, VouchersOf(i)) <= Sum(Held', VouchersOf(i)')
    BY <1>1, SumOfMore
  <1>3. Balance(i) = Remaining(i) + Sum(Held, VouchersOf(i)) /\ Sum(Held, VouchersOf(i)) \in Nat
    BY BalanceIsSum DEF TimeInv, VouchersInv
  <1>4. Balance(i)' = Remaining(i)' + Sum(Held', VouchersOf(i)')
    BY TimeIsSum DEF Balance
  <1>5. Sum(Held', VouchersOf(i)') \in Nat
    BY <1>1, SumIsNat
  <1>6. Remaining(i) \in Nat /\ Remaining(i)' \in Nat /\ Remaining(i) <= Remaining(i)'
    <2>1. now \in Int /\ subs[i].expires \in Int
      BY RowTypes DEF TimeInv, VouchersInv, CutInv, TablesInv, TablesTypeOK
    <2> QED BY <2>1 DEF Remaining, Later
  <1> QED BY <1>2, <1>3, <1>4, <1>5, <1>6

AllBalancesStay == \A i \in DOMAIN subs : Balance(i)' >= Balance(i)

\* A step that shortens no row and takes nothing from a row's voucher.
LEMMA NothingTaken ==
    ASSUME TimeInv, VouchersInv', now' = now,
           \A i \in DOMAIN subs : i \in DOMAIN subs' /\ subs'[i].expires >= subs[i].expires,
           \A c \in Codes : vouchers[c].row # 0 =>
               vouchers'[c].row = vouchers[c].row /\ vouchers'[c].held >= vouchers[c].held
    PROVE  AllBalancesStay
  <1> SUFFICES ASSUME NEW i \in DOMAIN subs PROVE Balance(i)' >= Balance(i)
    BY DEF AllBalancesStay
  <1>1. i # 0
    BY RowTypes DEF TimeInv, VouchersInv, CutInv, TablesInv
  <1>2. subs' \in Seq(Rows)
    BY DEF VouchersInv, CutInv, TablesInv, TablesTypeOK
  <1>3. subs'[i].expires \in Int
    <2>1. subs'[i] \in Rows
      BY <1>2
    <2> QED BY <2>1 DEF Rows
  <1>4. \A c \in VouchersOf(i) : vouchers'[c].row = i /\ vouchers'[c].held >= vouchers[c].held
    BY <1>1 DEF VouchersOf
  <1> QED BY <1>3, <1>4, BalanceStays DEF VouchersInv

LEMMA GiveTimeAdds ==
    ASSUME VouchersInv, NEW i \in DOMAIN subs, NEW extra \in Nat, GiveTime(i, extra)
    PROVE  /\ DOMAIN subs' = DOMAIN subs
           /\ \A l \in DOMAIN subs : l # i => subs'[l] = subs[l]
           /\ subs'[i].expires = Later(now, subs[i].expires) + extra
           /\ now \in Int /\ \A l \in DOMAIN subs : subs[l].expires \in Int
  <1>1. subs \in Seq(Rows) /\ now \in Nat /\ \A l \in DOMAIN subs : subs[l] \in Rows
    BY RowTypes DEF VouchersInv, CutInv, TablesInv, TablesTypeOK
  <1>2. \A l \in DOMAIN subs : subs[l].expires \in Int
    BY <1>1 DEF Rows
  <1> PICK e \in Int : e = Later(now, subs[i].expires) + extra
    BY <1>1, <1>2 DEF Later
  <1> PICK t : t = subs[i].total + extra
    OBVIOUS
  <1>3. subs' = [subs EXCEPT ![i].expires = e, ![i].total = t, ![i].expiryJob = 0]
    BY DEF GiveTime
  <1>4. subs'[i].expires = e
    BY <1>1, <1>3 DEF Rows
  <1> QED BY <1>1, <1>2, <1>3, <1>4

\* What a pause takes from the row the voucher holds from then on.
LEMMA PauseKeepsTime ==
    ASSUME TimeInv, VouchersInv', NEW c \in Codes, PauseSession(c)
    PROVE  AllBalancesStay
  <1> PICK r : r = vouchers[c].row
    OBVIOUS
  <1>1. /\ r \in DOMAIN subs /\ now' = now /\ vouchers[c].held = 0 /\ vouchers[c].row = r
        /\ VouchersTypeOK /\ VouchersTypeOK'
    BY DEF PauseSession, TimeInv, HeldInv, VouchersInv, VouchersTypeOK
  <1>2. subs \in Seq(Rows) /\ now \in Int /\ \A l \in DOMAIN subs : subs[l] \in Rows /\ subs[l].expires \in Int
    BY RowTypes DEF TimeInv, VouchersInv, CutInv, TablesInv, TablesTypeOK
  <1>3. /\ \A d \in Codes : vouchers'[d].row = vouchers[d].row
        /\ \A d \in Codes : d # c => vouchers'[d].held = vouchers[d].held
        /\ vouchers'[c].held = Remaining(r)
    BY <1>1 DEF PauseSession, VouchersTypeOK
  <1>4. /\ DOMAIN subs' = DOMAIN subs /\ \A l \in DOMAIN subs : l # r => subs'[l] = subs[l]
        /\ subs'[r].expires = now - 1
    <2>1. subs' = [subs EXCEPT ![r].expires = now - 1, ![r].expiryJob = Len(jobs) + 1]
      BY DEF PauseSession, Disconnect
    <2> QED BY <1>1, <1>2, <2>1 DEF Rows
  <1>5. Balance(r)' >= Balance(r)
    <2>1. VouchersOf(r)' = VouchersOf(r) /\ c \in VouchersOf(r)
      BY <1>1, <1>3 DEF VouchersOf
    <2>2. /\ \A d \in VouchersOf(r) : Held[d] \in Int /\ Held'[d] \in Int
          /\ \A d \in VouchersOf(r) : d # c => Held'[d] = Held[d]
          /\ Held[c] = 0 /\ Held'[c] = Remaining(r)
      BY <1>1, <1>3 DEF Held, VouchersOf, VouchersTypeOK
    <2>3. Sum(Held', VouchersOf(r)') = Sum(Held, VouchersOf(r)) - Held[c] + Held'[c]
      BY <1>1, <2>1, <2>2, SumMoves, BalanceIsSum
    <2>4. Balance(r) = Remaining(r) + Sum(Held, VouchersOf(r)) /\ Sum(Held, VouchersOf(r)) \in Nat
      BY <1>1, BalanceIsSum
    <2>5. Balance(r)' = Remaining(r)' + Sum(Held', VouchersOf(r)')
      BY TimeIsSum DEF Balance
    <2>6. Remaining(r) \in Nat /\ Remaining(r)' = 0
      <3> PICK e \in Int, e2 \in Int, n \in Int : e = subs[r].expires /\ e2 = subs'[r].expires /\ n = now
        BY <1>1, <1>2, <1>4
      <3>1. e2 = n - 1 /\ now' = n
        BY <1>1, <1>4
      <3> QED BY <3>1 DEF Remaining, Later
    <2> QED BY <2>2, <2>3, <2>4, <2>5, <2>6
  <1>6. ASSUME NEW i \in DOMAIN subs, i # r PROVE Balance(i)' >= Balance(i)
    <2>1. \A d \in VouchersOf(i) : vouchers'[d].row = i /\ vouchers'[d].held >= vouchers[d].held
      BY <1>1, <1>3, <1>6 DEF VouchersOf, VouchersTypeOK
    <2> QED BY <1>1, <1>2, <1>4, <1>6, <2>1, BalanceStays
  <1> QED BY <1>5, <1>6 DEF AllBalancesStay

\* And a resumption gives it back.
LEMMA ResumeKeepsTime ==
    ASSUME TimeInv, VouchersInv', NEW c \in Codes, ResumeSession(c)
    PROVE  AllBalancesStay
  <1> PICK r : r = vouchers[c].row
    OBVIOUS
  <1> PICK h \in Nat : h = vouchers[c].held
    BY DEF TimeInv, VouchersInv, VouchersTypeOK
  <1>1. /\ r \in DOMAIN subs /\ now' = now /\ GiveTime(r, h) /\ vouchers[c].row = r
        /\ VouchersTypeOK /\ VouchersTypeOK'
    BY DEF ResumeSession, TimeInv, VouchersInv, VouchersTypeOK
  <1>2. /\ \A d \in Codes : vouchers'[d].row = vouchers[d].row
        /\ \A d \in Codes : d # c => vouchers'[d].held = vouchers[d].held
        /\ vouchers'[c].held = 0
    BY <1>1 DEF ResumeSession, VouchersTypeOK
  <1>3. /\ DOMAIN subs' = DOMAIN subs /\ \A l \in DOMAIN subs : l # r => subs'[l] = subs[l]
        /\ subs'[r].expires = Later(now, subs[r].expires) + h
        /\ now \in Int /\ \A l \in DOMAIN subs : subs[l].expires \in Int
    BY <1>1, GiveTimeAdds DEF TimeInv
  <1>4. Balance(r)' >= Balance(r)
    <2>1. VouchersOf(r)' = VouchersOf(r) /\ c \in VouchersOf(r)
      BY <1>1, <1>2 DEF VouchersOf
    <2>2. /\ \A d \in VouchersOf(r) : Held[d] \in Int /\ Held'[d] \in Int
          /\ \A d \in VouchersOf(r) : d # c => Held'[d] = Held[d]
          /\ Held[c] = h /\ Held'[c] = 0
      BY <1>1, <1>2 DEF Held, VouchersOf, VouchersTypeOK
    <2>3. Sum(Held', VouchersOf(r)') = Sum(Held, VouchersOf(r)) - Held[c] + Held'[c]
      BY <1>1, <2>1, <2>2, SumMoves, BalanceIsSum
    <2>4. Balance(r) = Remaining(r) + Sum(Held, VouchersOf(r)) /\ Sum(Held, VouchersOf(r)) \in Nat
      BY <1>1, BalanceIsSum
    <2>5. Balance(r)' = Remaining(r)' + Sum(Held', VouchersOf(r)')
      BY TimeIsSum DEF Balance
    <2>6. Remaining(r) \in Nat /\ Remaining(r)' >= Remaining(r) + h /\ Remaining(r)' \in Int
      <3> PICK e \in Int, n \in Int : e = subs[r].expires /\ n = now
        BY <1>1, <1>3
      <3> PICK e2 \in Int : e2 = subs'[r].expires
        BY <1>3 DEF Later
      <3>1. e2 = Later(n, e) + h /\ now' = n
        BY <1>1, <1>3
      <3> QED BY <3>1 DEF Remaining, Later
    <2> QED BY <2>2, <2>3, <2>4, <2>5, <2>6
  <1>5. ASSUME NEW i \in DOMAIN subs, i # r PROVE Balance(i)' >= Balance(i)
    <2>1. \A d \in VouchersOf(i) : vouchers'[d].row = i /\ vouchers'[d].held >= vouchers[d].held
      BY <1>1, <1>2, <1>5 DEF VouchersOf, VouchersTypeOK
    <2> QED BY <1>1, <1>3, <1>5, <2>1, BalanceStays
  <1> QED BY <1>4, <1>5 DEF AllBalancesStay

\* A sale gives its row more time, and leaves every other one its own.
LEMMA GrantTakesNoTime ==
    ASSUME TablesInv, NEW p \in Phones, NEW m \in Macs, NEW s \in Nat,
           GrantSubscription(p, m, "phone", s)
    PROVE  \A i \in DOMAIN subs : i \in DOMAIN subs' /\ subs'[i].expires >= subs[i].expires
  <1> DEFINE k == "phone"
             g == GrantedRow(p, m, k)
             row == GrantedValue(p, m, k, s)
  <1>1. /\ TablesTypeOK /\ subs \in Seq(Rows) /\ now \in Int /\ k \in DeviceKinds
        /\ \A i \in DOMAIN subs : subs[i].expires \in Int
    BY RowTypes DEF TablesInv, TablesTypeOK, DeviceKinds
  <1>2. CASE OwnRows(p, m, k) = {}
    <2>1. subs' = Append(Released(p, m, k), row)
      BY <1>2 DEF GrantSubscription, GrantRow
    <2>2. /\ Released(p, m, k) \in Seq(Rows) /\ DOMAIN Released(p, m, k) = DOMAIN subs
          /\ \A i \in DOMAIN subs : Released(p, m, k)[i].expires = subs[i].expires
      BY <1>1, ReleasedType
    <2> HIDE DEF row, k
    <2>3. \A i \in DOMAIN subs : i \in DOMAIN subs' /\ subs'[i] = Released(p, m, k)[i]
      BY <2>1, <2>2
    <2> QED BY <1>1, <2>2, <2>3
  <1>3. CASE OwnRows(p, m, k) # {}
    <2>1. g \in DOMAIN subs /\ subs' = [subs EXCEPT ![g] = row]
      BY <1>1, <1>3, OwnRowType DEF GrantSubscription, GrantRow
    <2>2. row.expires = Later(now, subs[g].expires) + s
      <3>1. subs[g] \in Rows
        BY <1>1, <2>1
      <3> QED BY <1>3, <3>1 DEF GrantedValue, Rows
    <2>3. row.expires >= subs[g].expires
      BY <1>1, <2>1, <2>2 DEF Later
    <2> HIDE DEF row, g
    <2> QED BY <1>1, <2>1, <2>3
  <1> QED BY <1>2, <1>3

LEMMA ManageKeepsTime ==
    ASSUME TimeInv, VouchersInv', NEW c \in Codes, Manage(c)
    PROVE  HeldInv' /\ AllBalancesStay
  <1> DEFINE Voucher == [state : {"open", "redeemed", "deleted"}, seconds : Nat,
                         paused : BOOLEAN, held : Nat, row : Nat]
  <1>1. /\ vouchers \in [Codes -> Voucher] /\ VouchersInv /\ HeldInv
        /\ \A l \in DOMAIN subs : subs[l].expires \in Int
        /\ vouchers[c].state = "redeemed" => vouchers[c].row \in DOMAIN subs
        /\ ExtendBy \in Nat /\ now \in Int
    BY RowTypes, VouchersAssumption
       DEF TimeInv, VouchersInv, VouchersTypeOK, CutInv, TablesInv, TablesTypeOK
  <1>2. ASSUME NEW v \in Voucher, UNCHANGED tables, vouchers' = [vouchers EXCEPT ![c] = v],
               v.row = vouchers[c].row, v.held >= vouchers[c].held \/ vouchers[c].row = 0,
               v.state # "redeemed" => v.row = 0 /\ v.held = 0, ~v.paused => v.held = 0
        PROVE  HeldInv' /\ AllBalancesStay
    <2>1. vouchers'[c] = v /\ \A d \in Codes : d # c => vouchers'[d] = vouchers[d]
      BY <1>1, <1>2
    <2>2. HeldInv'
      BY <1>1, <1>2, <2>1 DEF HeldInv
    <2>3. \A d \in Codes : vouchers[d].row # 0 =>
              vouchers'[d].row = vouchers[d].row /\ vouchers'[d].held >= vouchers[d].held
      BY <1>1, <1>2, <2>1
    <2>4. now' = now /\ \A i \in DOMAIN subs : i \in DOMAIN subs' /\ subs'[i].expires >= subs[i].expires
      BY <1>1, <1>2 DEF tables
    <2> QED BY <2>2, <2>3, <2>4, NothingTaken
  <1>3. CASE Delete(c)
    <2> DEFINE v == [vouchers[c] EXCEPT !.state = "deleted", !.paused = FALSE]
    <2>1. v \in Voucher /\ v.row = vouchers[c].row /\ v.held = vouchers[c].held
          /\ vouchers[c].state # "redeemed" /\ UNCHANGED tables
      BY <1>1, <1>3 DEF Delete
    <2>2. vouchers' = [vouchers EXCEPT ![c] = v]
      BY <1>1, <1>3 DEF Delete
    <2>3. v.row = 0 /\ v.held = 0 /\ vouchers[c].row = 0
      BY <1>1, <2>1 DEF HeldInv
    <2> QED BY <1>2, <2>1, <2>2, <2>3
  <1>4. CASE PauseUnused(c)
    <2> DEFINE v == [vouchers[c] EXCEPT !.paused = TRUE]
    <2>1. v \in Voucher /\ v.row = vouchers[c].row /\ v.held = vouchers[c].held /\ v.paused
          /\ vouchers[c].state # "redeemed" /\ UNCHANGED tables
      BY <1>1, <1>4 DEF PauseUnused
    <2>2. vouchers' = [vouchers EXCEPT ![c] = v]
      BY <1>1, <1>4 DEF PauseUnused
    <2>3. v.row = 0 /\ v.held = 0 /\ vouchers[c].row = 0
      BY <1>1, <2>1 DEF HeldInv
    <2> QED BY <1>2, <2>1, <2>2, <2>3
  <1>5. CASE ResumeUnused(c)
    <2> DEFINE v == [vouchers[c] EXCEPT !.paused = FALSE, !.held = 0]
    <2>1. v \in Voucher /\ v.row = vouchers[c].row /\ v.held = 0
          /\ vouchers[c].state # "redeemed" /\ UNCHANGED tables
      BY <1>1, <1>5 DEF ResumeUnused
    <2>2. vouchers' = [vouchers EXCEPT ![c] = v]
      BY <1>1, <1>5 DEF ResumeUnused
    <2>3. v.row = 0 /\ vouchers[c].row = 0
      BY <1>1, <2>1 DEF HeldInv
    <2> QED BY <1>2, <2>1, <2>2, <2>3
  <1>6. CASE ExtendUnused(c)
    <2> PICK n \in Nat : n = vouchers[c].seconds + ExtendBy
      BY <1>1
    <2> DEFINE v == [vouchers[c] EXCEPT !.seconds = n]
    <2>1. v \in Voucher /\ v.row = vouchers[c].row /\ v.held = vouchers[c].held
          /\ v.paused = vouchers[c].paused /\ v.state = vouchers[c].state
          /\ vouchers[c].state # "redeemed" /\ UNCHANGED tables
      BY <1>1, <1>6 DEF ExtendUnused
    <2>2. vouchers' = [vouchers EXCEPT ![c] = v]
      BY <1>1, <1>6 DEF ExtendUnused
    <2>3. v.row = 0 /\ v.held = 0 /\ vouchers[c].row = 0
      BY <1>1, <2>1 DEF HeldInv
    <2> QED BY <1>2, <2>1, <2>2, <2>3
  <1>7. CASE ExtendPaused(c)
    <2> PICK n \in Nat : n = vouchers[c].held + ExtendBy
      BY <1>1
    <2> DEFINE v == [vouchers[c] EXCEPT !.held = n]
    <2>1. v \in Voucher /\ v.row = vouchers[c].row /\ v.held = n
          /\ v.paused /\ v.state = "redeemed" /\ UNCHANGED tables
      BY <1>1, <1>7 DEF ExtendPaused
    <2>2. vouchers' = [vouchers EXCEPT ![c] = v]
      BY <1>1, <1>7 DEF ExtendPaused
    <2>3. n >= vouchers[c].held
      BY <1>1
    <2> QED BY <1>2, <2>1, <2>2, <2>3
  <1>8. CASE ExtendSession(c)
    <2>1. /\ vouchers[c].row \in DOMAIN subs /\ GiveTime(vouchers[c].row, ExtendBy)
          /\ now' = now /\ vouchers' = vouchers
      BY <1>1, <1>8 DEF ExtendSession
    <2>2. \A i \in DOMAIN subs : i \in DOMAIN subs' /\ subs'[i].expires >= subs[i].expires
      BY <1>1, <2>1, GiveTimeAdds DEF Later
    <2>3. AllBalancesStay
      BY <1>1, <2>1, <2>2, NothingTaken
    <2> QED BY <1>1, <2>1, <2>3 DEF HeldInv
  <1>9. CASE PauseSession(c)
    <2>1. Remaining(vouchers[c].row) \in Nat
      BY <1>1, <1>9 DEF PauseSession, Remaining, Later
    <2>2. /\ vouchers'[c].paused /\ vouchers'[c].state = "redeemed"
          /\ \A d \in Codes : d # c => vouchers'[d] = vouchers[d]
      BY <1>1, <1>9 DEF PauseSession
    <2>3. HeldInv'
      BY <1>1, <2>2 DEF HeldInv
    <2> QED BY <1>9, <2>3, PauseKeepsTime
  <1>10. CASE ResumeSession(c)
    <2>1. /\ vouchers'[c].held = 0 /\ vouchers'[c].state = "redeemed"
          /\ \A d \in Codes : d # c => vouchers'[d] = vouchers[d]
      BY <1>1, <1>10 DEF ResumeSession
    <2>2. HeldInv'
      BY <1>1, <2>1 DEF HeldInv
    <2> QED BY <1>10, <2>2, ResumeKeepsTime
  <1> HIDE DEF Voucher
  <1> QED BY <1>3, <1>4, <1>5, <1>6, <1>7, <1>8, <1>9, <1>10 DEF Manage

LEMMA RedeemKeepsTime ==
    ASSUME TimeInv, VouchersInv', NEW c \in Codes, NEW p \in Phones, NEW m \in Macs, Redeem(c, p, m)
    PROVE  HeldInv' /\ AllBalancesStay
  <1>1. /\ VouchersTypeOK /\ HeldInv /\ TablesInv /\ now' = now
        /\ vouchers[c].seconds \in Nat /\ vouchers[c].row = 0 /\ vouchers[c].held = 0 /\ ~vouchers[c].paused
        /\ GrantSubscription(p, m, "phone", vouchers[c].seconds)
    BY DEF Redeem, TimeInv, HeldInv, VouchersInv, VouchersTypeOK, CutInv
  <1>2. \A i \in DOMAIN subs : i \in DOMAIN subs' /\ subs'[i].expires >= subs[i].expires
    BY <1>1, GrantTakesNoTime
  <1>3. /\ vouchers'[c].state = "redeemed" /\ vouchers'[c].held = 0
        /\ \A d \in Codes : d # c => vouchers'[d] = vouchers[d]
    BY <1>1 DEF Redeem, VouchersTypeOK
  <1>4. \A d \in Codes : vouchers[d].row # 0 =>
            vouchers'[d].row = vouchers[d].row /\ vouchers'[d].held >= vouchers[d].held
    BY <1>1, <1>3 DEF VouchersTypeOK
  <1> QED BY <1>1, <1>2, <1>3, <1>4, NothingTaken DEF HeldInv

LEMMA CustomerKeepsTime ==
    ASSUME TimeInv, VouchersInv', CustomerStep
    PROVE  HeldInv' /\ AllBalancesStay
  <1>1. /\ vouchers' = vouchers /\ subs \in Seq(Rows) /\ VouchersTypeOK /\ HeldInv
        /\ \A i \in DOMAIN subs : subs[i] \in Rows /\ subs[i].expires \in Int
    BY RowTypes DEF CustomerStep, TimeInv, VouchersInv, CutInv, TablesInv, TablesTypeOK
  <1>2. now' = now /\ \A i \in DOMAIN subs : i \in DOMAIN subs' /\ subs'[i].expires = subs[i].expires
    <2>1. ASSUME NEW i \in DOMAIN subs, Connect(i)
          PROVE  now' = now /\ \A l \in DOMAIN subs : l \in DOMAIN subs' /\ subs'[l].expires = subs[l].expires
      BY <2>1 DEF Connect
    <2>2. ASSUME NEW i \in DOMAIN subs, NEW m \in Macs, Transfer(i, m)
          PROVE  now' = now /\ \A l \in DOMAIN subs : l \in DOMAIN subs' /\ subs'[l].expires = subs[l].expires
      BY <1>1, <2>2 DEF Transfer, Rows
    <2> QED BY <2>1, <2>2 DEF CustomerStep
  <1>3. \A d \in Codes : vouchers'[d].row = vouchers[d].row /\ vouchers'[d].held >= vouchers[d].held
    BY <1>1 DEF VouchersTypeOK
  <1>4. \A i \in DOMAIN subs : subs'[i].expires >= subs[i].expires
    BY <1>1, <1>2
  <1> QED BY <1>1, <1>2, <1>3, <1>4, NothingTaken DEF HeldInv

\* Only the clock uses up what a customer has paid for: for any number of
\* vouchers, of which several may be paused on one row, and of customers
\* (manageVouchers, redeemVoucher).
THEOREM OnlyTheClockTakesTime == Spec => PaidTimeKept
  <1>1. Init => TimeInv
    BY VouchersInit DEF TimeInv, HeldInv, Init
  <1>2. TimeInv /\ [Next]_vars => TimeInv' /\ (now' = now => AllBalancesStay)
    <2> SUFFICES ASSUME TimeInv, [Next]_vars PROVE TimeInv' /\ (now' = now => AllBalancesStay)
      OBVIOUS
    <2>1. VouchersInv'
      BY VouchersNext, VouchersStutter DEF TimeInv
    <2>2. CASE \E c \in Codes : Manage(c) \/ \E p \in Phones, m \in Macs : Redeem(c, p, m)
      BY <2>1, <2>2, ManageKeepsTime, RedeemKeepsTime DEF TimeInv
    <2>3. CASE CustomerStep
      BY <2>1, <2>3, CustomerKeepsTime DEF TimeInv
    <2>4. CASE Tick /\ UNCHANGED vouchers
      <3>1. now' # now
        BY <2>4 DEF Tick, TimeInv, VouchersInv, CutInv, TablesInv, TablesTypeOK
      <3>2. HeldInv'
        BY <2>4 DEF TimeInv, HeldInv
      <3> QED BY <2>1, <3>1, <3>2 DEF TimeInv
    <2>5. CASE UNCHANGED vars
      <3>1. HeldInv' /\ now' = now /\ subs' = subs /\ vouchers' = vouchers
        BY <2>5 DEF vars, tables, TimeInv, HeldInv
      <3>2. \A i \in DOMAIN subs : subs[i].expires \in Int
        BY RowTypes DEF TimeInv, VouchersInv, CutInv, TablesInv
      <3>3. \A d \in Codes : vouchers[d].held \in Nat
        BY DEF TimeInv, VouchersInv, VouchersTypeOK
      <3>4. AllBalancesStay
        BY <2>1, <3>1, <3>2, <3>3, NothingTaken
      <3> QED BY <2>1, <3>1, <3>4 DEF TimeInv
    <2> QED BY <2>2, <2>3, <2>4, <2>5 DEF Next
  <1>3. (now' = now => AllBalancesStay) => [now' = now => \A i \in DOMAIN subs : Balance(i)' >= Balance(i)]_vars
    BY DEF AllBalancesStay
  <1> QED BY <1>1, <1>2, <1>3, PTL DEF Spec, PaidTimeKept
=============================================================================
