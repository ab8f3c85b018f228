------------------------- MODULE SubscriptionsProofs -------------------------
(***************************************************************************)
(* What the shared table operations preserve, for any number of phones,    *)
(* devices, rows and jobs.  The modules that use them cite these lemmas.   *)
(***************************************************************************)
EXTENDS Subscriptions, TLAPS

\* The keys are unique, and why they stay so: a name is suffixed only with its
\* own row's id, and a released row is never live again.
TablesInv ==
    /\ TablesTypeOK
    /\ KeysUnique
    /\ \A i \in DOMAIN subs : /\ subs[i].name.tag \in {0, i}
                              /\ subs[i].mac = "RELEASED" => ~Live(i)

-----------------------------------------------------------------------------

LEMMA RowTypes ==
    ASSUME TablesTypeOK, NEW i \in DOMAIN subs
    PROVE  /\ subs[i] \in Rows
           /\ subs[i].name \in Names /\ subs[i].payer \in Phones
           /\ subs[i].mac \in Macs \cup {"RELEASED"} /\ subs[i].kind \in DeviceKinds
           /\ subs[i].total \in Nat /\ subs[i].expires \in Int /\ subs[i].expiryJob \in Nat
           /\ i \in Nat \ {0}
  <1>1. subs[i] \in Rows /\ i \in Nat \ {0}
    BY DEF TablesTypeOK
  <1> QED BY <1>1 DEF Rows

LEMMA JobType ==
    ASSUME NEW n \in Names, NEW a \in Actions, NEW s \in Nat, NEW m \in Macs \cup {"RELEASED"}
    PROVE  NewJob(n, a, s, m) \in Jobs
  BY DEF NewJob, Jobs

\* The row the grant lands on is the buyer's.
LEMMA OwnRowType ==
    ASSUME TablesTypeOK, NEW p \in Phones, NEW m \in Macs, NEW k \in DeviceKinds,
           OwnRows(p, m, k) # {}
    PROVE  /\ GrantedRow(p, m, k) \in DOMAIN subs
           /\ GrantedRow(p, m, k) \in OwnRows(p, m, k)
           /\ subs[GrantedRow(p, m, k)].payer = p
           /\ subs[GrantedRow(p, m, k)].kind = k
           /\ subs[GrantedRow(p, m, k)].mac = m
  BY DEF GrantedRow, OwnRows, ForeignRows, RowsAt

LEMMA ReleasedType ==
    ASSUME TablesTypeOK, NEW p \in Phones, NEW m \in Macs, NEW k \in DeviceKinds
    PROVE  /\ Released(p, m, k) \in Seq(Rows)
           /\ Len(Released(p, m, k)) = Len(subs)
           /\ DOMAIN Released(p, m, k) = DOMAIN subs
           /\ \A i \in DOMAIN subs : i \in ForeignRows(p, m, k) =>
                /\ Released(p, m, k)[i].mac = "RELEASED"
                /\ Released(p, m, k)[i].name.tag = i
                /\ Released(p, m, k)[i].payer = subs[i].payer
                /\ Released(p, m, k)[i].kind = subs[i].kind
                /\ Released(p, m, k)[i].expires = subs[i].expires
           /\ \A i \in DOMAIN subs : i \notin ForeignRows(p, m, k) =>
                Released(p, m, k)[i] = subs[i]
  <1> DEFINE R == Released(p, m, k)
  <1>1. ASSUME NEW i \in DOMAIN subs
        PROVE  /\ R[i] \in Rows
               /\ i \in ForeignRows(p, m, k) =>
                    /\ R[i].mac = "RELEASED" /\ R[i].name.tag = i
                    /\ R[i].payer = subs[i].payer /\ R[i].kind = subs[i].kind
                    /\ R[i].expires = subs[i].expires
               /\ i \notin ForeignRows(p, m, k) => R[i] = subs[i]
    <2>1. subs[i] \in Rows /\ subs[i].name \in Names /\ i \in Nat
      BY RowTypes
    <2>2. CASE i \in ForeignRows(p, m, k)
      <3>1. R[i] = [subs[i] EXCEPT !.mac = "RELEASED", !.name = Suffixed(subs[i].name, i)]
        BY <2>2 DEF Released
      <3>2. Suffixed(subs[i].name, i) \in Names /\ Suffixed(subs[i].name, i).tag = i
        BY <2>1 DEF Names, Suffixed
      <3> HIDE DEF R
      <3> QED BY <2>1, <2>2, <3>1, <3>2 DEF Rows
    <2>3. CASE i \notin ForeignRows(p, m, k)
      BY <2>1, <2>3 DEF Released
    <2> QED BY <2>2, <2>3
  <1>2. DOMAIN R = DOMAIN subs
    BY DEF Released
  <1>3. DOMAIN subs = 1..Len(subs) /\ Len(subs) \in Nat
    BY DEF TablesTypeOK
  <1>4. R \in [1..Len(subs) -> Rows]
    BY <1>1, <1>3 DEF Released
  <1>5. R \in Seq(Rows) /\ Len(R) = Len(subs)
    BY <1>3, <1>4
  <1> QED BY <1>1, <1>2, <1>5

-----------------------------------------------------------------------------
(* Facts the steps below share *)

\* The parts of a typed table step, put together.
LEMMA JobAppended ==
    ASSUME TablesTypeOK, NEW j \in Jobs, jobs' = Append(jobs, j)
    PROVE  jobs' \in Seq(Jobs)
  BY DEF TablesTypeOK

\* Rows that keep their name and device keep the keys unique.
LEMMA SameKeys ==
    ASSUME TablesInv, now' = now, subs' \in Seq(Rows), jobs' \in Seq(Jobs),
           DOMAIN subs' = DOMAIN subs,
           \A i \in DOMAIN subs : /\ subs'[i].name = subs[i].name
                                  /\ subs'[i].mac = subs[i].mac
                                  /\ subs[i].mac = "RELEASED" => subs'[i].expires <= now
    PROVE  TablesInv'
  <1>1. TablesTypeOK'
    BY DEF TablesInv, TablesTypeOK
  <1>2. KeysUnique'
    BY DEF TablesInv, KeysUnique
  <1>3. ASSUME NEW i \in DOMAIN subs'
        PROVE  /\ subs'[i].name.tag \in {0, i}
               /\ subs'[i].mac = "RELEASED" => ~Live(i)'
    <2>1. subs[i].name.tag \in {0, i} /\ (subs[i].mac = "RELEASED" => ~Live(i))
      BY DEF TablesInv
    <2>2. subs[i].expires \in Int /\ subs'[i].expires \in Int /\ now \in Int
      <3>1. subs'[i] \in Rows
        OBVIOUS
      <3> QED BY <3>1, RowTypes DEF TablesInv, TablesTypeOK, Rows
    <2> QED BY <2>1, <2>2 DEF Live
  <1> QED BY <1>1, <1>2, <1>3 DEF TablesInv

-----------------------------------------------------------------------------
(* grantSubscription *)

\* The value the upsert leaves in the buyer's own row: only the time changes.
LEMMA RenewedType ==
    ASSUME TablesTypeOK, NEW p \in Phones, NEW m \in Macs, NEW k \in DeviceKinds, NEW s \in Nat,
           OwnRows(p, m, k) # {}
    PROVE  LET old == subs[GrantedRow(p, m, k)]
               new == GrantedValue(p, m, k, s)
           IN  /\ new \in Rows
               /\ new.name = old.name /\ new.mac = old.mac
               /\ new.payer = old.payer /\ new.kind = old.kind
  <1> DEFINE g == GrantedRow(p, m, k)
             old == subs[g]
             total == (IF FreshCycle(p, m, k) THEN 0 ELSE old.total) + s
             expires == Later(now, old.expires) + s
  <1>1. GrantedValue(p, m, k, s)
          = [old EXCEPT !.total = total, !.expires = expires, !.expiryJob = 0]
    BY DEF GrantedValue
  <1>2. g \in DOMAIN subs
    BY OwnRowType
  <1>3. /\ old \in Rows /\ old.total \in Nat /\ old.expires \in Int
    BY <1>2, RowTypes
  <1>4. total \in Nat /\ expires \in Int
    BY <1>3 DEF Later, TablesTypeOK
  <1> HIDE DEF total, expires, old
  <1>5. LET new == [old EXCEPT !.total = total, !.expires = expires, !.expiryJob = 0]
        IN  /\ new \in Rows
            /\ new.name = old.name /\ new.mac = old.mac
            /\ new.payer = old.payer /\ new.kind = old.kind
    BY <1>3, <1>4 DEF Rows
  <1> QED BY <1>1, <1>5 DEF old

\* What a grant leaves of every older row, and where the buyer's package is.
GrantFrame(p, m, k) ==
    /\ GrantedRow(p, m, k) \in DOMAIN subs'
    /\ subs'[GrantedRow(p, m, k)].payer = p
    /\ subs'[GrantedRow(p, m, k)].kind = k
    /\ \A i \in DOMAIN subs :
          /\ i \in DOMAIN subs'
          /\ subs'[i].payer = subs[i].payer
          /\ subs'[i].kind = subs[i].kind
          /\ Live(i) => subs'[i].mac = subs[i].mac /\ subs'[i].name = subs[i].name

\* A renewal writes the buyer's own row in place.
LEMMA RenewalKeepsTables ==
    ASSUME TablesInv, NEW p \in Phones, NEW m \in Macs, NEW k \in DeviceKinds, NEW s \in Nat,
           now' = now, GrantRow(p, m, k, s), jobs' \in Seq(Jobs), OwnRows(p, m, k) # {}
    PROVE  TablesInv' /\ GrantFrame(p, m, k)
  <1> DEFINE g == GrantedRow(p, m, k)
             row == GrantedValue(p, m, k, s)
  <1>1. TablesTypeOK
    BY DEF TablesInv
  <1>2. /\ g \in DOMAIN subs /\ g \in OwnRows(p, m, k)
        /\ subs[g].payer = p /\ subs[g].kind = k /\ subs[g].mac = m
    BY <1>1, OwnRowType
  <1>3. /\ row \in Rows
        /\ row.name = subs[g].name /\ row.mac = m /\ row.payer = p /\ row.kind = k
    BY <1>1, <1>2, RenewedType
  <1>4. subs' = [subs EXCEPT ![g] = row]
    BY DEF GrantRow
  <1> HIDE DEF row, g
  <1>6. subs' \in Seq(Rows) /\ DOMAIN subs' = DOMAIN subs
    BY <1>1, <1>2, <1>3, <1>4 DEF TablesTypeOK
  <1>8. \A i \in DOMAIN subs :
           /\ subs'[i].name = subs[i].name /\ subs'[i].mac = subs[i].mac
           /\ subs'[i].payer = subs[i].payer /\ subs'[i].kind = subs[i].kind
           /\ i # g => subs'[i] = subs[i]
    BY <1>2, <1>3, <1>4, <1>6
  <1>9. TablesInv'
    <2>1. ASSUME NEW i \in DOMAIN subs, subs[i].mac = "RELEASED"
          PROVE  subs'[i].expires <= now
      <3>1. i # g
        BY <1>2, <2>1, SubscriptionsAssumption DEF Placeholders
      <3>2. ~(subs[i].expires > now) /\ subs[i].expires \in Int /\ now \in Int
        BY <1>1, <2>1, RowTypes DEF TablesInv, TablesTypeOK, Live
      <3> QED BY <1>8, <3>1, <3>2
    <2> QED BY <1>6, <1>8, <2>1, SameKeys
  <1>10. GrantFrame(p, m, k)
    BY <1>2, <1>6, <1>8 DEF GrantFrame, g
  <1> QED BY <1>9, <1>10

\* A first sale to the device frees the row an ended package of somebody else
\* still holds, and appends one of its own.
LEMMA FirstSaleKeepsTables ==
    ASSUME TablesInv, NEW p \in Phones, NEW m \in Macs, NEW k \in DeviceKinds, NEW s \in Nat,
           now' = now, GrantRow(p, m, k, s), jobs' \in Seq(Jobs), OwnRows(p, m, k) = {}
    PROVE  TablesInv' /\ GrantFrame(p, m, k)
  <1> DEFINE g == GrantedRow(p, m, k)
             F == ForeignRows(p, m, k)
             R == Released(p, m, k)
             row == GrantedValue(p, m, k, s)
  <1>1. TablesTypeOK /\ KeysUnique
    BY DEF TablesInv
  <1>2. /\ R \in Seq(Rows) /\ Len(R) = Len(subs) /\ DOMAIN R = DOMAIN subs
        /\ \A i \in DOMAIN subs : i \in F =>
              /\ R[i].mac = "RELEASED" /\ R[i].name.tag = i
              /\ R[i].payer = subs[i].payer /\ R[i].kind = subs[i].kind
              /\ R[i].expires = subs[i].expires
        /\ \A i \in DOMAIN subs : i \notin F => R[i] = subs[i]
    BY <1>1, ReleasedType
  <1>3. row = [name |-> FreshName(p, m), payer |-> p, mac |-> m, kind |-> k,
               total |-> s, expires |-> now + s, expiryJob |-> 0]
    BY DEF GrantedValue
  <1>4. FreshName(p, m) \in Names /\ FreshName(p, m).tag = 0
    BY DEF FreshName, Names
  <1>5. /\ row \in Rows /\ row.name = FreshName(p, m) /\ row.mac = m
        /\ row.payer = p /\ row.kind = k /\ row.total = s
    BY <1>1, <1>3, <1>4 DEF Rows, TablesTypeOK
  <1>6. g = Len(subs) + 1
    BY DEF GrantedRow
  <1>7. subs' = Append(R, row) /\ CanGrant(p, m, k)
    BY DEF GrantRow
  <1>9. \A i \in F : i \in DOMAIN subs /\ ~Live(i)
    BY <1>7 DEF CanGrant, DeviceTaken, ForeignRows, RowsAt
  <1>10. \A i \in DOMAIN subs : subs[i].mac = m => i \in F
    BY DEF OwnRows, RowsAt
  <1>11. \A i \in DOMAIN subs : R[i].name # FreshName(p, m)
    BY <1>7 DEF CanGrant, NameTaken
  <1>12. /\ DOMAIN subs = 1..Len(subs) /\ Len(subs) \in Nat
    BY <1>1 DEF TablesTypeOK
  <1> HIDE DEF row, g, F, R
  <1>13. /\ subs' \in Seq(Rows) /\ DOMAIN subs' = DOMAIN subs \cup {g}
         /\ subs'[g] = row /\ g \notin DOMAIN subs
         /\ \A i \in DOMAIN subs : subs'[i] = R[i]
    BY <1>2, <1>5, <1>6, <1>7, <1>12
  <1>14. TablesTypeOK'
    BY <1>1, <1>13 DEF TablesTypeOK
  <1>15. KeysUnique'
    <2>1. ASSUME NEW i \in DOMAIN subs, NEW l \in DOMAIN subs, i # l
          PROVE  /\ R[i].name # R[l].name
                 /\ R[i].mac = R[l].mac => R[i].mac = "RELEASED"
      <3>1. subs[i].name # subs[l].name /\ (subs[i].mac = subs[l].mac => subs[i].mac = "RELEASED")
        BY <1>1, <2>1 DEF KeysUnique
      <3>2. R[i].name.tag \in {0, i} /\ R[l].name.tag \in {0, l} /\ i # 0 /\ l # 0
        BY <1>2, <1>12 DEF TablesInv
      <3>3. CASE i \in F /\ l \in F
        BY <1>2, <2>1, <3>3
      <3>4. CASE i \in F /\ l \notin F
        BY <1>2, <2>1, <3>2, <3>4
      <3>5. CASE i \notin F /\ l \in F
        BY <1>2, <2>1, <3>2, <3>5
      <3>6. CASE i \notin F /\ l \notin F
        BY <1>2, <3>1, <3>6
      <3> QED BY <3>3, <3>4, <3>5, <3>6
    <2>2. ASSUME NEW i \in DOMAIN subs
          PROVE  R[i].name # row.name /\ R[i].mac # row.mac
      <3>1. CASE i \in F
        BY <1>2, <1>5, <1>11, <3>1, SubscriptionsAssumption DEF Placeholders
      <3>2. CASE i \notin F
        BY <1>2, <1>5, <1>10, <1>11, <3>2
      <3> QED BY <3>1, <3>2
    <2> QED BY <1>13, <2>1, <2>2 DEF KeysUnique
  <1>16. ASSUME NEW i \in DOMAIN subs'
         PROVE  /\ subs'[i].name.tag \in {0, i}
                /\ subs'[i].mac = "RELEASED" => ~Live(i)'
    <2>1. CASE i = g
      BY <1>4, <1>5, <1>13, <2>1, SubscriptionsAssumption DEF Placeholders
    <2>2. CASE i \in DOMAIN subs /\ i \in F
      BY <1>2, <1>9, <1>13, <2>2 DEF Live
    <2>3. CASE i \in DOMAIN subs /\ i \notin F
      BY <1>2, <1>13, <2>3 DEF TablesInv, Live
    <2> QED BY <1>13, <2>1, <2>2, <2>3
  <1>17. GrantFrame(p, m, k)
    <2>1. ASSUME NEW i \in DOMAIN subs
          PROVE  /\ i \in DOMAIN subs'
                 /\ subs'[i].payer = subs[i].payer /\ subs'[i].kind = subs[i].kind
                 /\ Live(i) => subs'[i].mac = subs[i].mac /\ subs'[i].name = subs[i].name
      BY <1>2, <1>9, <1>13
    <2> QED BY <1>5, <1>13, <2>1 DEF GrantFrame, g
  <1> QED BY <1>14, <1>15, <1>16, <1>17 DEF TablesInv

\* The jobs a grant queues are well formed.
LEMMA LoginJobType ==
    ASSUME TablesTypeOK, NEW p \in Phones, NEW m \in Macs, NEW k \in DeviceKinds, NEW s \in Nat,
           NEW a \in Actions
    PROVE  LoginJob(p, m, k, s, a) \in Jobs
  <1> DEFINE row == GrantedValue(p, m, k, s)
  <1>1. row.name \in Names /\ row.total \in Nat
    <2>1. CASE OwnRows(p, m, k) # {}
      <3>1. row \in Rows
        BY <2>1, RenewedType
      <3> HIDE DEF row
      <3> QED BY <3>1 DEF Rows
    <2>2. CASE OwnRows(p, m, k) = {}
      <3>1. row = [name |-> FreshName(p, m), payer |-> p, mac |-> m, kind |-> k,
                   total |-> s, expires |-> now + s, expiryJob |-> 0]
        BY <2>2 DEF GrantedValue
      <3> QED BY <3>1 DEF FreshName, Names
    <2> QED BY <2>1, <2>2
  <1> QED BY <1>1, JobType DEF LoginJob

LEMMA GrantJobsType ==
    ASSUME TablesTypeOK, NEW p \in Phones, NEW m \in Macs, NEW k \in DeviceKinds, NEW s \in Nat,
           GrantSubscription(p, m, k, s) \/ GrantAndResend(p, m, k, s)
    PROVE  jobs' \in Seq(Jobs)
  <1> DEFINE a == GrantJob(p, m, k, s)
             b == LoginJob(p, m, k, s, UpsertAction(k))
  <1>1. GrantAction(p, m, k) \in Actions /\ UpsertAction(k) \in Actions
    BY DEF GrantAction, UpsertAction, Actions
  <1>2. a \in Jobs /\ b \in Jobs
    BY <1>1, LoginJobType DEF GrantJob
  <1>3. jobs' = Append(jobs, a) \/ jobs' = Append(Append(jobs, a), b)
    BY DEF GrantSubscription, GrantAndResend
  <1> HIDE DEF a, b
  <1>4. jobs \in Seq(Jobs)
    BY DEF TablesTypeOK
  <1>5. Append(jobs, a) \in Seq(Jobs)
    BY <1>2, <1>4
  <1>6. Append(Append(jobs, a), b) \in Seq(Jobs)
    BY <1>2, <1>5
  <1> QED BY <1>3, <1>5, <1>6

\* grantSubscription keeps the two UNIQUE keys, and never takes a device or a
\* login from a package that is still running.
LEMMA GrantKeepsTables ==
    ASSUME TablesInv, NEW p \in Phones, NEW m \in Macs, NEW k \in DeviceKinds, NEW s \in Nat,
           now' = now, GrantSubscription(p, m, k, s) \/ GrantAndResend(p, m, k, s)
    PROVE  TablesInv' /\ GrantFrame(p, m, k)
  <1>1. GrantRow(p, m, k, s)
    BY DEF GrantSubscription, GrantAndResend
  <1>2. jobs' \in Seq(Jobs)
    BY GrantJobsType DEF TablesInv
  <1> QED BY <1>1, <1>2, RenewalKeepsTables, FirstSaleKeepsTables

-----------------------------------------------------------------------------
(* The other steps *)

\* No step takes a row away or gives it another payer, and a package that is
\* still running keeps a device and its login.
RowsKept ==
    \A i \in DOMAIN subs :
        /\ i \in DOMAIN subs'
        /\ subs'[i].payer = subs[i].payer
        /\ subs'[i].kind = subs[i].kind
        /\ Live(i) => subs'[i].mac \in Macs /\ subs'[i].name = subs[i].name

LEMMA LiveHasDevice ==
    ASSUME TablesInv, NEW i \in DOMAIN subs, Live(i)
    PROVE  subs[i].mac \in Macs
  BY RowTypes DEF TablesInv

LEMMA GrantKeepsRows ==
    ASSUME TablesInv, NEW p \in Phones, NEW m \in Macs, NEW k \in DeviceKinds, GrantFrame(p, m, k)
    PROVE  RowsKept
  BY LiveHasDevice DEF GrantFrame, RowsKept

\* Rows with the same name and device: the keys and the payers stay.
LEMMA SameKeysKeepRows ==
    ASSUME TablesInv, DOMAIN subs' = DOMAIN subs,
           \A i \in DOMAIN subs : /\ subs'[i].name = subs[i].name /\ subs'[i].mac = subs[i].mac
                                  /\ subs'[i].payer = subs[i].payer /\ subs'[i].kind = subs[i].kind
    PROVE  RowsKept
  BY LiveHasDevice DEF RowsKept

LEMMA StutterKeepsTables ==
    ASSUME TablesInv, UNCHANGED tables
    PROVE  TablesInv' /\ RowsKept
  <1>1. TablesInv'
    BY DEF TablesInv, TablesTypeOK, KeysUnique, Live, tables
  <1>2. RowsKept
    BY LiveHasDevice DEF RowsKept, tables
  <1> QED BY <1>1, <1>2

\* Queueing, resending or acknowledging a job touches no row.
LEMMA JobsKeepTables ==
    ASSUME TablesInv, now' = now, subs' = subs, jobs' \in Seq(Jobs)
    PROVE  TablesInv' /\ RowsKept
  <1>1. TablesInv'
    BY DEF TablesInv, TablesTypeOK, KeysUnique, Live
  <1>2. RowsKept
    BY LiveHasDevice DEF RowsKept
  <1> QED BY <1>1, <1>2

LEMMA ResendKeepsTables ==
    ASSUME TablesInv, NEW i \in DOMAIN subs, NEW a \in Actions,
           now' = now, subs' = subs,
           jobs' = Append(jobs, NewJob(subs[i].name, a, subs[i].total, subs[i].mac))
    PROVE  TablesInv' /\ RowsKept
  <1>1. NewJob(subs[i].name, a, subs[i].total, subs[i].mac) \in Jobs
    BY RowTypes, JobType DEF TablesInv
  <1>2. jobs' \in Seq(Jobs)
    BY <1>1, JobAppended DEF TablesInv
  <1> QED BY <1>2, JobsKeepTables

LEMMA AckKeepsTables ==
    ASSUME TablesInv, NEW j \in DOMAIN jobs, now' = now, subs' = subs,
           jobs' = [jobs EXCEPT ![j] = Served(jobs[j])]
    PROVE  TablesInv' /\ RowsKept
  <1>1. jobs \in Seq(Jobs) /\ jobs[j] \in Jobs
    BY DEF TablesInv, TablesTypeOK
  <1>2. Served(jobs[j]) \in Jobs
    BY <1>1 DEF Served, Jobs
  <1>3. jobs' \in Seq(Jobs)
    BY <1>1, <1>2
  <1> QED BY <1>3, JobsKeepTables

LEMMA TickKeepsTables ==
    ASSUME TablesInv, Tick
    PROVE  TablesInv' /\ RowsKept
  <1>1. now \in Nat /\ now' = now + 1 /\ subs' = subs /\ jobs' = jobs
    BY DEF Tick, TablesInv, TablesTypeOK
  <1>2. TablesTypeOK' /\ KeysUnique'
    BY <1>1 DEF TablesInv, TablesTypeOK, KeysUnique
  <1>3. ASSUME NEW i \in DOMAIN subs', subs'[i].mac = "RELEASED"
        PROVE  ~Live(i)'
    BY <1>1, <1>3, RowTypes DEF TablesInv, Live
  <1>4. RowsKept
    BY <1>1, LiveHasDevice DEF RowsKept
  <1> QED BY <1>1, <1>2, <1>3, <1>4 DEF TablesInv

\* Marking a row as revoked, or ending it now, moves no key.
LEMMA EndedRowKeepsTables ==
    ASSUME TablesInv, NEW i \in DOMAIN subs, NEW row \in Rows,
           \/ \E e \in Nat : row = [subs[i] EXCEPT !.expiryJob = e]
           \/ row = [subs[i] EXCEPT !.expires = now],
           now' = now, subs' = [subs EXCEPT ![i] = row], jobs' \in Seq(Jobs)
    PROVE  TablesInv' /\ RowsKept
  <1>1. subs \in Seq(Rows) /\ now \in Nat
    BY DEF TablesInv, TablesTypeOK
  <1>2. subs[i] \in Rows
    BY <1>1
  <1>3. /\ row.name = subs[i].name /\ row.mac = subs[i].mac
        /\ row.payer = subs[i].payer /\ row.kind = subs[i].kind
        /\ row.expires = subs[i].expires \/ row.expires = now
    BY <1>2 DEF Rows
  <1>4. subs' \in Seq(Rows) /\ DOMAIN subs' = DOMAIN subs
    BY <1>1
  <1>5. \A k \in DOMAIN subs :
           /\ subs'[k].name = subs[k].name /\ subs'[k].mac = subs[k].mac
           /\ subs'[k].payer = subs[k].payer /\ subs'[k].kind = subs[k].kind
           /\ subs'[k].expires = subs[k].expires \/ subs'[k].expires = now
    BY <1>1, <1>3, <1>4
  <1>6. ASSUME NEW k \in DOMAIN subs, subs[k].mac = "RELEASED"
        PROVE  subs'[k].expires <= now
    <2>1. ~(subs[k].expires > now) /\ subs[k].expires \in Int
      BY <1>6, RowTypes DEF TablesInv, Live
    <2> QED BY <1>1, <1>5, <2>1
  <1>7. TablesInv'
    BY <1>4, <1>5, <1>6, SameKeys
  <1>8. RowsKept
    BY <1>4, <1>5, SameKeysKeepRows
  <1> QED BY <1>7, <1>8

LEMMA RevokeKeepsTables ==
    ASSUME TablesInv, NEW i \in DOMAIN subs, now' = now, QueueRevoke(i)
    PROVE  TablesInv' /\ RowsKept
  <1> DEFINE row == [subs[i] EXCEPT !.expiryJob = Len(jobs) + 1]
  <1>1. jobs \in Seq(Jobs) /\ Len(jobs) + 1 \in Nat /\ subs[i] \in Rows
    BY DEF TablesInv, TablesTypeOK
  <1>2. row \in Rows
    BY <1>1 DEF Rows
  <1>3. subs' = [subs EXCEPT ![i] = row] /\ jobs' = Append(jobs, Revocation(i))
    BY DEF QueueRevoke
  <1>4. Revocation(i) \in Jobs
    <2>1. "revoke" \in Actions /\ 1 \in Nat
      BY DEF Actions
    <2> QED BY <2>1, RowTypes, JobType DEF Revocation, TablesInv
  <1>5. jobs' \in Seq(Jobs)
    BY <1>1, <1>3, <1>4
  <1> QED BY <1>1, <1>2, <1>3, <1>5, EndedRowKeepsTables

\* A transfer checks that no other package holds the destination.
LEMMA TransferKeepsTables ==
    ASSUME TablesInv, NEW i \in DOMAIN subs, NEW m \in Macs, Transfer(i, m)
    PROVE  TablesInv' /\ RowsKept
  <1> DEFINE row == [subs[i] EXCEPT !.mac = m]
             action == IF subs[i].kind = "tv" THEN "tv-upsert" ELSE "transfer"
             job == NewJob(subs[i].name, action, subs[i].total, m)
  <1>1. subs \in Seq(Rows) /\ now \in Nat /\ jobs \in Seq(Jobs) /\ KeysUnique
    BY DEF TablesInv, TablesTypeOK
  <1>2. subs[i] \in Rows /\ i \in Nat
    BY <1>1, RowTypes DEF TablesInv
  <1>3. row \in Rows
    BY <1>2 DEF Rows
  <1>4. /\ row.name = subs[i].name /\ row.mac = m /\ row.expires = subs[i].expires
        /\ row.payer = subs[i].payer /\ row.kind = subs[i].kind
    BY <1>2 DEF Rows
  <1>5. /\ subs' = [subs EXCEPT ![i] = row] /\ jobs' = Append(jobs, job)
        /\ now' = now /\ RowsAt(m) \subseteq {i}
    BY DEF Transfer
  <1>6. job \in Jobs
    <2>1. action \in Actions
      BY DEF Actions
    <2> QED BY <2>1, RowTypes, JobType DEF TablesInv
  <1> HIDE DEF row, job
  <1>7. /\ subs' \in Seq(Rows) /\ DOMAIN subs' = DOMAIN subs /\ subs'[i] = row
        /\ \A k \in DOMAIN subs : k # i => subs'[k] = subs[k]
    BY <1>1, <1>3, <1>5
  <1>8. jobs' \in Seq(Jobs)
    BY <1>1, <1>5, <1>6
  <1>9. KeysUnique'
    <2>1. \A k \in DOMAIN subs : k # i => subs[k].mac # m
      BY <1>5 DEF RowsAt
    <2> QED BY <1>1, <1>4, <1>7, <2>1 DEF KeysUnique
  <1>10. ASSUME NEW k \in DOMAIN subs'
         PROVE  /\ subs'[k].name.tag \in {0, k}
                /\ subs'[k].mac = "RELEASED" => ~Live(k)'
    <2>1. CASE k = i
      BY <1>4, <1>7, <2>1, SubscriptionsAssumption DEF TablesInv, Placeholders
    <2>2. CASE k # i
      BY <1>5, <1>7, <2>2 DEF TablesInv, Live
    <2> QED BY <2>1, <2>2
  <1>11. TablesInv'
    BY <1>1, <1>5, <1>7, <1>8, <1>9, <1>10 DEF TablesInv, TablesTypeOK
  <1>12. RowsKept
    BY <1>4, <1>7, LiveHasDevice DEF RowsKept
  <1> QED BY <1>11, <1>12
=============================================================================
