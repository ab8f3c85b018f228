------------------------ MODULE TenantPaymentsProofs ------------------------
(***************************************************************************)
(* TenantPayments keeps its types and its money for any number of phones,  *)
(* devices, payments, crashes and jobs.  The invariant PayInv adds to the  *)
(* types what the handlers rely on without checking it:                    *)
(*                                                                         *)
(*   a payment is banked only with money that was taken, and an answer     *)
(*   "paid" still on its way stands for such money;                        *)
(*   a grant belongs to a banked payment and lies on a row of its payer;   *)
(*   a grant was made exactly once;                                        *)
(*   only a PayBill payment is reversed, and only a Daraja one is asked    *)
(*   about, so a late failure never meets a reversed payment.              *)
(***************************************************************************)
EXTENDS TenantPayments, SubscriptionsProofs, FiniteSetTheorems

Banked == {"taken", "returned"}

PaymentInv(t) ==
    /\ tx[t].status = "unused" => tx[t].rail = "none" /\ tx[t].sub = 0 /\ money[t] = "none"
    /\ tx[t].status # "unused" => tx[t].phone \in Phones
    /\ tx[t].status \in {"paid", "reversed"} => money[t] \in Banked
    /\ tx[t].status = "asking" /\ tx[t].rail = "c2b" => money[t] \in Banked
    /\ tx[t].status = "reversed" => tx[t].rail = "c2b"
    /\ \A h \in Handlers : /\ asked[h][t] # "none" => tx[t].rail = "daraja"
                           /\ asked[h][t] = "paid" => money[t] \in Banked
    /\ tx[t].sub # 0 => /\ tx[t].status \in {"paid", "reversed"}
                        /\ tx[t].sub \in DOMAIN subs
                        /\ subs[tx[t].sub].payer = tx[t].phone
                        /\ subs[tx[t].sub].kind = tx[t].kind
    /\ credits[t] = IF tx[t].sub = 0 THEN 0 ELSE 1

PayInv ==
    /\ TypeOK
    /\ TablesInv
    /\ \A t \in Checkouts : PaymentInv(t)

\* What every step does to one payment: PaidStays and FirstDeviceKeepsPayment
\* of that payment.
PaymentKept(t) ==
    /\ tx[t].status = "paid" => \/ tx'[t].status = "paid"
                                \/ tx'[t].status = "reversed" /\ money[t] = "returned"
    /\ tx[t].sub # 0 => tx'[t].sub = tx[t].sub
    /\ tx[t].status = "paid" /\ tx[t].mac \in Macs => tx'[t].mac = tx[t].mac

\* What every step does to the money and the credits.
SaleStep == S!SaleNext \/ UNCHANGED <<money, credits>>

\* What is shown of each action.
Good ==
    /\ PayInv'
    /\ RowsKept
    /\ \A t \in Checkouts : PaymentKept(t)
    /\ SaleStep

-----------------------------------------------------------------------------
(* Types *)

LEMMA PaymentTypes ==
    ASSUME NEW row \in Payments
    PROVE  /\ row.status \in Statuses /\ row.rail \in {"none", "daraja", "tuma", "c2b"}
           /\ row.phone \in Phones \cup {"nobody"} /\ row.kind \in DeviceKinds
           /\ row.mac \in Macs \cup {"CLAIM", "C2B"} /\ row.code \in {"none", "open", "used"}
           /\ row.receipt \in BOOLEAN /\ row.sub \in Nat /\ row.error \in BOOLEAN
  BY DEF Payments

\* Writing one field of a payment, and leaving the others.
WithStatus(row, s, b) == [row EXCEPT !.status = s, !.receipt = b]

WithMac(row, m, c) == [row EXCEPT !.mac = m, !.code = c]

LEMMA StatusWritten ==
    ASSUME NEW row \in Payments, NEW s \in Statuses, NEW b \in BOOLEAN
    PROVE  LET new == WithStatus(row, s, b)
           IN  /\ new \in Payments /\ new.status = s
               /\ new.rail = row.rail /\ new.phone = row.phone /\ new.kind = row.kind
               /\ new.mac = row.mac /\ new.sub = row.sub
  BY DEF WithStatus, Payments

LEMMA SubWritten ==
    ASSUME NEW row \in Payments, NEW i \in Nat
    PROVE  LET new == [row EXCEPT !.sub = i]
           IN  /\ new \in Payments /\ new.sub = i /\ new.status = row.status
               /\ new.rail = row.rail /\ new.phone = row.phone /\ new.kind = row.kind
               /\ new.mac = row.mac
  BY DEF Payments

LEMMA ErrorWritten ==
    ASSUME NEW row \in Payments, NEW b \in BOOLEAN
    PROVE  LET new == [row EXCEPT !.error = b]
           IN  /\ new \in Payments /\ new.sub = row.sub /\ new.status = row.status
               /\ new.rail = row.rail /\ new.phone = row.phone /\ new.kind = row.kind
               /\ new.mac = row.mac
  BY DEF Payments

LEMMA MacWritten ==
    ASSUME NEW row \in Payments, NEW m \in Macs, NEW c \in {"none", "open", "used"}
    PROVE  LET new == WithMac(row, m, c)
           IN  /\ new \in Payments /\ new.sub = row.sub /\ new.status = row.status
               /\ new.rail = row.rail /\ new.phone = row.phone /\ new.kind = row.kind
  BY DEF WithMac, Payments

LEMMA NoPaymentType == NoPayment \in Payments
  BY DEF NoPayment, Payments, Statuses, DeviceKinds

\* One answer written or taken.
LEMMA AnswerWritten ==
    ASSUME asked \in [Handlers -> [Checkouts -> Answers]], NEW h \in Handlers, NEW t \in Checkouts,
           NEW a \in Answers, asked' = [asked EXCEPT ![h][t] = a]
    PROVE  /\ asked' \in [Handlers -> [Checkouts -> Answers]]
           /\ asked'[h][t] = a
           /\ \A g \in Handlers, u \in Checkouts :
                 g # h \/ u # t => asked'[g][u] = asked[g][u]
  OBVIOUS

-----------------------------------------------------------------------------
(* Frames *)

\* A payment a step does not touch keeps its part of the invariant, although
\* the step may move rows and drop answers.
LEMMA UntouchedPayment ==
    ASSUME PayInv, RowsKept, NEW u \in Checkouts,
           tx'[u] = tx[u], money'[u] = money[u], credits'[u] = credits[u],
           \A h \in Handlers : asked'[h][u] \in {asked[h][u], "none"}
    PROVE  PaymentInv(u)' /\ PaymentKept(u)
  <1>1. PaymentInv(u)
    BY DEF PayInv
  <1>2. PaymentKept(u)
    BY DEF PaymentKept
  <1>3. PaymentInv(u)'
    BY <1>1 DEF PaymentInv, RowsKept
  <1> QED BY <1>2, <1>3

\* A step that concerns the payment t alone.
LEMMA OnePayment ==
    ASSUME PayInv, TypeOK', TablesInv', RowsKept, NEW t \in Checkouts,
           \A u \in Checkouts \ {t} :
               /\ tx'[u] = tx[u] /\ money'[u] = money[u] /\ credits'[u] = credits[u]
               /\ \A h \in Handlers : asked'[h][u] \in {asked[h][u], "none"},
           PaymentInv(t)', PaymentKept(t), SaleStep
    PROVE  Good
  BY UntouchedPayment DEF Good, PayInv

\* A step that concerns none.
LEMMA NoPaymentTouched ==
    ASSUME PayInv, TypeOK', TablesInv', RowsKept,
           \A u \in Checkouts :
               /\ tx'[u] = tx[u]
               /\ \A h \in Handlers : asked'[h][u] \in {asked[h][u], "none"},
           money' = money, credits' = credits
    PROVE  Good
  BY UntouchedPayment DEF Good, PayInv, SaleStep

-----------------------------------------------------------------------------
(* Banking and provisioning *)

\* What the callers of provisionTenantPayment hand it: the row as it is, or
\* as they just banked or bound it.
Rewrites(t, row) ==
    /\ row \in Payments
    /\ row.sub = tx[t].sub /\ row.phone = tx[t].phone
    /\ row.kind = tx[t].kind /\ row.rail = tx[t].rail
    /\ row = tx[t] \/ (row.status = "paid" /\ money[t] \in Banked /\ tx[t].status # "unused")
    /\ tx[t].status = "paid" /\ tx[t].mac \in Macs => row.mac = tx[t].mac

\* The grant itself: the money is there, the credit is the first one, and the
\* row it lands on is the payer's.
LEMMA GrantStep ==
    ASSUME PayInv, NEW t \in Checkouts, NEW row, Rewrites(t, row), Provisionable(row),
           \/ GrantSubscription(row.phone, row.mac, row.kind, Seconds)
           \/ GrantAndResend(row.phone, row.mac, row.kind, Seconds),
           now' = now,
           tx' = [tx EXCEPT ![t] = [row EXCEPT !.sub = GrantedRow(row.phone, row.mac, row.kind)]],
           credits' = [credits EXCEPT ![t] = @ + 1], money' = money,
           asked' \in [Handlers -> [Checkouts -> Answers]],
           \A h \in Handlers, u \in Checkouts : asked'[h][u] \in {asked[h][u], "none"},
           age' = age, sweep' \in [phase : Phases, todo : SUBSET Checkouts], crashes' = crashes
    PROVE  Good
  <1> DEFINE g == GrantedRow(row.phone, row.mac, row.kind)
             new == [row EXCEPT !.sub = g]
  <1>1. TypeOK /\ TablesInv /\ PaymentInv(t)
    BY DEF PayInv
  <1>2. /\ row \in Payments /\ row.mac \in Macs /\ row.kind \in DeviceKinds
        /\ row.phone \in Phones /\ row.status = "paid" /\ row.sub = 0
    <2>1. row \in Payments /\ row.mac \in Macs /\ row.status = "paid" /\ row.sub = 0
      BY DEF Rewrites, Provisionable
    <2>2. tx[t].phone \in Phones
      BY <1>1, <2>1 DEF Rewrites, PaymentInv
    <2> QED BY <2>1, <2>2, PaymentTypes DEF Rewrites
  <1>3. TablesInv' /\ GrantFrame(row.phone, row.mac, row.kind)
    BY <1>1, <1>2, PaymentsAssumption, GrantKeepsTables
  <1>4. RowsKept
    BY <1>1, <1>2, <1>3, GrantKeepsRows
  <1>5. /\ g \in DOMAIN subs' /\ subs'[g].payer = row.phone /\ subs'[g].kind = row.kind
    BY <1>3 DEF GrantFrame
  <1>6. g \in Nat /\ g # 0
    <2>1. subs' \in Seq(Rows)
      BY <1>3 DEF TablesInv, TablesTypeOK
    <2> QED BY <1>5, <2>1
  <1>7. /\ new \in Payments /\ new.sub = g /\ new.status = row.status
        /\ new.rail = row.rail /\ new.phone = row.phone /\ new.kind = row.kind
        /\ new.mac = row.mac
    BY <1>2, <1>6, SubWritten
  <1>8. tx' = [tx EXCEPT ![t] = new]
    OBVIOUS
  <1> HIDE DEF g, new
  <1>9. /\ tx' \in [Checkouts -> Payments] /\ tx'[t] = new
        /\ \A u \in Checkouts \ {t} : tx'[u] = tx[u]
    <2>1. tx \in [Checkouts -> Payments]
      BY <1>1 DEF TypeOK
    <2> QED BY <1>7, <1>8, <2>1
  <1>10. credits[t] = 0 /\ money[t] \in Banked /\ tx[t].status # "unused"
    <2>1. credits[t] = 0
      BY <1>1, <1>2 DEF PaymentInv, Rewrites
    <2>2. CASE row = tx[t]
      BY <1>1, <1>2, <2>1, <2>2 DEF PaymentInv
    <2>3. CASE row # tx[t]
      BY <2>1, <2>3 DEF Rewrites
    <2> QED BY <2>2, <2>3
  <1>11. /\ credits' \in [Checkouts -> Nat] /\ credits'[t] = 1
         /\ credits' = [credits EXCEPT ![t] = 1]
         /\ \A u \in Checkouts \ {t} : credits'[u] = credits[u]
    BY <1>1, <1>10 DEF TypeOK
  <1>12. TypeOK'
    BY <1>1, <1>3, <1>9, <1>11 DEF TypeOK, TablesInv
  <1>13. PaymentInv(t)'
    <2>1. tx'[t].rail = tx[t].rail /\ tx'[t].phone = tx[t].phone /\ tx'[t].kind = tx[t].kind
      BY <1>7, <1>9 DEF Rewrites
    <2>2. /\ tx'[t].status = "paid" /\ money'[t] \in Banked /\ tx'[t].phone \in Phones
      BY <1>2, <1>7, <1>9, <1>10
    <2>3. \A h \in Handlers : asked'[h][t] # "none" => tx[t].rail = "daraja"
      BY <1>1 DEF PaymentInv
    <2>4. /\ tx'[t].sub # 0 /\ tx'[t].sub \in DOMAIN subs'
          /\ subs'[tx'[t].sub].payer = tx'[t].phone /\ subs'[tx'[t].sub].kind = tx'[t].kind
      BY <1>5, <1>6, <1>7, <1>9
    <2> QED BY <1>11, <2>1, <2>2, <2>3, <2>4 DEF PaymentInv
  <1>14. PaymentKept(t)
    BY <1>2, <1>7, <1>9 DEF PaymentKept, Rewrites
  <1>15. SaleStep
    BY <1>10, <1>11 DEF SaleStep, S!SaleNext, S!Credit, Banked
  <1> QED BY <1>1, <1>3, <1>4, <1>9, <1>11, <1>12, <1>13, <1>14, <1>15, OnePayment

\* A row that may replace payment t's when no grant is made.
Replaces(t, new) ==
    /\ new \in Payments
    /\ tx[t].status = "unused" <=> new.status = "unused"
    /\ new.status = "asking" => tx[t].status = "asking"
    /\ new.sub = tx[t].sub /\ new.phone = tx[t].phone
    /\ new.kind = tx[t].kind /\ new.rail = tx[t].rail
    /\ new.status \in {"paid", "reversed"} => money[t] \in Banked
    /\ new.status = "reversed" => new.rail = "c2b"
    /\ tx[t].status = "paid" => \/ new.status = "paid"
                                \/ new.status = "reversed" /\ money[t] = "returned"
    /\ tx[t].status = "reversed" => new.status \in {"paid", "reversed"}
    /\ tx[t].status = "paid" /\ tx[t].mac \in Macs => new.mac = tx[t].mac

\* The database and the handlers' state a step may leave when it writes one row.
QuietStep ==
    /\ TablesInv' /\ RowsKept
    /\ money' = money /\ credits' = credits /\ age' = age
    /\ asked' \in [Handlers -> [Checkouts -> Answers]]
    /\ \A h \in Handlers, u \in Checkouts : asked'[h][u] \in {asked[h][u], "none"}
    /\ sweep' \in [phase : Phases, todo : SUBSET Checkouts]
    /\ crashes' \in 0..MaxCrashes

LEMMA ReplacedPayment ==
    ASSUME PayInv, QuietStep, NEW t \in Checkouts, Replaces(t, tx'[t])
    PROVE  PaymentInv(t)' /\ PaymentKept(t)
  <1> DEFINE new == tx'[t]
  <1>1. PaymentInv(t)
    BY DEF PayInv
  <1>2. /\ new.status = "unused" => new.rail = "none" /\ new.sub = 0 /\ money[t] = "none"
        /\ new.status # "unused" => new.phone \in Phones
        /\ new.status \in {"paid", "reversed"} => money[t] \in Banked
        /\ new.status = "asking" /\ new.rail = "c2b" => money[t] \in Banked
        /\ new.status = "reversed" => new.rail = "c2b"
    BY <1>1 DEF Replaces, PaymentInv
  <1>3. \A h \in Handlers : /\ asked'[h][t] # "none" => new.rail = "daraja"
                            /\ asked'[h][t] = "paid" => money[t] \in Banked
    BY <1>1 DEF Replaces, PaymentInv, QuietStep
  <1>4. new.sub # 0 => /\ new.status \in {"paid", "reversed"}
                       /\ new.sub \in DOMAIN subs'
                       /\ subs'[new.sub].payer = new.phone /\ subs'[new.sub].kind = new.kind
    BY <1>1 DEF Replaces, PaymentInv, QuietStep, RowsKept
  <1>5. credits[t] = IF new.sub = 0 THEN 0 ELSE 1
    BY <1>1 DEF Replaces, PaymentInv
  <1>6. PaymentInv(t)'
    BY <1>2, <1>3, <1>4, <1>5 DEF PaymentInv, QuietStep
  <1>7. PaymentKept(t)
    BY DEF PaymentKept, Replaces
  <1> QED BY <1>6, <1>7

LEMMA RowsStep ==
    ASSUME PayInv, QuietStep, tx' \in [Checkouts -> Payments],
           \A t \in Checkouts : tx'[t] = tx[t] \/ Replaces(t, tx'[t])
    PROVE  Good
  <1>1. TypeOK'
    BY DEF PayInv, TypeOK, QuietStep, TablesInv
  <1>2. ASSUME NEW t \in Checkouts
        PROVE  PaymentInv(t)' /\ PaymentKept(t)
    <2>1. CASE tx'[t] = tx[t]
      BY <2>1, UntouchedPayment DEF QuietStep
    <2>2. CASE Replaces(t, tx'[t])
      BY <2>2, ReplacedPayment
    <2> QED BY <2>1, <2>2
  <1> QED BY <1>1, <1>2 DEF Good, PayInv, QuietStep, SaleStep

LEMMA RowStep ==
    ASSUME PayInv, NEW t \in Checkouts, NEW new, Replaces(t, new), QuietStep,
           tx' = [tx EXCEPT ![t] = new]
    PROVE  Good
  <1>1. tx \in [Checkouts -> Payments] /\ new \in Payments
    BY DEF PayInv, TypeOK, Replaces
  <1>2. /\ tx' \in [Checkouts -> Payments] /\ tx'[t] = new
        /\ \A u \in Checkouts \ {t} : tx'[u] = tx[u]
    BY <1>1
  <1> QED BY <1>2, RowsStep

\* provisionTenantPayment, whatever becomes of the grant.
LEMMA ProvisionStep ==
    ASSUME PayInv, NEW t \in Checkouts, NEW row, Rewrites(t, row), NEW flag \in BOOLEAN,
           Provision(t, row, flag), money' = money, age' = age,
           asked' \in [Handlers -> [Checkouts -> Answers]],
           \A h \in Handlers, u \in Checkouts : asked'[h][u] \in {asked[h][u], "none"},
           sweep' \in [phase : Phases, todo : SUBSET Checkouts], crashes' = crashes
    PROVE  Good
  <1>1. CASE Granted(t, row) /\ GrantSubscription(row.phone, row.mac, row.kind, Seconds)
    BY <1>1, GrantStep DEF Granted
  <1>2. CASE /\ tx' = [tx EXCEPT ![t] = Refused(row, flag)]
             /\ UNCHANGED <<tables, credits>>
    <2> DEFINE new == Refused(row, flag)
               e == row.error \/ /\ flag
                                 /\ Provisionable(row)
                                 /\ DeviceTaken(row.phone, row.mac, row.kind)
    <2>1. row \in Payments /\ e \in BOOLEAN
      BY PaymentTypes DEF Rewrites
    <2>2. new = [row EXCEPT !.error = e]
      BY DEF Refused
    <2> HIDE DEF e, new
    <2>3. /\ new \in Payments /\ new.sub = row.sub /\ new.status = row.status
          /\ new.rail = row.rail /\ new.phone = row.phone /\ new.kind = row.kind
          /\ new.mac = row.mac
      BY <2>1, <2>2, ErrorWritten
    <2>4. PaymentInv(t) /\ tx' = [tx EXCEPT ![t] = new]
      BY <1>2 DEF PayInv, new
    <2>5. Replaces(t, new)
      BY <2>3, <2>4 DEF Replaces, Rewrites, PaymentInv
    <2>6. TablesInv' /\ RowsKept
      BY <1>2, StutterKeepsTables DEF PayInv
    <2>7. QuietStep
      BY <1>2, <2>6 DEF QuietStep, PayInv, TypeOK
    <2> QED BY <2>4, <2>5, <2>7, RowStep
  <1> QED BY <1>1, <1>2 DEF Provision

LEMMA ProvisionAndResendStep ==
    ASSUME PayInv, NEW t \in Checkouts, NEW row, Rewrites(t, row),
           ProvisionAndResend(t, row), money' = money, age' = age,
           asked' \in [Handlers -> [Checkouts -> Answers]],
           \A h \in Handlers, u \in Checkouts : asked'[h][u] \in {asked[h][u], "none"},
           sweep' \in [phase : Phases, todo : SUBSET Checkouts], crashes' = crashes
    PROVE  Good
  BY GrantStep DEF ProvisionAndResend, Granted

-----------------------------------------------------------------------------
(* setTransactionResult *)

LEMMA RecordedRow ==
    ASSUME NEW row \in Payments, NEW s \in Statuses, NEW b \in BOOLEAN
    PROVE  LET new == Recorded(row, s, b)
           IN  /\ new \in Payments
               /\ row.status = "paid" => new.status = "paid"
               /\ row.status # "paid" => new.status = s
               /\ new.rail = row.rail /\ new.phone = row.phone /\ new.kind = row.kind
               /\ new.mac = row.mac /\ new.sub = row.sub
  <1>1. CASE row.status = "paid" /\ s # "paid"
    <2>1. Recorded(row, s, b) = row
      BY <1>1, Zenon DEF Recorded
    <2> QED BY <1>1, <2>1, Zenon
  <1>2. CASE ~(row.status = "paid" /\ s # "paid")
    <2> DEFINE r == row.receipt \/ b
    <2>1. r \in BOOLEAN
      OBVIOUS
    <2>2. Recorded(row, s, b) = WithStatus(row, s, r)
      BY <1>2 DEF Recorded, WithStatus
    <2> DEFINE new == Recorded(row, s, b)
    <2> HIDE DEF r
    <2>3. /\ new \in Payments /\ new.status = s
          /\ new.rail = row.rail /\ new.phone = row.phone /\ new.kind = row.kind
          /\ new.mac = row.mac /\ new.sub = row.sub
      BY <2>1, <2>2, StatusWritten
    <2> QED BY <1>2, <2>3
  <1> QED BY <1>1, <1>2

\* What a step that settles one payment may do to the rest.
RestKept ==
    /\ money' = money /\ age' = age /\ crashes' = crashes
    /\ asked' \in [Handlers -> [Checkouts -> Answers]]
    /\ \A h \in Handlers, u \in Checkouts : asked'[h][u] \in {asked[h][u], "none"}
    /\ sweep' \in [phase : Phases, todo : SUBSET Checkouts]

LEMMA SettleStep ==
    ASSUME PayInv, NEW t \in Checkouts, NEW b \in BOOLEAN, Settle(t, b),
           money[t] \in Banked, tx[t].status # "unused", RestKept
    PROVE  Good
  <1> DEFINE row == Recorded(tx[t], "paid", b)
  <1>1. tx[t] \in Payments /\ "paid" \in Statuses
    BY DEF PayInv, TypeOK, Statuses
  <1>2. Rewrites(t, row)
    BY <1>1, RecordedRow DEF Rewrites
  <1>3. Provision(t, row, FALSE)
    BY DEF Settle
  <1> HIDE DEF row
  <1> QED BY <1>2, <1>3, ProvisionStep DEF RestKept

\* A failure is recorded of a payment that was never reversed.
LEMMA FailStep ==
    ASSUME PayInv, NEW t \in Checkouts, Fail(t), tx[t].rail \in {"daraja", "tuma"}, RestKept
    PROVE  Good
  <1> DEFINE row == Recorded(tx[t], "failed", FALSE)
  <1>1. tx[t] \in Payments /\ "failed" \in Statuses /\ PaymentInv(t)
    BY DEF PayInv, TypeOK, Statuses
  <1>2. tx[t].status \notin {"unused", "reversed"}
    BY <1>1 DEF PaymentInv
  <1>3. /\ row \in Payments
        /\ tx[t].status = "paid" => row.status = "paid"
        /\ tx[t].status # "paid" => row.status = "failed"
        /\ row.rail = tx[t].rail /\ row.phone = tx[t].phone /\ row.kind = tx[t].kind
        /\ row.mac = tx[t].mac /\ row.sub = tx[t].sub
    BY <1>1, RecordedRow
  <1>4. tx' = [tx EXCEPT ![t] = row] /\ UNCHANGED <<tables, credits>>
    BY DEF Fail
  <1> HIDE DEF row
  <1>5. Replaces(t, row)
    BY <1>1, <1>2, <1>3 DEF Replaces, PaymentInv
  <1>6. TablesInv' /\ RowsKept
    BY <1>4, StutterKeepsTables DEF PayInv
  <1>7. QuietStep
    BY <1>4, <1>6 DEF QuietStep, RestKept, PayInv, TypeOK
  <1> QED BY <1>4, <1>5, <1>7, RowStep

-----------------------------------------------------------------------------
(* The handlers that learn of a payment *)

LEMMA AnswerTaken ==
    ASSUME PayInv, NEW h \in Handlers, NEW t \in Checkouts, Answered(h, t),
           money' = money, age' = age, crashes' = crashes,
           sweep' \in [phase : Phases, todo : SUBSET Checkouts]
    PROVE  RestKept
  <1>1. asked \in [Handlers -> [Checkouts -> Answers]] /\ "none" \in Answers
    BY DEF PayInv, TypeOK, Answers
  <1>2. asked' = [asked EXCEPT ![h][t] = "none"]
    BY DEF Answered
  <1>3. /\ asked' \in [Handlers -> [Checkouts -> Answers]]
        /\ asked'[h][t] = "none"
        /\ \A g \in Handlers, u \in Checkouts :
              g # h \/ u # t => asked'[g][u] = asked[g][u]
    BY <1>1, <1>2, AnswerWritten
  <1> QED BY <1>3 DEF RestKept

\* Nothing but the payment's row and its grant moves.
LEMMA HandlersRest ==
    ASSUME PayInv, UNCHANGED <<money, age, asked, crashes>>,
           sweep' \in [phase : Phases, todo : SUBSET Checkouts]
    PROVE  RestKept
  BY DEF RestKept, PayInv, TypeOK

\* What an answer on its way says of the payment it is about.
LEMMA AnswerFacts ==
    ASSUME PayInv, NEW h \in Handlers, NEW t \in Checkouts, ~Idle(h, t)
    PROVE  /\ tx[t].rail = "daraja" /\ tx[t].status # "unused"
           /\ asked[h][t] = "paid" => money[t] \in Banked
  BY DEF PayInv, PaymentInv, Idle

LEMMA CallbackResumeStep ==
    ASSUME PayInv, NEW t \in Checkouts, CallbackResume(t)
    PROVE  Good
  <1>1. ~Idle("callback", t) /\ "callback" \in Handlers
    BY DEF CallbackResume, Handlers
  <1>2. RestKept
    BY <1>1, AnswerTaken DEF CallbackResume, PayInv, TypeOK
  <1>3. CASE asked["callback"][t] = "paid"
    BY <1>1, <1>2, <1>3, AnswerFacts, SettleStep DEF CallbackResume
  <1>4. CASE asked["callback"][t] # "paid"
    BY <1>1, <1>2, <1>4, AnswerFacts, FailStep DEF CallbackResume
  <1> QED BY <1>3, <1>4

LEMMA StatusResumeStep ==
    ASSUME PayInv, NEW t \in Checkouts, StatusResume(t)
    PROVE  Good
  <1>1. ~Idle("status", t) /\ "status" \in Handlers
    BY DEF StatusResume, Handlers
  <1>2. RestKept
    BY <1>1, AnswerTaken DEF StatusResume, PayInv, TypeOK
  <1>3. CASE asked["status"][t] = "paid"
    BY <1>1, <1>2, <1>3, AnswerFacts, SettleStep DEF StatusResume
  <1>4. CASE asked["status"][t] # "paid"
    BY <1>1, <1>2, <1>4, AnswerFacts, FailStep DEF StatusResume
  <1> QED BY <1>3, <1>4

\* A step that writes no payment and adds no answer.
LEMMA QuietKeepsPayments ==
    ASSUME PayInv, TablesInv', RowsKept, tx' = tx, money' = money, credits' = credits,
           age' \in [Checkouts -> 0..3],
           asked' \in [Handlers -> [Checkouts -> Answers]],
           \A h \in Handlers, u \in Checkouts : asked'[h][u] \in {asked[h][u], "none"},
           sweep' \in [phase : Phases, todo : SUBSET Checkouts],
           crashes' \in 0..MaxCrashes
    PROVE  Good
  <1>1. TypeOK'
    BY DEF PayInv, TypeOK, TablesInv
  <1> QED BY <1>1, NoPaymentTouched

LEMMA SweepResumeStep ==
    ASSUME PayInv, NEW t \in Checkouts, SweepResume(t)
    PROVE  Good
  <1>1. ~Idle("sweep", t) /\ "sweep" \in Handlers
    BY DEF SweepResume, Handlers
  <1>2. RestKept
    BY <1>1, AnswerTaken DEF SweepResume, PayInv, TypeOK
  <1>3. CASE asked["sweep"][t] = "paid"
    BY <1>1, <1>2, <1>3, AnswerFacts, SettleStep DEF SweepResume
  <1>4. CASE asked["sweep"][t] = "failed" /\ age[t] >= 2
    BY <1>1, <1>2, <1>4, AnswerFacts, FailStep DEF SweepResume
  <1>5. CASE ~(asked["sweep"][t] = "paid") /\ ~(asked["sweep"][t] = "failed" /\ age[t] >= 2)
    <2>1. UNCHANGED <<tables, tx, credits>>
      BY <1>5 DEF SweepResume
    <2>2. TablesInv' /\ RowsKept
      BY <2>1, StutterKeepsTables DEF PayInv
    <2> QED BY <1>2, <2>1, <2>2, QuietKeepsPayments DEF RestKept, PayInv, TypeOK
  <1> QED BY <1>3, <1>4, <1>5

LEMMA TumaCallbackStep ==
    ASSUME PayInv, NEW t \in Checkouts, TumaCallback(t)
    PROVE  Good
  <1>1. tx[t].rail = "tuma" /\ tx[t].status # "unused"
    BY DEF TumaCallback, TumaCalls, Stored
  <1>2. RestKept
    BY HandlersRest DEF TumaCallback, PayInv, TypeOK
  <1>3. CASE money[t] = "taken"
    BY <1>1, <1>2, <1>3, SettleStep DEF TumaCallback, Banked
  <1>4. CASE money[t] # "taken"
    BY <1>1, <1>2, <1>4, FailStep DEF TumaCallback
  <1> QED BY <1>3, <1>4

\* Handing provisionTenantPayment the row as it stands.
LEMMA AsItIs ==
    ASSUME PayInv, NEW t \in Checkouts
    PROVE  Rewrites(t, tx[t])
  BY DEF Rewrites, PayInv, TypeOK

LEMMA StatusPaidStep ==
    ASSUME PayInv, NEW t \in Checkouts, StatusPaid(t)
    PROVE  Good
  <1>1. RestKept
    BY HandlersRest DEF StatusPaid, PayInv, TypeOK
  <1> QED BY <1>1, AsItIs, ProvisionStep DEF StatusPaid, RestKept

LEMMA SweepTumaStep ==
    ASSUME PayInv, NEW t \in Checkouts, SweepTuma(t)
    PROVE  Good
  <1>1. sweep' \in [phase : Phases, todo : SUBSET Checkouts]
    BY DEF SweepTuma, SweepTurn, PayInv, TypeOK
  <1>2. RestKept
    BY <1>1, HandlersRest DEF SweepTuma
  <1> QED BY <1>2, FailStep DEF SweepTuma

LEMMA SweepGrantStep ==
    ASSUME PayInv, NEW t \in Checkouts, SweepGrant(t)
    PROVE  Good
  <1>1. sweep' \in [phase : Phases, todo : SUBSET Checkouts]
    BY DEF SweepGrant, PayInv, TypeOK
  <1>2. RestKept
    BY <1>1, HandlersRest DEF SweepGrant
  <1>3. Provision(t, tx[t], TRUE)
    BY DEF SweepGrant
  <1> QED BY <1>2, <1>3, AsItIs, ProvisionStep DEF RestKept

-----------------------------------------------------------------------------
(* Binding and retrying *)

\* A placeholder is no device, so binding one moves no payment that has a device.
LEMMA BoundRow ==
    ASSUME PayInv, NEW t \in Checkouts, NEW m \in Macs, tx[t].status = "paid", tx[t].mac \notin Macs
    PROVE  Rewrites(t, Bound(t, m))
  <1> DEFINE c == IF tx[t].code = "open" THEN "used" ELSE tx[t].code
  <1>1. tx[t] \in Payments /\ PaymentInv(t)
    BY DEF PayInv, TypeOK
  <1>2. c \in {"none", "open", "used"}
    BY <1>1, PaymentTypes
  <1>3. Bound(t, m) = WithMac(tx[t], m, c)
    BY DEF Bound, WithMac
  <1> HIDE DEF c
  <1>4. LET new == WithMac(tx[t], m, c)
        IN  /\ new \in Payments /\ new.sub = tx[t].sub /\ new.status = tx[t].status
            /\ new.rail = tx[t].rail /\ new.phone = tx[t].phone /\ new.kind = tx[t].kind
    BY <1>1, <1>2, MacWritten
  <1>5. Rewrites(t, WithMac(tx[t], m, c))
    BY <1>1, <1>4 DEF Rewrites, PaymentInv
  <1> QED BY <1>3, <1>5

LEMMA ClearedRow ==
    ASSUME PayInv, NEW t \in Checkouts, NEW row, Rewrites(t, row), tx[t].status = "paid"
    PROVE  Rewrites(t, [row EXCEPT !.error = FALSE])
  <1> DEFINE new == [row EXCEPT !.error = FALSE]
  <1>1. row \in Payments /\ PaymentInv(t)
    BY DEF PayInv, Rewrites
  <1>2. /\ new \in Payments /\ new.sub = row.sub /\ new.status = row.status
        /\ new.rail = row.rail /\ new.phone = row.phone /\ new.kind = row.kind
        /\ new.mac = row.mac
    BY <1>1, ErrorWritten
  <1> HIDE DEF new
  <1>3. Rewrites(t, new)
    BY <1>1, <1>2 DEF Rewrites, PaymentInv
  <1> QED BY <1>3 DEF new

LEMMA ClaimStep ==
    ASSUME PayInv, NEW t \in Checkouts, NEW m \in Macs, Claim(t, m)
    PROVE  Good
  <1>1. tx[t].status = "paid" /\ tx[t].mac \notin Macs
    BY SubscriptionsAssumption DEF Claim, Placeholders
  <1>2. RestKept
    BY HandlersRest DEF Claim, PayInv, TypeOK
  <1> QED BY <1>1, <1>2, BoundRow, ProvisionStep DEF Claim, RestKept

LEMMA RecoverStep ==
    ASSUME PayInv, NEW t \in Checkouts, NEW m \in Macs, Recover(t, m)
    PROVE  Good
  <1> DEFINE row == IF tx[t].mac \in Macs THEN tx[t] ELSE Bound(t, m)
             new == [row EXCEPT !.error = FALSE]
  <1>1. tx[t].status = "paid" /\ Provision(t, new, TRUE)
    BY DEF Recover
  <1>2. RestKept
    BY HandlersRest DEF Recover, PayInv, TypeOK
  <1>3. Rewrites(t, row)
    BY <1>1, AsItIs, BoundRow
  <1> HIDE DEF row
  <1>4. Rewrites(t, new)
    BY <1>1, <1>3, ClearedRow
  <1> HIDE DEF new
  <1> QED BY <1>1, <1>2, <1>4, ProvisionStep DEF RestKept

LEMMA OwnerRetryStep ==
    ASSUME PayInv, NEW t \in Checkouts, OwnerRetry(t)
    PROVE  Good
  <1> DEFINE new == [tx[t] EXCEPT !.error = FALSE]
  <1>1. tx[t].status = "paid" /\ (Provision(t, new, TRUE) \/ ProvisionAndResend(t, new))
    BY DEF OwnerRetry
  <1>2. RestKept
    BY HandlersRest DEF OwnerRetry, PayInv, TypeOK
  <1>3. Rewrites(t, new)
    BY <1>1, AsItIs, ClearedRow
  <1> HIDE DEF new
  <1> QED BY <1>1, <1>2, <1>3, ProvisionStep, ProvisionAndResendStep DEF RestKept

LEMMA ClaimGrantedStep ==
    ASSUME PayInv, NEW t \in Checkouts, ClaimGranted(t)
    PROVE  Good
  <1>1. RestKept
    BY HandlersRest DEF ClaimGranted, PayInv, TypeOK
  <1> QED BY <1>1, AsItIs, ProvisionAndResendStep DEF ClaimGranted, RestKept

-----------------------------------------------------------------------------
(* Status queries *)

\* A query is sent about a Daraja payment, and its answer tells the truth.
LEMMA AskStep ==
    ASSUME PayInv, NEW h \in Handlers, NEW t \in Checkouts, Ask(h, t), tx[t].rail = "daraja",
           UNCHANGED <<tables, tx, age, money, credits, crashes>>,
           sweep' \in [phase : Phases, todo : SUBSET Checkouts]
    PROVE  Good
  <1>1. TypeOK /\ PaymentInv(t) /\ asked \in [Handlers -> [Checkouts -> Answers]]
    BY DEF PayInv, TypeOK
  <1>2. Verdict(t) \in Answers /\ (Verdict(t) = "paid" => money[t] = "taken")
    BY DEF Verdict, Answers
  <1>3. asked' = [asked EXCEPT ![h][t] = Verdict(t)]
    BY DEF Ask
  <1>4. /\ asked' \in [Handlers -> [Checkouts -> Answers]] /\ asked'[h][t] = Verdict(t)
        /\ \A g \in Handlers, u \in Checkouts :
              g # h \/ u # t => asked'[g][u] = asked[g][u]
    BY <1>1, <1>2, <1>3, AnswerWritten
  <1>5. TablesInv' /\ RowsKept
    BY StutterKeepsTables DEF PayInv
  <1>6. TypeOK'
    BY <1>1, <1>4, <1>5 DEF TypeOK, TablesInv
  <1>7. PaymentKept(t) /\ SaleStep
    BY DEF PaymentKept, SaleStep
  <1>8. PaymentInv(t)'
    <2>1. \A g \in Handlers : asked'[g][t] = "paid" => money[t] \in Banked
      BY <1>1, <1>2, <1>4 DEF PaymentInv, Banked
    <2> QED BY <1>1, <1>5, <2>1 DEF PaymentInv, RowsKept
  <1> QED BY <1>4, <1>5, <1>6, <1>7, <1>8, OnePayment

LEMMA AskSteps ==
    ASSUME PayInv, NEW t \in Checkouts, CallbackAsk(t) \/ StatusAsk(t) \/ SweepAsk(t)
    PROVE  Good
  <1>1. CASE CallbackAsk(t)
    BY <1>1, AskStep DEF CallbackAsk, Handlers, PayInv, TypeOK
  <1>2. CASE StatusAsk(t)
    BY <1>2, AskStep DEF StatusAsk, Handlers, PayInv, TypeOK
  <1>3. CASE SweepAsk(t)
    <2>1. sweep' \in [phase : Phases, todo : SUBSET Checkouts]
      BY <1>3 DEF SweepAsk, SweepTurn, PayInv, TypeOK
    <2> QED BY <1>3, <2>1, AskStep DEF SweepAsk, Handlers
  <1> QED BY <1>1, <1>2, <1>3

LEMMA NoAnswerStep ==
    ASSUME PayInv, NEW h \in Handlers, NEW t \in Checkouts, NoAnswer(h, t)
    PROVE  Good
  <1>1. UNCHANGED <<tables, tx, age, money, sweep, credits, crashes>> /\ Answered(h, t)
    BY DEF NoAnswer
  <1>2. RestKept
    BY <1>1, AnswerTaken DEF PayInv, TypeOK
  <1>3. TablesInv' /\ RowsKept
    BY <1>1, StutterKeepsTables DEF PayInv
  <1> QED BY <1>1, <1>2, <1>3, QuietKeepsPayments DEF RestKept, PayInv, TypeOK

-----------------------------------------------------------------------------
(* The customer, M-Pesa and PayBill *)

\* The money of one payment moves as Sale allows, and away from nothing banked.
LEMMA MoneyStep ==
    ASSUME PayInv, NEW t \in Checkouts, NEW a, NEW b,
           <<a, b>> \in S!Moves, money[t] = a, money' = [money EXCEPT ![t] = b],
           tx[t].status # "unused", UNCHANGED <<tables, tx, age, asked, sweep, credits, crashes>>
    PROVE  Good
  <1>1. TypeOK /\ PaymentInv(t)
    BY DEF PayInv
  <1>2. b \in {"none", "prompt", "taken", "declined", "returned"} /\ (a \in Banked => b \in Banked)
    BY DEF S!Moves, Banked
  <1>3. /\ money' \in [Checkouts -> {"none", "prompt", "taken", "declined", "returned"}]
        /\ money'[t] = b /\ \A u \in Checkouts \ {t} : money'[u] = money[u]
    BY <1>1, <1>2 DEF TypeOK
  <1>4. TablesInv' /\ RowsKept
    BY StutterKeepsTables DEF PayInv
  <1>5. TypeOK'
    BY <1>1, <1>3, <1>4 DEF TypeOK, TablesInv
  <1>6. PaymentInv(t)'
    BY <1>1, <1>2, <1>3, <1>4 DEF PaymentInv, RowsKept
  <1>7. PaymentKept(t)
    BY DEF PaymentKept
  <1>8. SaleStep
    <2>1. S!Move(t)
      BY DEF S!Move
    <2> QED BY <2>1 DEF SaleStep, S!SaleNext
  <1> QED BY <1>3, <1>4, <1>5, <1>6, <1>7, <1>8, OnePayment

LEMMA AnswerStep ==
    ASSUME PayInv, NEW t \in Checkouts, Answer(t)
    PROVE  Good
  <1>1. money[t] = "prompt" /\ UNCHANGED <<tables, tx, age, asked, sweep, credits, crashes>>
    BY DEF Answer
  <1>2. tx[t].status # "unused"
    BY <1>1 DEF PayInv, PaymentInv
  <1>3. PICK b \in {"taken", "declined"} : money' = [money EXCEPT ![t] = b]
    BY DEF Answer
  <1>4. <<"prompt", b>> \in S!Moves
    BY <1>3 DEF S!Moves
  <1> QED BY <1>1, <1>2, <1>3, <1>4, MoneyStep

LEMMA MoneyReturnedStep ==
    ASSUME PayInv, NEW t \in Checkouts, MoneyReturned(t)
    PROVE  Good
  <1>1. /\ money[t] = "taken" /\ money' = [money EXCEPT ![t] = "returned"]
        /\ UNCHANGED <<tables, tx, age, asked, sweep, credits, crashes>>
    BY DEF MoneyReturned
  <1>2. tx[t].status # "unused"
    BY <1>1 DEF PayInv, PaymentInv
  <1>3. <<"taken", "returned">> \in S!Moves
    BY DEF S!Moves
  <1> QED BY <1>1, <1>2, <1>3, MoneyStep

\* A payment begins: a prompt goes out, or a PayBill payment is made.
LEMMA BeginStep ==
    ASSUME PayInv, NEW t \in Checkouts, NEW new \in Payments, NEW b \in {"prompt", "taken"},
           tx[t].status = "unused", tx' = [tx EXCEPT ![t] = new],
           new.status = "asking", new.phone \in Phones, new.sub = 0,
           new.rail = "c2b" => b = "taken", money' = [money EXCEPT ![t] = b],
           UNCHANGED <<tables, age, asked, sweep, credits, crashes>>
    PROVE  Good
  <1>1. TypeOK /\ PaymentInv(t) /\ tx[t].rail = "none" /\ tx[t].sub = 0 /\ money[t] = "none"
    BY DEF PayInv, PaymentInv
  <1>2. /\ money' \in [Checkouts -> {"none", "prompt", "taken", "declined", "returned"}]
        /\ money'[t] = b /\ \A u \in Checkouts \ {t} : money'[u] = money[u]
    BY <1>1 DEF TypeOK
  <1>3. /\ tx' \in [Checkouts -> Payments] /\ tx'[t] = new
        /\ \A u \in Checkouts \ {t} : tx'[u] = tx[u]
    BY <1>1 DEF TypeOK
  <1>4. TablesInv' /\ RowsKept
    BY StutterKeepsTables DEF PayInv
  <1>5. TypeOK'
    BY <1>1, <1>2, <1>3, <1>4 DEF TypeOK, TablesInv
  <1>6. \A h \in Handlers : asked[h][t] = "none"
    BY <1>1 DEF PaymentInv
  <1>7. PaymentInv(t)'
    BY <1>1, <1>2, <1>3, <1>6 DEF PaymentInv, Banked
  <1>8. PaymentKept(t)
    BY <1>1 DEF PaymentKept
  <1>9. SaleStep
    <2>1. <<"none", b>> \in S!Moves /\ money[t] = "none"
      BY <1>1 DEF S!Moves
    <2>2. S!Move(t)
      BY <2>1 DEF S!Move
    <2> QED BY <2>2 DEF SaleStep, S!SaleNext
  <1> QED BY <1>2, <1>3, <1>4, <1>5, <1>7, <1>8, <1>9, OnePayment

LEMMA PayAskStep ==
    ASSUME PayInv, NEW t \in Checkouts, NEW r \in Rails[t], NEW p \in Phones,
           NEW m \in Macs \cup {"CLAIM"}, NEW k \in Kinds, PayAsk(t, r, p, m, k)
    PROVE  Good
  <1> DEFINE c == IF m = "CLAIM" THEN "open" ELSE "none"
             new == Begun(r, p, k, m, c)
  <1>1. /\ r \in {"daraja", "tuma", "c2b"} /\ k \in DeviceKinds
        /\ c \in {"none", "open", "used"}
    BY PaymentsAssumption, SubscriptionsAssumption
  <1>2. new \in Payments
    BY <1>1 DEF Begun, Payments, Statuses
  <1>3. tx' = [tx EXCEPT ![t] = new]
    BY DEF PayAsk
  <1>4. /\ tx[t].status = "unused" /\ money' = [money EXCEPT ![t] = "prompt"]
        /\ UNCHANGED <<tables, age, asked, sweep, credits, crashes>>
    BY DEF PayAsk
  <1>5. new.status = "asking" /\ new.phone \in Phones /\ new.sub = 0 /\ new.rail # "c2b"
    BY DEF Begun, PayAsk
  <1> HIDE DEF new
  <1> QED BY <1>2, <1>3, <1>4, <1>5, BeginStep

LEMMA PayBillStep ==
    ASSUME PayInv, NEW t \in Checkouts, NEW p \in Phones, PayBill(t, p)
    PROVE  Good
  <1> DEFINE new == Begun("c2b", p, "phone", "C2B", "none")
  <1>1. new \in Payments
    BY DEF Begun, Payments, Statuses, DeviceKinds
  <1>2. tx' = [tx EXCEPT ![t] = new]
    BY DEF PayBill
  <1>3. /\ tx[t].status = "unused" /\ money' = [money EXCEPT ![t] = "taken"]
        /\ UNCHANGED <<tables, age, asked, sweep, credits, crashes>>
    BY DEF PayBill
  <1>4. new.status = "asking" /\ new.phone \in Phones /\ new.sub = 0
    BY DEF Begun
  <1> HIDE DEF new
  <1> QED BY <1>1, <1>2, <1>3, <1>4, BeginStep

\* Only the status column of one payment changes.
LEMMA StatusOnly ==
    ASSUME PayInv, NEW t \in Checkouts, NEW s \in Statuses,
           tx[t].status = "asking", s \in {"pending", "lost"},
           tx' = [tx EXCEPT ![t].status = s],
           UNCHANGED <<tables, age, money, asked, sweep, credits, crashes>>
    PROVE  Good
  <1> DEFINE new == [tx[t] EXCEPT !.status = s]
  <1>1. tx[t] \in Payments
    BY DEF PayInv, TypeOK
  <1>2. /\ new \in Payments /\ new.status = s
        /\ new.sub = tx[t].sub /\ new.phone = tx[t].phone
        /\ new.kind = tx[t].kind /\ new.rail = tx[t].rail
    BY <1>1 DEF Payments
  <1>3. tx' = [tx EXCEPT ![t] = new]
    OBVIOUS
  <1> HIDE DEF new
  <1>4. Replaces(t, new)
    BY <1>2 DEF Replaces
  <1>5. TablesInv' /\ RowsKept
    BY StutterKeepsTables DEF PayInv
  <1>6. QuietStep
    BY <1>5 DEF QuietStep, PayInv, TypeOK
  <1> QED BY <1>3, <1>4, <1>6, RowStep

LEMMA PromptSteps ==
    ASSUME PayInv, NEW t \in Checkouts, PayStore(t) \/ PayLose(t)
    PROVE  Good
  <1>1. CASE PayStore(t)
    BY <1>1, StatusOnly DEF PayStore, Statuses
  <1>2. CASE PayLose(t)
    BY <1>2, StatusOnly DEF PayLose, Statuses
  <1> QED BY <1>1, <1>2

\* A confirmation banks money the customer has paid: the row is a PayBill one.
LEMMA C2bConfirmStep ==
    ASSUME PayInv, NEW t \in Checkouts, C2bConfirm(t)
    PROVE  Good
  <1> DEFINE new == Recorded(tx[t], "paid", TRUE)
  <1>1. tx[t] \in Payments /\ "paid" \in Statuses /\ PaymentInv(t) /\ tx[t].status = "asking"
    BY DEF PayInv, TypeOK, Statuses, C2bConfirm
  <1>2. /\ new \in Payments /\ new.status = "paid" /\ new.mac = tx[t].mac
        /\ new.sub = tx[t].sub /\ new.phone = tx[t].phone
        /\ new.kind = tx[t].kind /\ new.rail = tx[t].rail
    BY <1>1, RecordedRow
  <1>3. tx' = [tx EXCEPT ![t] = new]
    BY DEF C2bConfirm
  <1> HIDE DEF new
  <1>4. Replaces(t, new)
    BY <1>1, <1>2 DEF Replaces, PaymentInv, C2bConfirm
  <1>5. TablesInv' /\ RowsKept
    BY StutterKeepsTables DEF C2bConfirm, PayInv
  <1>6. QuietStep
    BY <1>5 DEF C2bConfirm, QuietStep, PayInv, TypeOK
  <1> QED BY <1>3, <1>4, <1>6, RowStep

\* A reversal ends the payment's package, and only a payment still paid.
LEMMA C2bReversalStep ==
    ASSUME PayInv, NEW t \in Checkouts, C2bReversal(t)
    PROVE  Good
  <1> DEFINE new == [tx[t] EXCEPT !.status = "reversed"]
             i == tx[t].sub
  <1>1. tx[t] \in Payments /\ PaymentInv(t) /\ TablesInv
    BY DEF PayInv, TypeOK
  <1>2. /\ money[t] = "returned" /\ tx[t].rail = "c2b" /\ tx[t].status = "paid"
        /\ tx' = [tx EXCEPT ![t] = new]
        /\ UNCHANGED <<now, age, money, asked, sweep, credits, crashes>>
    BY DEF C2bReversal
  <1>3. /\ new \in Payments /\ new.status = "reversed" /\ new.mac = tx[t].mac
        /\ new.sub = tx[t].sub /\ new.phone = tx[t].phone
        /\ new.kind = tx[t].kind /\ new.rail = tx[t].rail
    BY <1>1 DEF Payments, Statuses
  <1>4. TablesInv' /\ RowsKept
    <2>1. CASE i = 0
      BY <1>1, <1>2, <2>1, StutterKeepsTables DEF C2bReversal, tables
    <2>2. CASE i # 0
      <3> DEFINE row == [subs[i] EXCEPT !.expires = now]
                 job == NewJob(subs[i].name, "revoke", 1, subs[i].mac)
      <3>1. i \in DOMAIN subs
        BY <1>1, <2>2 DEF PaymentInv
      <3>2. subs[i] \in Rows /\ now \in Int
        BY <1>1, <3>1, RowTypes DEF TablesInv, TablesTypeOK
      <3>3. row \in Rows
        BY <3>2 DEF Rows
      <3>4. subs' = [subs EXCEPT ![i] = row] /\ jobs' = Append(jobs, job)
        BY <2>2 DEF C2bReversal
      <3>5. job \in Jobs
        <4>1. "revoke" \in Actions /\ 1 \in Nat
          BY DEF Actions
        <4> QED BY <1>1, <3>1, <4>1, RowTypes, JobType DEF TablesInv
      <3>6. jobs' \in Seq(Jobs)
        BY <1>1, <3>4, <3>5, JobAppended DEF TablesInv
      <3>7. row = [subs[i] EXCEPT !.expires = now]
        OBVIOUS
      <3> HIDE DEF row, job, i
      <3> QED BY <1>1, <1>2, <3>1, <3>3, <3>4, <3>6, <3>7, EndedRowKeepsTables
    <2> QED BY <2>1, <2>2
  <1> HIDE DEF new
  <1>5. Replaces(t, new)
    BY <1>2, <1>3 DEF Replaces, Banked
  <1>6. QuietStep
    BY <1>2, <1>4 DEF QuietStep, PayInv, TypeOK
  <1> QED BY <1>2, <1>5, <1>6, RowStep

-----------------------------------------------------------------------------
(* Steps that write no payment *)

LEMMA TablesStep ==
    ASSUME PayInv, TablesInv', RowsKept, UNCHANGED <<tx, age, money, asked, sweep, credits, crashes>>
    PROVE  Good
  BY QuietKeepsPayments DEF PayInv, TypeOK

\* Sending a login again.
LEMMA ResendSteps ==
    ASSUME PayInv, NEW t \in Checkouts, ClaimAgain(t) \/ Requeue(t) \/ OwnerRequeue(t)
    PROVE  Good
  <1> DEFINE i == tx[t].sub
  <1>1. TablesInv /\ PaymentInv(t) /\ UNCHANGED <<now, subs, tx, age, money, asked, sweep, credits, crashes>>
    BY DEF PayInv, ClaimAgain, Requeue, OwnerRequeue
  <1>2. i # 0
    BY DEF ClaimAgain, Requeue, OwnerRequeue
  <1>3. i \in DOMAIN subs
    BY <1>1, <1>2 DEF PaymentInv
  <1>4. \E a \in Actions : jobs' = Append(jobs, NewJob(subs[i].name, a, subs[i].total, subs[i].mac))
    <2>1. "upsert" \in Actions /\ UpsertAction(subs[i].kind) \in Actions
      BY DEF Actions, UpsertAction
    <2> QED BY <2>1 DEF ClaimAgain, Requeue, OwnerRequeue
  <1>5. TablesInv' /\ RowsKept
    BY <1>1, <1>3, <1>4, ResendKeepsTables
  <1> QED BY <1>1, <1>5, TablesStep

LEMMA RouterSteps ==
    ASSUME PayInv, \/ \E i \in DOMAIN subs : RouterRevoke(i)
                   \/ \E j \in DOMAIN jobs : RouterAck(j)
    PROVE  Good
  <1>1. CASE \E i \in DOMAIN subs : RouterRevoke(i)
    <2>1. PICK i \in DOMAIN subs : RouterRevoke(i)
      BY <1>1
    <2>2. TablesInv' /\ RowsKept
      BY <2>1, RevokeKeepsTables DEF RouterRevoke, PayInv
    <2> QED BY <2>1, <2>2, TablesStep DEF RouterRevoke
  <1>2. CASE \E j \in DOMAIN jobs : RouterAck(j)
    <2>1. PICK j \in DOMAIN jobs : RouterAck(j)
      BY <1>2
    <2>2. TablesInv' /\ RowsKept
      BY <2>1, AckKeepsTables DEF RouterAck, PayInv
    <2> QED BY <2>1, <2>2, TablesStep DEF RouterAck
  <1> QED BY <1>1, <1>2

LEMMA CustomerSteps ==
    ASSUME PayInv, CustomerStep
    PROVE  Good
  <1>1. CASE Tick
    BY <1>1, TickKeepsTables, TablesStep DEF CustomerStep, PayInv
  <1>2. CASE \E i \in DOMAIN subs, m \in Macs : Transfer(i, m)
    BY <1>2, TransferKeepsTables, TablesStep DEF CustomerStep, PayInv
  <1> QED BY <1>1, <1>2 DEF CustomerStep

LEMMA SweepSteps ==
    ASSUME PayInv, SweepStart \/ SweepBacklog \/ SweepEnd
    PROVE  Good
  <1>1. UNCHANGED <<tables, tx, age, money, asked, credits, crashes>>
    BY DEF SweepStart, SweepBacklog, SweepEnd
  <1>2. sweep' \in [phase : Phases, todo : SUBSET Checkouts]
    <2>1. Stale \in SUBSET Checkouts /\ Backlog \in SUBSET Checkouts
      BY DEF Stale, Backlog
    <2> QED BY <2>1 DEF SweepStart, SweepBacklog, SweepEnd, SweepOff, Phases
  <1>3. TablesInv' /\ RowsKept
    BY <1>1, StutterKeepsTables DEF PayInv
  <1> QED BY <1>1, <1>2, <1>3, QuietKeepsPayments DEF PayInv, TypeOK

LEMMA AgingStep ==
    ASSUME PayInv, NEW t \in Checkouts, Aging(t)
    PROVE  Good
  <1>1. /\ age[t] < 3 /\ age' = [age EXCEPT ![t] = @ + 1]
        /\ UNCHANGED <<tables, tx, money, asked, sweep, credits, crashes>>
    BY DEF Aging
  <1>2. age' \in [Checkouts -> 0..3]
    BY <1>1 DEF PayInv, TypeOK
  <1>3. TablesInv' /\ RowsKept
    BY <1>1, StutterKeepsTables DEF PayInv
  <1> QED BY <1>1, <1>2, <1>3, QuietKeepsPayments DEF PayInv, TypeOK

-----------------------------------------------------------------------------
(* Restarts *)

LEMMA CrashStep ==
    ASSUME PayInv, NEW rows \in [Checkouts -> Payments], Stop, tx' = Forgotten(rows),
           \A u \in Checkouts : rows[u] = tx[u] \/ (rows[u].status = "paid" /\ Replaces(u, rows[u]))
    PROVE  Good
  <1>1. UNCHANGED <<tables, age, money, credits>> /\ crashes' \in 0..MaxCrashes
    BY PaymentsAssumption DEF Stop, PayInv, TypeOK
  <1>2. /\ asked' = NobodyAsks
        /\ sweep' \in [phase : Phases, todo : SUBSET Checkouts]
    BY DEF Stop, SweepOff, Phases
  <1>3. /\ asked' \in [Handlers -> [Checkouts -> Answers]]
        /\ \A h \in Handlers, u \in Checkouts : asked'[h][u] = "none"
    BY <1>2 DEF NobodyAsks, Answers
  <1>4. TablesInv' /\ RowsKept
    BY <1>1, StutterKeepsTables DEF PayInv
  <1>5. QuietStep
    BY <1>1, <1>2, <1>3, <1>4 DEF QuietStep
  <1>6. ASSUME NEW u \in Checkouts
        PROVE  tx'[u] \in Payments /\ (tx'[u] = tx[u] \/ Replaces(u, tx'[u]))
    <2>1. rows[u] \in Payments
      OBVIOUS
    <2>2. CASE rows[u].status = "asking" /\ rows[u].rail # "c2b"
      <3> DEFINE new == [rows[u] EXCEPT !.status = "lost"]
      <3>1. rows[u] = tx[u]
        BY <2>2
      <3>2. tx'[u] = new
        BY <2>2 DEF Forgotten
      <3>3. /\ new \in Payments /\ new.status = "lost"
            /\ new.sub = rows[u].sub /\ new.phone = rows[u].phone
            /\ new.kind = rows[u].kind /\ new.rail = rows[u].rail
        BY <2>1 DEF Payments, Statuses
      <3> HIDE DEF new
      <3>4. Replaces(u, new)
        BY <2>2, <3>1, <3>3 DEF Replaces
      <3> QED BY <3>2, <3>3, <3>4
    <2>3. CASE ~(rows[u].status = "asking" /\ rows[u].rail # "c2b")
      <3>1. tx'[u] = rows[u]
        BY <2>3 DEF Forgotten
      <3> QED BY <2>1, <3>1
    <2> QED BY <2>2, <2>3
  <1>7. tx' \in [Checkouts -> Payments]
    BY <1>6 DEF Forgotten
  <1> QED BY <1>5, <1>6, <1>7, RowsStep

\* The row of a payment banked just before the process stopped.
LEMMA BankedRow ==
    ASSUME PayInv, NEW t \in Checkouts, NEW b \in BOOLEAN, money[t] \in Banked,
           tx[t].status # "unused"
    PROVE  LET row == Recorded(tx[t], "paid", b)
           IN  /\ row.status = "paid" /\ Replaces(t, row)
               /\ [tx EXCEPT ![t] = row] \in [Checkouts -> Payments]
  <1>1. tx[t] \in Payments /\ "paid" \in Statuses /\ tx \in [Checkouts -> Payments]
    BY DEF PayInv, TypeOK, Statuses
  <1>2. LET row == Recorded(tx[t], "paid", b)
        IN  /\ row \in Payments /\ row.status = "paid" /\ row.mac = tx[t].mac
            /\ row.sub = tx[t].sub /\ row.phone = tx[t].phone
            /\ row.kind = tx[t].kind /\ row.rail = tx[t].rail
    BY <1>1, RecordedRow
  <1> QED BY <1>1, <1>2 DEF Replaces

LEMMA CrashSteps ==
    ASSUME PayInv, Crash \/ \E t \in Checkouts : CrashAfterBanking(t)
    PROVE  Good
  <1>1. CASE Crash
    BY <1>1, CrashStep DEF Crash, PayInv, TypeOK
  <1>2. ASSUME NEW t \in Checkouts, CrashAfterBanking(t)
        PROVE  Good
    <2>1. Stop
      BY <1>2 DEF CrashAfterBanking
    <2>2. \E b \in BOOLEAN : /\ tx' = Forgotten([tx EXCEPT ![t] = Recorded(tx[t], "paid", b)])
                             /\ money[t] \in Banked /\ tx[t].status # "unused"
      <3>1. CASE \E h \in Handlers :
                   /\ asked[h][t] = "paid"
                   /\ tx' = Forgotten([tx EXCEPT ![t] = Recorded(@, "paid", h = "callback")])
        <4>1. PICK h \in Handlers :
                /\ asked[h][t] = "paid"
                /\ tx' = Forgotten([tx EXCEPT ![t] = Recorded(@, "paid", h = "callback")])
          BY <3>1
        <4>2. money[t] \in Banked /\ tx[t].status # "unused"
          BY <4>1, AnswerFacts DEF Idle
        <4>3. (h = "callback") \in BOOLEAN
          OBVIOUS
        <4> QED BY <4>1, <4>2, <4>3
      <3>2. CASE /\ TumaCalls(t) /\ money[t] = "taken"
                 /\ tx' = Forgotten([tx EXCEPT ![t] = Recorded(@, "paid", TRUE)])
        BY <3>2 DEF TumaCalls, Stored, Banked
      <3> QED BY <1>2, <3>1, <3>2 DEF CrashAfterBanking
    <2>3. PICK b \in BOOLEAN : /\ tx' = Forgotten([tx EXCEPT ![t] = Recorded(tx[t], "paid", b)])
                              /\ money[t] \in Banked /\ tx[t].status # "unused"
      BY <2>2
    <2> DEFINE row == Recorded(tx[t], "paid", b)
               rows == [tx EXCEPT ![t] = row]
    <2>4. row.status = "paid" /\ Replaces(t, row) /\ rows \in [Checkouts -> Payments]
      BY <2>3, BankedRow
    <2>5. tx \in [Checkouts -> Payments]
      BY DEF PayInv, TypeOK
    <2> HIDE DEF row
    <2>6. \A u \in Checkouts : rows[u] = tx[u] \/ (rows[u].status = "paid" /\ Replaces(u, rows[u]))
      BY <2>4, <2>5
    <2>7. tx' = Forgotten(rows)
      BY <2>3 DEF row
    <2> HIDE DEF rows
    <2> QED BY <2>1, <2>4, <2>6, <2>7, CrashStep
  <1> QED BY <1>1, <1>2

-----------------------------------------------------------------------------
(* The invariant is inductive *)

LEMMA InitPayInv == Init => PayInv
  <1> SUFFICES ASSUME Init PROVE PayInv
    OBVIOUS
  <1>1. subs = << >> /\ jobs = << >> /\ now = 0
    BY DEF Init
  <1>2. TablesInv
    BY <1>1 DEF TablesInv, TablesTypeOK, KeysUnique
  <1>3. tx = [t \in Checkouts |-> NoPayment] /\ tx \in [Checkouts -> Payments]
    BY NoPaymentType DEF Init
  <1>4. asked \in [Handlers -> [Checkouts -> Answers]]
    BY DEF Init, NobodyAsks, Answers
  <1>5. sweep \in [phase : Phases, todo : SUBSET Checkouts]
    BY DEF Init, SweepOff, Phases
  <1>6. TypeOK
    BY <1>2, <1>3, <1>4, <1>5, PaymentsAssumption DEF Init, TypeOK, TablesInv
  <1>7. ASSUME NEW t \in Checkouts
        PROVE  PaymentInv(t)
    <2>1. tx[t].status = "unused" /\ tx[t].rail = "none" /\ tx[t].sub = 0
      BY <1>3 DEF NoPayment
    <2>2. money[t] = "none" /\ credits[t] = 0
      BY DEF Init
    <2>3. \A h \in Handlers : asked[h][t] = "none"
      BY DEF Init, NobodyAsks
    <2> QED BY <2>1, <2>2, <2>3 DEF PaymentInv
  <1> QED BY <1>2, <1>6, <1>7 DEF PayInv

LEMMA StutterStep ==
    ASSUME PayInv, UNCHANGED payVars
    PROVE  Good
  <1>1. UNCHANGED tables /\ UNCHANGED <<tx, age, money, asked, sweep, credits, crashes>>
    BY DEF payVars
  <1>2. TablesInv' /\ RowsKept
    BY <1>1, StutterKeepsTables DEF PayInv
  <1> QED BY <1>1, <1>2, TablesStep

LEMMA CustomerActions ==
    ASSUME PayInv, NEW t \in Checkouts, Customer(t)
    PROVE  Good
  <1>1. CASE \E r \in Rails[t], p \in Phones, m \in Macs \cup {"CLAIM"}, k \in Kinds :
               PayAsk(t, r, p, m, k)
    BY <1>1, PayAskStep
  <1>2. CASE \E p \in Phones : PayBill(t, p)
    BY <1>2, PayBillStep
  <1>3. CASE PayStore(t) \/ PayLose(t)
    BY <1>3, PromptSteps
  <1>4. CASE Answer(t)
    BY <1>4, AnswerStep
  <1>5. CASE \E m \in Macs : Claim(t, m) \/ Recover(t, m)
    BY <1>5, ClaimStep, RecoverStep
  <1>6. CASE ClaimAgain(t) \/ Requeue(t) \/ OwnerRequeue(t)
    BY <1>6, ResendSteps
  <1>7. CASE OwnerRetry(t)
    BY <1>7, OwnerRetryStep
  <1>8. CASE ClaimGranted(t)
    BY <1>8, ClaimGrantedStep
  <1> QED BY <1>1, <1>2, <1>3, <1>4, <1>5, <1>6, <1>7, <1>8 DEF Customer

LEMMA SettlingActions ==
    ASSUME PayInv, NEW t \in Checkouts, Settling(t)
    PROVE  Good
  <1>1. CASE CallbackAsk(t) \/ StatusAsk(t) \/ SweepAsk(t)
    BY <1>1, AskSteps
  <1>2. CASE \E h \in Handlers : NoAnswer(h, t)
    BY <1>2, NoAnswerStep
  <1>3. CASE CallbackResume(t)
    BY <1>3, CallbackResumeStep
  <1>4. CASE StatusResume(t)
    BY <1>4, StatusResumeStep
  <1>5. CASE SweepResume(t)
    BY <1>5, SweepResumeStep
  <1>6. CASE TumaCallback(t)
    BY <1>6, TumaCallbackStep
  <1>7. CASE StatusPaid(t)
    BY <1>7, StatusPaidStep
  <1>8. CASE SweepTuma(t)
    BY <1>8, SweepTumaStep
  <1>9. CASE SweepGrant(t)
    BY <1>9, SweepGrantStep
  <1>10. CASE C2bConfirm(t)
    BY <1>10, C2bConfirmStep
  <1>11. CASE MoneyReturned(t)
    BY <1>11, MoneyReturnedStep
  <1>12. CASE C2bReversal(t)
    BY <1>12, C2bReversalStep
  <1> QED BY <1>1, <1>2, <1>3, <1>4, <1>5, <1>6, <1>7, <1>8, <1>9, <1>10, <1>11, <1>12
          DEF Settling

\* Every step of the payment path, one action at a time.
LEMMA EveryStepIsGood ==
    ASSUME PayInv, [Next]_payVars
    PROVE  Good
  <1>1. CASE \E t \in Checkouts : Customer(t)
    BY <1>1, CustomerActions
  <1>2. CASE \E t \in Checkouts : Settling(t)
    BY <1>2, SettlingActions
  <1>3. CASE \E t \in Checkouts : Aging(t)
    BY <1>3, AgingStep
  <1>4. CASE SweepStart \/ SweepBacklog \/ SweepEnd
    BY <1>4, SweepSteps
  <1>5. CASE CustomerStep
    BY <1>5, CustomerSteps
  <1>6. CASE \/ \E i \in DOMAIN subs : RouterRevoke(i)
             \/ \E j \in DOMAIN jobs : RouterAck(j)
    BY <1>6, RouterSteps
  <1>7. CASE Crash \/ \E t \in Checkouts : CrashAfterBanking(t)
    BY <1>7, CrashSteps
  <1>8. CASE UNCHANGED payVars
    BY <1>8, StutterStep
  <1> QED BY <1>1, <1>2, <1>3, <1>4, <1>5, <1>6, <1>7, <1>8 DEF Next

LEMMA PayInvHolds == Spec => []PayInv
  <1>1. Init => PayInv
    BY InitPayInv
  <1>2. PayInv /\ [Next]_payVars => PayInv'
    BY EveryStepIsGood DEF Good
  <1> QED BY <1>1, <1>2, PTL DEF Spec

-----------------------------------------------------------------------------
(* The theorems *)

\* Every variable of the payment path keeps its type.
THEOREM TypeCorrect == Spec => []TypeOK
  <1>1. PayInv => TypeOK
    BY DEF PayInv
  <1> QED BY <1>1, PayInvHolds, PTL

\* No device and no router login belongs to two packages, whatever payments,
\* claims, transfers and releases are interleaved (grantSubscription,
\* releaseEndedSubscription and the transfer route).
THEOREM OnePackagePerDevice == Spec => []KeysUnique
  <1>1. PayInv => KeysUnique
    BY DEF PayInv, TablesInv
  <1> QED BY <1>1, PayInvHolds, PTL

\* A package is switched on only for money that was taken, and stays the
\* package of the number that paid (provisionPaidTransaction).
THEOREM GrantsArePaidFor == Spec => []GrantIsForPayer
  <1>1. PayInv => GrantIsForPayer
    BY DEF PayInv, PaymentInv, GrantIsForPayer, Banked
  <1> QED BY <1>1, PayInvHolds, PTL

\* What was banked stays banked, and its grant stays (setTransactionResult).
THEOREM PaidPaymentsStay == Spec => PaidStays
  <1>1. PayInv /\ [Next]_payVars =>
          [\A t \in Checkouts :
              /\ tx[t].status = "paid" => \/ tx'[t].status = "paid"
                                          \/ tx'[t].status = "reversed" /\ money[t] = "returned"
              /\ tx[t].sub # 0 => tx'[t].sub = tx[t].sub]_payVars
    BY EveryStepIsGood DEF Good, PaymentKept
  <1> QED BY <1>1, PayInvHolds, PTL DEF Spec, PaidStays

\* A payment bound to a device is never moved to another (bindPaymentClaim,
\* bindPayBillPayment, bindUnclaimedPayment).
THEOREM FirstDeviceWins == Spec => FirstDeviceKeepsPayment
  <1>1. PayInv /\ [Next]_payVars =>
          [\A t \in Checkouts :
              tx[t].status = "paid" /\ tx[t].mac \in Macs => tx'[t].mac = tx[t].mac]_payVars
    BY EveryStepIsGood DEF Good, PaymentKept
  <1> QED BY <1>1, PayInvHolds, PTL DEF Spec, FirstDeviceKeepsPayment

\* No step takes the device or the login of a running package
\* (deviceTakenError, releaseEndedSubscription).
THEOREM RunningPackagesKeepTheirDevice == Spec => LivePackageKeepsDevice
  <1>1. PayInv /\ [Next]_payVars =>
          [\A i \in DOMAIN subs :
              Live(i) => subs'[i].mac \in Macs /\ subs'[i].name = subs[i].name]_payVars
    BY EveryStepIsGood DEF Good, RowsKept
  <1> QED BY <1>1, PayInvHolds, PTL DEF Spec, LivePackageKeepsDevice

\* The payment path implements the sale: a payment is credited at most once
\* and only with money that was taken, for any number of callbacks, polls,
\* sweeps, claims, retries and crashes.
THEOREM PaymentsImplementSale == Spec => ImplementsSale
  <1>1. Init => S!SaleInit
    BY DEF Init, S!SaleInit
  <1>2. PayInv /\ [Next]_payVars => [S!SaleNext]_(S!saleVars)
    BY EveryStepIsGood DEF Good, SaleStep, S!saleVars
  <1> QED BY <1>1, <1>2, PayInvHolds, PTL DEF Spec, ImplementsSale, S!SaleSpec

-----------------------------------------------------------------------------
(* Time on the books *)

\* The one step that sells time: payment t, whose row is `row`, gets its grant.
Sells(t, row) ==
    /\ Rewrites(t, row)
    /\ Granted(t, row)
    /\ GrantRow(row.phone, row.mac, row.kind, Seconds)

\* Every other step leaves the ceilings and the grants.
TotalsKept ==
    /\ credits' = credits
    /\ DOMAIN subs' = DOMAIN subs
    /\ \A i \in DOMAIN subs : subs'[i].total = subs[i].total

SellsOrKeeps == TotalsKept \/ \E t \in Checkouts, row \in Payments : Sells(t, row)

LEMMA SameRowsKeepTotals ==
    ASSUME credits' = credits, subs' = subs
    PROVE  SellsOrKeeps
  BY DEF SellsOrKeeps, TotalsKept

LEMMA OneRowKeepsTotals ==
    ASSUME credits' = credits, NEW i \in DOMAIN subs, NEW row,
           subs' = [subs EXCEPT ![i] = row], row.total = subs[i].total
    PROVE  SellsOrKeeps
  BY DEF SellsOrKeeps, TotalsKept

LEMMA ProvisionSells ==
    ASSUME NEW t \in Checkouts, NEW row, Rewrites(t, row), NEW flag,
           Provision(t, row, flag) \/ ProvisionAndResend(t, row)
    PROVE  SellsOrKeeps
  <1>1. row \in Payments
    BY DEF Rewrites
  <1>2. CASE /\ Granted(t, row)
             /\ \/ GrantSubscription(row.phone, row.mac, row.kind, Seconds)
                \/ GrantAndResend(row.phone, row.mac, row.kind, Seconds)
    BY <1>1, <1>2 DEF SellsOrKeeps, Sells, GrantSubscription, GrantAndResend
  <1>3. CASE UNCHANGED <<tables, credits>>
    BY <1>3, SameRowsKeepTotals DEF tables
  <1> QED BY <1>2, <1>3 DEF Provision, ProvisionAndResend

LEMMA SettleSells ==
    ASSUME PayInv, NEW t \in Checkouts, NEW b \in BOOLEAN, Settle(t, b),
           money[t] \in Banked, tx[t].status # "unused"
    PROVE  SellsOrKeeps
  <1> DEFINE row == Recorded(tx[t], "paid", b)
  <1>1. tx[t] \in Payments /\ "paid" \in Statuses
    BY DEF PayInv, TypeOK, Statuses
  <1>2. Rewrites(t, row)
    BY <1>1, RecordedRow DEF Rewrites
  <1>3. Provision(t, row, FALSE)
    BY DEF Settle
  <1> HIDE DEF row
  <1> QED BY <1>2, <1>3, ProvisionSells

LEMMA FailSellsNothing ==
    ASSUME NEW t, Fail(t)
    PROVE  SellsOrKeeps
  BY SameRowsKeepTotals DEF Fail, tables

\* The customer's steps.
LEMMA CustomerSells ==
    ASSUME PayInv, NEW t \in Checkouts, Customer(t)
    PROVE  SellsOrKeeps
  <1>1. CASE \/ \E r \in Rails[t], p \in Phones, m \in Macs \cup {"CLAIM"}, k \in Kinds :
                   PayAsk(t, r, p, m, k)
             \/ \E p \in Phones : PayBill(t, p)
             \/ PayStore(t) \/ PayLose(t) \/ Answer(t)
             \/ ClaimAgain(t) \/ Requeue(t) \/ OwnerRequeue(t)
    <2>1. credits' = credits /\ subs' = subs
      BY <1>1 DEF PayAsk, PayBill, PayStore, PayLose, Answer, ClaimAgain, Requeue, OwnerRequeue, tables
    <2> QED BY <2>1, SameRowsKeepTotals
  <1>2. ASSUME NEW m \in Macs, Claim(t, m)  PROVE SellsOrKeeps
    <2>1. tx[t].status = "paid" /\ tx[t].mac \notin Macs
      BY <1>2, SubscriptionsAssumption DEF Claim, Placeholders
    <2> QED BY <1>2, <2>1, BoundRow, ProvisionSells DEF Claim
  <1>3. ASSUME NEW m \in Macs, Recover(t, m)  PROVE SellsOrKeeps
    <2> DEFINE row == IF tx[t].mac \in Macs THEN tx[t] ELSE Bound(t, m)
               new == [row EXCEPT !.error = FALSE]
    <2>1. tx[t].status = "paid" /\ Provision(t, new, TRUE)
      BY <1>3 DEF Recover
    <2>2. Rewrites(t, row)
      BY <2>1, AsItIs, BoundRow
    <2> HIDE DEF row
    <2>3. Rewrites(t, new)
      BY <2>1, <2>2, ClearedRow
    <2> HIDE DEF new
    <2> QED BY <2>1, <2>3, ProvisionSells
  <1>4. CASE OwnerRetry(t)
    <2> DEFINE new == [tx[t] EXCEPT !.error = FALSE]
    <2>1. tx[t].status = "paid" /\ (Provision(t, new, TRUE) \/ ProvisionAndResend(t, new))
      BY <1>4 DEF OwnerRetry
    <2>2. Rewrites(t, new)
      BY <2>1, AsItIs, ClearedRow
    <2> HIDE DEF new
    <2> QED BY <2>1, <2>2, ProvisionSells
  <1>5. CASE ClaimGranted(t)
    BY <1>5, AsItIs, ProvisionSells DEF ClaimGranted
  <1> QED BY <1>1, <1>2, <1>3, <1>4, <1>5 DEF Customer

\* The handlers' steps.
LEMMA SettlingSells ==
    ASSUME PayInv, NEW t \in Checkouts, Settling(t)
    PROVE  SellsOrKeeps
  <1>1. CASE \/ CallbackAsk(t) \/ StatusAsk(t) \/ SweepAsk(t)
             \/ \E h \in Handlers : NoAnswer(h, t)
             \/ C2bConfirm(t) \/ MoneyReturned(t)
    <2>1. credits' = credits /\ subs' = subs
      BY <1>1 DEF CallbackAsk, StatusAsk, SweepAsk, NoAnswer, C2bConfirm, MoneyReturned, tables
    <2> QED BY <2>1, SameRowsKeepTotals
  <1>2. ASSUME NEW h \in Handlers, ~Idle(h, t), NEW b \in BOOLEAN,
               \/ asked[h][t] = "paid" /\ Settle(t, b)
               \/ Fail(t)
        PROVE  SellsOrKeeps
    BY <1>2, AnswerFacts, SettleSells, FailSellsNothing
  <1>3. CASE CallbackResume(t)
    BY <1>2, <1>3 DEF CallbackResume, Handlers
  <1>4. CASE StatusResume(t)
    BY <1>2, <1>4 DEF StatusResume, Handlers
  <1>5. CASE SweepResume(t)
    <2>1. CASE UNCHANGED <<tables, tx, credits>>
      BY <2>1, SameRowsKeepTotals DEF tables
    <2>2. "sweep" \in Handlers /\ ~Idle("sweep", t)
      BY <1>5 DEF SweepResume, Handlers
    <2>3. \/ asked["sweep"][t] = "paid" /\ Settle(t, FALSE)
          \/ Fail(t)
          \/ UNCHANGED <<tables, tx, credits>>
      BY <1>5 DEF SweepResume
    <2> QED BY <1>2, <2>1, <2>2, <2>3
  <1>6. CASE TumaCallback(t)
    <2>1. tx[t].status # "unused"
      BY <1>6 DEF TumaCallback, TumaCalls, Stored
    <2> QED BY <1>6, <2>1, SettleSells, FailSellsNothing DEF TumaCallback, Banked
  <1>7. CASE StatusPaid(t)
    BY <1>7, AsItIs, ProvisionSells DEF StatusPaid
  <1>8. CASE SweepTuma(t)
    BY <1>8, FailSellsNothing DEF SweepTuma
  <1>9. CASE SweepGrant(t)
    BY <1>9, AsItIs, ProvisionSells DEF SweepGrant
  <1>10. CASE C2bReversal(t)
    <2>1. CASE tx[t].sub = 0
      BY <1>10, <2>1, SameRowsKeepTotals DEF C2bReversal
    <2>2. CASE tx[t].sub # 0
      <3> DEFINE i == tx[t].sub
                 row == [subs[i] EXCEPT !.expires = now]
      <3>1. i \in DOMAIN subs /\ TablesTypeOK
        BY <2>2 DEF PayInv, PaymentInv, TablesInv
      <3>2. subs[i] \in Rows
        BY <3>1, RowTypes
      <3>3. row.total = subs[i].total
        BY <3>2 DEF Rows
      <3>4. subs' = [subs EXCEPT ![i] = row] /\ credits' = credits
        BY <1>10, <2>2 DEF C2bReversal
      <3> HIDE DEF i, row
      <3> QED BY <3>1, <3>3, <3>4, OneRowKeepsTotals
    <2> QED BY <2>1, <2>2
  <1> QED BY <1>1, <1>3, <1>4, <1>5, <1>6, <1>7, <1>8, <1>9, <1>10 DEF Settling

\* Only a grant changes a ceiling, and only a grant counts as one.
LEMMA EveryStepSellsOrKeeps ==
    ASSUME PayInv, [Next]_payVars
    PROVE  SellsOrKeeps
  <1>1. CASE \E t \in Checkouts : Customer(t) \/ Settling(t)
    BY <1>1, CustomerSells, SettlingSells
  <1>2. CASE \/ \E t \in Checkouts : Aging(t) \/ CrashAfterBanking(t)
             \/ SweepStart \/ SweepBacklog \/ SweepEnd \/ Crash
             \/ \E j \in DOMAIN jobs : RouterAck(j)
             \/ UNCHANGED payVars
    <2>1. credits' = credits /\ subs' = subs
      BY <1>2 DEF Aging, CrashAfterBanking, Crash, Stop, SweepStart, SweepBacklog, SweepEnd,
                  RouterAck, payVars, tables
    <2> QED BY <2>1, SameRowsKeepTotals
  <1>3. ASSUME NEW i \in DOMAIN subs, RouterRevoke(i)  PROVE SellsOrKeeps
    <2> DEFINE row == [subs[i] EXCEPT !.expiryJob = Len(jobs) + 1]
    <2>1. subs[i] \in Rows
      BY RowTypes DEF PayInv, TablesInv
    <2>2. row.total = subs[i].total
      BY <2>1 DEF Rows
    <2>3. subs' = [subs EXCEPT ![i] = row] /\ credits' = credits
      BY <1>3 DEF RouterRevoke, QueueRevoke
    <2> HIDE DEF row
    <2> QED BY <2>2, <2>3, OneRowKeepsTotals
  <1>4. CASE CustomerStep
    <2>1. CASE Tick
      BY <1>4, <2>1, SameRowsKeepTotals DEF CustomerStep, Tick
    <2>2. ASSUME NEW i \in DOMAIN subs, NEW m \in Macs, Transfer(i, m)  PROVE SellsOrKeeps
      <3> DEFINE row == [subs[i] EXCEPT !.mac = m]
      <3>1. subs[i] \in Rows
        BY RowTypes DEF PayInv, TablesInv
      <3>2. row.total = subs[i].total
        BY <3>1 DEF Rows
      <3>3. subs' = [subs EXCEPT ![i] = row] /\ credits' = credits
        BY <1>4, <2>2 DEF Transfer, CustomerStep
      <3> HIDE DEF row
      <3> QED BY <3>2, <3>3, OneRowKeepsTotals
    <2> QED BY <1>4, <2>1, <2>2 DEF CustomerStep
  <1> QED BY <1>1, <1>2, <1>3, <1>4 DEF Next

\* The payments whose grant lies on row i.
SoldOn(i) == {t \in Checkouts : tx[t].sub = i}

\* The ceiling is a number of package lengths, and the payments can be counted.
SoldInv ==
    \A i \in DOMAIN subs :
        /\ IsFiniteSet(SoldOn(i))
        /\ \E n \in (IF ExpiryV2 THEN 1..Cardinality(SoldOn(i)) ELSE {Cardinality(SoldOn(i))}) :
              subs[i].total = Seconds * n

\* A step without a grant leaves each payment its row.
LEMMA KeptGrants ==
    ASSUME PayInv, PayInv', NEW t \in Checkouts, credits'[t] = credits[t], PaymentKept(t)
    PROVE  tx'[t].sub = tx[t].sub
  BY DEF PayInv, PaymentInv, PaymentKept

LEMMA KeepsSold ==
    ASSUME PayInv, SoldInv, Good, TotalsKept
    PROVE  SoldInv'
  <1>1. \A t \in Checkouts : tx'[t].sub = tx[t].sub
    BY KeptGrants DEF Good, TotalsKept
  <1>2. \A i \in DOMAIN subs : SoldOn(i)' = SoldOn(i)
    BY <1>1 DEF SoldOn
  <1> QED BY <1>2 DEF SoldInv, TotalsKept

\* What a sale does to the ceilings.
LEMMA SoldTotals ==
    ASSUME PayInv, NEW p, NEW m, NEW k, GrantRow(p, m, k, Seconds),
           NEW g, g = GrantedRow(p, m, k)
    PROVE  /\ DOMAIN subs' = DOMAIN subs \cup {g}
           /\ \A i \in DOMAIN subs : i # g => subs'[i].total = subs[i].total
           /\ g \notin DOMAIN subs => subs'[g].total = Seconds
           /\ g \in DOMAIN subs => \/ subs'[g].total = subs[g].total + Seconds
                                   \/ ExpiryV2 /\ subs'[g].total = Seconds
  <1> DEFINE R == Released(p, m, k)
             row == GrantedValue(p, m, k, Seconds)
  <1>1. /\ subs \in Seq(Rows) /\ DOMAIN subs = 1..Len(subs) /\ Len(subs) \in Nat
        /\ Seconds \in Nat
    BY PaymentsAssumption DEF PayInv, TablesInv, TablesTypeOK
  <1>2. CASE OwnRows(p, m, k) = {}
    <2>1. g = Len(subs) + 1 /\ subs' = Append(R, row) /\ row.total = Seconds
      BY <1>2 DEF GrantRow, GrantedRow, GrantedValue
    <2>2. DOMAIN R = DOMAIN subs /\ \A i \in DOMAIN subs : R[i].total = subs[i].total
      <3>1. ASSUME NEW i \in DOMAIN subs  PROVE R[i].total = subs[i].total
        <4>1. subs[i] \in Rows
          BY <1>1
        <4> QED BY <4>1 DEF Released, Rows
      <3> QED BY <3>1 DEF Released
    <2>3. R \in Seq(Rows) \/ R \in Seq({R[i] : i \in DOMAIN subs})
      <3> DEFINE T == {R[i] : i \in DOMAIN subs}
      <3>1. R = [i \in 1..Len(subs) |-> R[i]]
        BY <1>1 DEF Released
      <3>2. \A i \in 1..Len(subs) : R[i] \in T
        BY <1>1
      <3> HIDE DEF T, R
      <3>3. R \in Seq(T)
        BY <1>1, <3>1, <3>2
      <3> QED BY <3>3 DEF T
    <2> HIDE DEF R, row
    <2>4. Len(R) = Len(subs)
      BY <1>1, <2>2, <2>3
    <2>5. /\ DOMAIN subs' = DOMAIN subs \cup {g} /\ g \notin DOMAIN subs /\ subs'[g] = row
          /\ \A i \in DOMAIN subs : subs'[i] = R[i]
      BY <1>1, <2>1, <2>3, <2>4
    <2>6. /\ DOMAIN subs' = DOMAIN subs \cup {g} /\ g \notin DOMAIN subs /\ subs'[g].total = Seconds
          /\ \A i \in DOMAIN subs : subs'[i].total = subs[i].total
      BY <2>1, <2>2, <2>5
    <2> QED BY <2>6
  <1>3. CASE OwnRows(p, m, k) # {}
    <2>1. g \in DOMAIN subs /\ subs' = [subs EXCEPT ![g] = row]
      BY <1>3 DEF GrantRow, GrantedRow, OwnRows, RowsAt
    <2>2. subs[g] \in Rows
      BY <1>1, <2>1
    <2>3. \/ row.total = subs[g].total + Seconds
          \/ ExpiryV2 /\ row.total = Seconds
      <3>1. subs[g].total \in Nat
        BY <2>2 DEF Rows
      <3>2. row.total = (IF FreshCycle(p, m, k) THEN 0 ELSE subs[g].total) + Seconds
        BY <1>3, <2>2 DEF GrantedValue, Rows
      <3> HIDE DEF row
      <3>3. CASE FreshCycle(p, m, k)
        <4>1. ExpiryV2
          BY <3>3 DEF FreshCycle
        <4> QED BY <1>1, <3>2, <3>3, <4>1
      <3>4. CASE ~FreshCycle(p, m, k)
        BY <3>2, <3>4
      <3> QED BY <3>3, <3>4
    <2> HIDE DEF row
    <2>4. /\ DOMAIN subs' = DOMAIN subs \cup {g} /\ subs'[g] = row
          /\ \A i \in DOMAIN subs : i # g => subs'[i] = subs[i]
      BY <2>1
    <2> QED BY <2>1, <2>3, <2>4
  <1> QED BY <1>2, <1>3

\* One more payment on a row, one more package length under its ceiling.
LEMMA SellingKeepsSold ==
    ASSUME PayInv, SoldInv, Good, NEW t \in Checkouts, NEW row \in Payments, Sells(t, row)
    PROVE  SoldInv'
  <1> PICK g : g = GrantedRow(row.phone, row.mac, row.kind)
    OBVIOUS
  <1> DEFINE new == [row EXCEPT !.sub = g]
  <1>1. /\ row.mac \in Macs /\ row.sub = 0 /\ tx[t].sub = 0
        /\ tx \in [Checkouts -> Payments] /\ tx' = [tx EXCEPT ![t] = new]
        /\ GrantRow(row.phone, row.mac, row.kind, Seconds)
    BY DEF Sells, Rewrites, Granted, Provisionable, PayInv, TypeOK
  <1>2. /\ DOMAIN subs' = DOMAIN subs \cup {g}
        /\ \A i \in DOMAIN subs : i # g => subs'[i].total = subs[i].total
        /\ g \notin DOMAIN subs => subs'[g].total = Seconds
        /\ g \in DOMAIN subs => \/ subs'[g].total = subs[g].total + Seconds
                                \/ ExpiryV2 /\ subs'[g].total = Seconds
    <2> DEFINE p == row.phone
               m == row.mac
               k == row.kind
    <2>1. m \in Macs /\ GrantRow(p, m, k, Seconds) /\ g = GrantedRow(p, m, k)
      BY <1>1
    <2> HIDE DEF p, m, k
    <2> QED BY <2>1, SoldTotals
  <1>3. new.sub = g
    <2>1. row \in Payments
      OBVIOUS
    <2> QED BY <2>1 DEF Payments
  <1>4. 0 \notin DOMAIN subs' /\ \A u \in Checkouts : tx[u].sub = 0 \/ tx[u].sub \in DOMAIN subs
    BY DEF Good, PayInv, PaymentInv, TablesInv, TablesTypeOK
  <1>5. Seconds \in Nat
    BY PaymentsAssumption
  <1> HIDE DEF new
  <1>6. tx'[t].sub = g /\ \A u \in Checkouts : u # t => tx'[u] = tx[u]
    BY <1>1, <1>3
  <1>7. SoldOn(g)' = SoldOn(g) \cup {t} /\ t \notin SoldOn(g)
    BY <1>1, <1>2, <1>4, <1>6 DEF SoldOn
  <1>8. ASSUME NEW i \in DOMAIN subs, i # g
        PROVE  SoldOn(i)' = SoldOn(i)
    <2>1. i # 0
      BY <1>2, <1>4
    <2> QED BY <1>1, <1>6, <1>8, <2>1 DEF SoldOn
  <1>9. ASSUME g \notin DOMAIN subs
        PROVE  SoldOn(g)' = {t} /\ subs'[g].total = Seconds
    <2>1. SoldOn(g) = {}
      BY <1>2, <1>4, <1>9 DEF SoldOn
    <2> QED BY <1>2, <1>7, <1>9, <2>1
  <1>10. IsFiniteSet({t}) /\ Cardinality({t}) = 1
    BY FS_Singleton
  <1>11. ASSUME g \in DOMAIN subs
         PROVE  /\ IsFiniteSet(SoldOn(g)') /\ Cardinality(SoldOn(g)) \in Nat
                /\ Cardinality(SoldOn(g)') = Cardinality(SoldOn(g)) + 1
    <2>1. IsFiniteSet(SoldOn(g))
      BY <1>11 DEF SoldInv
    <2>2. Cardinality(SoldOn(g)) \in Nat
      BY <2>1, FS_CardinalityType
    <2>3. /\ IsFiniteSet(SoldOn(g) \cup {t})
          /\ Cardinality(SoldOn(g) \cup {t}) = Cardinality(SoldOn(g)) + 1
      <3> DEFINE Sold == SoldOn(g)
      <3> HIDE DEF Sold
      <3>1. IsFiniteSet(Sold) /\ t \notin Sold
        BY <1>7, <2>1 DEF Sold
      <3>2. IsFiniteSet(Sold \cup {t}) /\ Cardinality(Sold \cup {t}) = Cardinality(Sold) + 1
        BY <3>1, FS_AddElement
      <3> QED BY <3>2 DEF Sold
    <2> QED BY <1>7, <2>2, <2>3
  <1>12. ASSUME NEW n \in Nat  PROVE Seconds * n + Seconds = Seconds * (n + 1) /\ Seconds * 1 = Seconds
    BY <1>5
  <1>13. ASSUME NEW i \in DOMAIN subs'
         PROVE  /\ IsFiniteSet(SoldOn(i)')
                /\ \E n \in (IF ExpiryV2 THEN 1..Cardinality(SoldOn(i)') ELSE {Cardinality(SoldOn(i)')}) :
                      subs'[i].total = Seconds * n
    <2>1. CASE i # g
      <3>1. i \in DOMAIN subs
        BY <1>2, <1>13, <2>1
      <3> QED BY <1>2, <1>8, <2>1, <3>1 DEF SoldInv
    <2>2. CASE i = g /\ g \notin DOMAIN subs
      <3>1. SoldOn(g)' = {t} /\ subs'[g].total = Seconds * 1
        BY <1>9, <1>12, <2>2
      <3>2. SoldOn(i)' = {t} /\ subs'[i].total = Seconds * 1
        BY <2>2, <3>1
      <3>3. 1 \in (IF ExpiryV2 THEN 1..Cardinality({t}) ELSE {Cardinality({t})})
        BY <1>10
      <3> QED BY <1>10, <3>2, <3>3
    <2>3. CASE i = g /\ g \in DOMAIN subs
      <3> DEFINE c == Cardinality(SoldOn(g))
                 d == Cardinality(SoldOn(g)')
      <3>1. c \in Nat /\ d = c + 1 /\ IsFiniteSet(SoldOn(g)')
        BY <1>11, <2>3
      <3>2. PICK n \in (IF ExpiryV2 THEN 1..c ELSE {c}) : subs[g].total = Seconds * n
        BY <2>3 DEF SoldInv
      <3> HIDE DEF c, d
      <3>3. n \in Nat /\ n <= c
        BY <3>1, <3>2
      <3>4. CASE subs'[g].total = subs[g].total + Seconds
        <4>1. subs'[g].total = Seconds * (n + 1)
          BY <1>12, <3>2, <3>3, <3>4
        <4>2. n + 1 \in (IF ExpiryV2 THEN 1..d ELSE {d})
          BY <3>1, <3>2, <3>3
        <4>3. \E x \in (IF ExpiryV2 THEN 1..d ELSE {d}) : subs'[g].total = Seconds * x
          BY <4>1, <4>2
        <4> QED BY <2>3, <3>1, <4>3 DEF d
      <3>5. CASE ExpiryV2 /\ subs'[g].total = Seconds
        <4>1. 1 \in 1..d /\ subs'[g].total = Seconds * 1
          BY <1>12, <3>1, <3>5
        <4>2. \E x \in (IF ExpiryV2 THEN 1..d ELSE {d}) : subs'[g].total = Seconds * x
          BY <3>5, <4>1
        <4> QED BY <2>3, <3>1, <4>2 DEF d
      <3> QED BY <1>2, <2>3, <3>4, <3>5
    <2> QED BY <2>1, <2>2, <2>3
  <1> QED BY <1>13 DEF SoldInv

\* Time on the books is time sold: callback, status page, sweep, claim and
\* recovery together give a payment one package length, and nothing else does
\* (provisionPaidTransaction: "prevents an accidental double package").
THEOREM TimeSoldIsPaidFor == Spec => []TimeMatchesSales
  <1>1. Init => SoldInv
    BY DEF Init, SoldInv
  <1>2. PayInv /\ SoldInv /\ [Next]_payVars => SoldInv'
    <2> SUFFICES ASSUME PayInv, SoldInv, [Next]_payVars
                 PROVE  SoldInv'
      OBVIOUS
    <2>1. Good
      BY EveryStepIsGood
    <2> QED BY <2>1, EveryStepSellsOrKeeps, KeepsSold, SellingKeepsSold DEF SellsOrKeeps
  <1>3. SoldInv => TimeMatchesSales
    BY DEF SoldInv, TimeMatchesSales, SoldOn
  <1> QED BY <1>1, <1>2, <1>3, PayInvHolds, PTL DEF Spec
=============================================================================
