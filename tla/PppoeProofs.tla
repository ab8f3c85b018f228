------------------------------ MODULE PppoeProofs ------------------------------
(***************************************************************************)
(* A business's PPPoE subscribers, for any plans, prices, edits, payments,  *)
(* losses and refused jobs: the days they paid for are taken back by a      *)
(* reversal only, every shilling is accounted for, and the router serves    *)
(* whom the server counts as paid.                                          *)
(***************************************************************************)
EXTENDS PppoeRouter, Sums, TLAPS

-----------------------------------------------------------------------------
(* PPPoE subscribers: paid days are never taken back but by a reversal.     *)

\* A reversal takes its days off a date, which is an integer then.
Account == [status : Statuses, credit : Nat, install : Nat, paid : Int, expires : Int,
            plan : Plans, next : Plans \cup {NoPlan},
            boost : Plans \cup {NoPlan}, boostEnd : Nat, locked : Nat]
Prompted == [user : Users, source : {"stk", "c2b"}, purpose : {"pay", "upgrade", "boost"},
             target : Plans \cup {NoPlan}, amount : Nat, fromCredit : Int,
             status : {"pending", "paid", "failed", "reversed"},
             receiptKnown : BOOLEAN, provisioned : BOOLEAN]

\* The cut-off is never before paid_until; who is not set up has paid nothing.
AccountOK(a) ==
    /\ a \in Account /\ a.expires >= a.paid
    /\ a.status = "new" => a.paid = NoTime

Days == now \in Nat \ {0} /\ grace \in Nat /\ serves \in BOOLEAN

AccountsOK == acct \in [Users -> Account] /\ \A u \in Users : AccountOK(acct[u])
RowsOK == payments \in Seq(Row) /\ \A i \in DOMAIN payments : Exists(payments[i].user)
PromptsOK == txs \in Seq(Prompted) /\ \A t \in DOMAIN txs : Exists(txs[t].user)

BillingInv == Days /\ AccountsOK /\ RowsOK /\ PromptsOK

\* What a payment may be.
IsMoney(m) ==
    m \in [purpose : {"pay", "upgrade", "boost", "extension"}, target : Plans \cup {NoPlan},
           amount : Nat, expected : Int, fromCredit : Int, days : Nat]

-----------------------------------------------------------------------------
(* What applyPayment does to one subscriber                                 *)

LEMMA WholePeriods ==
    ASSUME NEW c \in Nat, NEW p \in Nat, p > 0, NEW n \in Nat, n <= c \div p
    PROVE  n * p \in Nat /\ n * p <= c
  <1>1. c \div p \in Nat /\ (c \div p) * p <= c
    OBVIOUS
  <1>2. \A x, y \in Nat : x <= y => x * p <= y * p
    OBVIOUS
  <1>3. n * p <= (c \div p) * p
    BY <1>1, <1>2
  <1>4. n * p \in Nat /\ (c \div p) * p \in Nat
    BY <1>1
  <1> QED BY <1>1, <1>3, <1>4

LEMMA PeriodsAreAffordable ==
    ASSUME NEW a, AccountOK(a)
    PROVE  /\ PeriodsIn(a) \in Nat
           /\ PeriodsIn(a) # 0 => /\ RenewalPlan(a) \in Plans
                                  /\ PeriodsIn(a) * Price[RenewalPlan(a)] \in Nat
                                  /\ PeriodsIn(a) * Price[RenewalPlan(a)] <= a.credit
  <1>1. CASE ~Billed(RenewalPlan(a))
    BY <1>1 DEF PeriodsIn
  <1>2. CASE Billed(RenewalPlan(a))
    <2> DEFINE P == Price[RenewalPlan(a)]
               c == a.credit
    <2>1. P \in Nat /\ P > 0 /\ c \in Nat /\ RenewalPlan(a) \in Plans
      BY <1>2, PppoeAssumption DEF Billed, AccountOK, Account
    <2>2. PeriodsIn(a) = IF 24 <= c \div P THEN 24 ELSE c \div P
      BY <1>2 DEF PeriodsIn, Least, ConvertLimit
    <2> HIDE DEF P, c
    <2>3. c \div P \in Nat
      BY <2>1
    <2>4. PeriodsIn(a) \in Nat /\ PeriodsIn(a) <= c \div P
      BY <2>2, <2>3
    <2>5. PeriodsIn(a) * P \in Nat /\ PeriodsIn(a) * P <= c
      BY <2>1, <2>4, WholePeriods
    <2> QED BY <2>1, <2>4, <2>5 DEF P, c
  <1> QED BY <1>1, <1>2

LEMMA RenewsLater ==
    ASSUME Days, NEW a, AccountOK(a)
    PROVE  /\ PaidUntilOf(a) \in Int /\ PaidUntilOf(a) >= a.paid
           /\ RenewFrom(a, PaidUntilOf(a)) \in Int /\ RenewFrom(a, PaidUntilOf(a)) >= a.paid
  <1> DEFINE q == PaidUntilOf(a)
             g == GraceOf(a)
  <1>1. /\ a.paid \in Int /\ a.expires \in Int /\ a.expires >= a.paid
        /\ now \in Nat /\ now > 0 /\ grace \in Nat
    BY DEF Days, AccountOK, Account
  <1>2. q \in Int /\ q >= a.paid /\ g \in Nat
    BY <1>1 DEF PaidUntilOf, GraceOf, NoTime
  <1>3. RenewFrom(a, q) = IF q # 0 /\ q + g > now THEN q ELSE now
    BY DEF RenewFrom, NoTime
  <1> HIDE DEF q, g
  <1>4. RenewFrom(a, q) \in Int /\ RenewFrom(a, q) >= a.paid
    BY <1>1, <1>2, <1>3
  <1> QED BY <1>2, <1>4 DEF q

\* A state in between: the days go up, the rest keeps its type.
Grown(a, e) ==
    /\ e \in Account /\ e.paid >= a.paid /\ e.expires = a.expires /\ e.status = a.status

\* The money goes into the fee and the credit, into a plan or into a boost.
PaidIn(a, n, c) == [a EXCEPT !.install = n, !.credit = c]
MovedTo(a, c, p) == [a EXCEPT !.credit = c, !.plan = p, !.next = NoPlan]
BoostedTo(a, c, p, n) == [a EXCEPT !.credit = c, !.boost = p, !.boostEnd = n]

LEMMA GrownRows ==
    ASSUME NEW a \in Account, NEW c \in Nat, NEW n \in Nat, NEW p \in Plans
    PROVE  /\ Grown(a, PaidIn(a, n, c)) /\ PaidIn(a, n, c).paid = a.paid
           /\ Grown(a, MovedTo(a, c, p))
           /\ Grown(a, BoostedTo(a, c, p, n))
  <1>1. a.paid \in Int /\ a.paid >= a.paid
    BY DEF Account
  <1>2. PaidIn(a, n, c) \in Account
    BY DEF Account, PaidIn
  <1>3. MovedTo(a, c, p) \in Account
    BY DEF Account, MovedTo
  <1>4. BoostedTo(a, c, p, n) \in Account
    BY DEF Account, BoostedTo
  <1>5. PaidIn(a, n, c).paid = a.paid /\ PaidIn(a, n, c).expires = a.expires
        /\ PaidIn(a, n, c).status = a.status
    BY DEF Account, PaidIn
  <1>6. MovedTo(a, c, p).paid = a.paid /\ MovedTo(a, c, p).expires = a.expires
        /\ MovedTo(a, c, p).status = a.status
    BY DEF Account, MovedTo
  <1>7. BoostedTo(a, c, p, n).paid = a.paid /\ BoostedTo(a, c, p, n).expires = a.expires
        /\ BoostedTo(a, c, p, n).status = a.status
    BY DEF Account, BoostedTo
  <1> QED BY <1>1, <1>2, <1>3, <1>4, <1>5, <1>6, <1>7 DEF Grown

LEMMA MoneyBecomesCredit ==
    ASSUME NEW a, AccountOK(a), NEW m, IsMoney(m)
    PROVE  /\ ToInstall(a, m) \in Nat
           /\ AccountOK(AsCredit(a, m)) /\ Grown(a, AsCredit(a, m))
           /\ AsCredit(a, m).paid = a.paid
  <1>1. a.install \in Nat /\ a.credit \in Nat /\ m.amount \in Nat /\ a.paid \in Int
    BY DEF AccountOK, Account, IsMoney
  <1>2. /\ ToInstall(a, m) \in Nat /\ ToInstall(a, m) <= m.amount
        /\ ToInstall(a, m) <= a.install
    BY <1>1 DEF ToInstall, Least
  <1>3. a.install - ToInstall(a, m) \in Nat /\ a.credit + m.amount - ToInstall(a, m) \in Nat
    BY <1>1, <1>2
  <1> DEFINE c == a.credit + m.amount - ToInstall(a, m)
             n == a.install - ToInstall(a, m)
  <1>4. AsCredit(a, m) = PaidIn(a, n, c)
    BY DEF AsCredit, PaidIn
  <1>5. a \in Account /\ a.expires >= a.paid /\ (a.status = "new" => a.paid = NoTime)
    BY DEF AccountOK
  <1>6. n \in Nat /\ c \in Nat
    BY <1>3
  <1> HIDE DEF c, n
  <1>7. Grown(a, AsCredit(a, m)) /\ AsCredit(a, m).paid = a.paid
    BY <1>4, <1>5, <1>6, GrownRows, PppoeAssumption
  <1>8. AccountOK(AsCredit(a, m))
    BY <1>5, <1>7 DEF Grown, AccountOK
  <1> QED BY <1>2, <1>7, <1>8

LEMMA CreditBecomesDays ==
    ASSUME Days, NEW a, AccountOK(a)
    PROVE  Grown(a, Converted(a))
  <1>1. CASE PeriodsIn(a) = 0
    BY <1>1 DEF Converted, Grown, AccountOK, Account
  <1>2. CASE PeriodsIn(a) # 0
    <2> DEFINE n == PeriodsIn(a)
               rest == a.credit - n * Price[RenewalPlan(a)]
               until == RenewFrom(a, PaidUntilOf(a)) + n * Period
    <2>1. Converted(a) = [a EXCEPT !.credit = rest, !.paid = until, !.plan = RenewalPlan(a), !.next = NoPlan]
      BY <1>2 DEF Converted
    <2>2. rest \in Nat /\ RenewalPlan(a) \in Plans
      BY <1>2, PeriodsAreAffordable DEF AccountOK, Account
    <2>3. until \in Int /\ until >= a.paid
      <3>1. n \in Nat /\ Period \in Nat /\ a.paid \in Int
        BY PeriodsAreAffordable, PppoeAssumption DEF AccountOK, Account
      <3>2. n * Period \in Nat
        BY <3>1
      <3> QED BY <3>1, <3>2, RenewsLater
    <2> HIDE DEF rest, until
    <2> QED BY <2>1, <2>2, <2>3 DEF Grown, AccountOK, Account
  <1> QED BY <1>1, <1>2

LEMMA EffectGrows ==
    ASSUME Days, NEW a, AccountOK(a), NEW m, IsMoney(m)
    PROVE  Grown(a, Effect(a, m)) /\ DaysAdded(a, m) \in Nat
  <1>1. /\ a.paid \in Int /\ a.credit \in Nat /\ a.boostEnd \in Nat /\ now \in Nat
        /\ m.days \in Nat /\ m.amount \in Nat /\ m.expected \in Int /\ m.fromCredit \in Int
    BY DEF AccountOK, Account, IsMoney, Days
  <1>2. DaysAdded(a, m) \in Nat
    <2>1. PeriodsIn(AsCredit(a, m)) \in Nat /\ Period \in Nat
      BY MoneyBecomesCredit, PeriodsAreAffordable, PppoeAssumption
    <2>2. Period * PeriodsIn(AsCredit(a, m)) \in Nat
      BY <2>1
    <2> QED BY <1>1, <2>2 DEF DaysAdded
  <1>3. CASE Kind(a, m) = "extension"
    <2> DEFINE until == RenewFrom(a, PaidUntilOf(a)) + m.days
    <2>1. until \in Int /\ until >= a.paid
      BY <1>1, RenewsLater
    <2>2. Effect(a, m) = [a EXCEPT !.paid = until]
      BY <1>3 DEF Effect
    <2> HIDE DEF until
    <2>3. Grown(a, Effect(a, m))
      BY <2>1, <2>2 DEF Grown, AccountOK, Account
    <2> QED BY <1>2, <2>3
  <1>4. CASE Kind(a, m) = "upgrade"
    <2> DEFINE rest == a.credit + m.amount - m.expected - m.fromCredit
    <2>1. TakesUpgrade(a, m)
      BY <1>4 DEF Kind, TakesBoost
    <2>2. rest \in Nat /\ m.target \in Plans
      BY <1>1, <2>1 DEF TakesUpgrade
    <2>3. Effect(a, m) = MovedTo(a, rest, m.target)
      BY <1>4 DEF Effect, MovedTo
    <2> HIDE DEF rest
    <2>4. Grown(a, Effect(a, m))
      <3>1. a \in Account /\ 0 \in Nat
        BY DEF AccountOK
      <3> QED BY <2>2, <2>3, <3>1, GrownRows
    <2> QED BY <1>2, <2>4
  <1>5. CASE Kind(a, m) = "boost"
    <2> DEFINE rest == a.credit + m.amount - BoostPrice[m.target]
               end == (IF a.boost = m.target /\ a.boostEnd > now THEN a.boostEnd ELSE now) + 1
    <2>1. TakesBoost(a, m)
      BY <1>5 DEF Kind, TakesUpgrade
    <2>2. BoostPrice[m.target] \in Nat /\ m.amount >= BoostPrice[m.target] /\ m.target \in Plans
      BY <2>1, PppoeAssumption DEF TakesBoost
    <2>3. rest \in Nat /\ end \in Nat
      BY <1>1, <2>2
    <2>4. Effect(a, m) = BoostedTo(a, rest, m.target, end)
      BY <1>5 DEF Effect, BoostedTo
    <2> HIDE DEF rest, end
    <2>5. Grown(a, Effect(a, m))
      <3>1. a \in Account
        BY DEF AccountOK
      <3> QED BY <2>2, <2>3, <2>4, <3>1, GrownRows
    <2> QED BY <1>2, <2>5
  <1>6. CASE Kind(a, m) \notin {"extension", "upgrade", "boost"}
    <2>1. Effect(a, m) = IF ConvertsNow(a, m) THEN Converted(AsCredit(a, m)) ELSE AsCredit(a, m)
      BY <1>6 DEF Effect
    <2>2. AccountOK(AsCredit(a, m)) /\ Grown(a, AsCredit(a, m)) /\ AsCredit(a, m).paid = a.paid
      BY MoneyBecomesCredit
    <2>3. Grown(AsCredit(a, m), Converted(AsCredit(a, m)))
      BY <2>2, CreditBecomesDays
    <2>4. Grown(a, Effect(a, m))
      BY <2>1, <2>2, <2>3 DEF Grown
    <2> QED BY <1>2, <2>4
  <1> QED BY <1>3, <1>4, <1>5, <1>6

LEMMA CutOffFollows ==
    ASSUME Days, NEW e \in Account, NEW until \in Int
    PROVE  LET b == WithCutOff(e, until)
           IN  b \in Account /\ b.paid = until /\ b.expires >= b.paid /\ b.status = e.status
  <1> DEFINE cut == IF until = NoTime THEN NoTime ELSE until + grace
  <1>1. cut \in Int /\ cut >= until
    BY DEF Days, NoTime
  <1>2. WithCutOff(e, until) = [e EXCEPT !.paid = until, !.expires = cut]
    BY DEF WithCutOff
  <1> HIDE DEF cut
  <1> QED BY <1>1, <1>2 DEF Account

\* A payment, an extension or a renewal never moves paid_until back.
LEMMA AppliedGrows ==
    ASSUME Days, NEW a, AccountOK(a), a.status # "new", NEW m, IsMoney(m)
    PROVE  LET b == Applied(a, m)
           IN  AccountOK(b) /\ b.paid >= a.paid /\ b.status # "new"
  <1> DEFINE e == Effect(a, m)
             until == PaidUntilOf(e)
             b == WithCutOff(e, until)
  <1>1. e \in Account /\ e.paid >= a.paid /\ e.expires = a.expires /\ e.status = a.status
    BY EffectGrows DEF Grown
  <1>2. until \in Int /\ until >= a.paid
    <2>1. a.paid \in Int /\ a.expires >= a.paid /\ e.paid \in Int /\ e.expires \in Int
      BY <1>1 DEF AccountOK, Account
    <2> HIDE DEF e
    <2> QED BY <1>1, <2>1 DEF PaidUntilOf
  <1> HIDE DEF e
  <1>3. b \in Account /\ b.paid = until /\ b.expires >= b.paid /\ b.status = a.status
    <2> HIDE DEF until
    <2> QED BY <1>1, <1>2, CutOffFollows
  <1>4. Applied(a, m) = b \/ Applied(a, m) = [b EXCEPT !.status = "active"]
    BY DEF Applied, e
  <1> HIDE DEF b, until
  <1>5. /\ [b EXCEPT !.status = "active"] \in Account
        /\ [b EXCEPT !.status = "active"].status = "active"
        /\ [b EXCEPT !.status = "active"].paid = b.paid
        /\ [b EXCEPT !.status = "active"].expires = b.expires
    BY <1>3 DEF Account, Statuses
  <1>6. AccountOK(Applied(a, m)) /\ Applied(a, m).paid = until /\ Applied(a, m).status # "new"
    BY <1>3, <1>4, <1>5 DEF AccountOK
  <1> QED BY <1>2, <1>6

-----------------------------------------------------------------------------
(* What a step does to all of them                                          *)

\* A step keeps the accounts in order, and whoever is set up stays so.
AccountsStay == AccountsOK' /\ \A u \in Users : Exists(u) => Exists(u)'
DaysStay == \A u \in Users : acct'[u].paid >= acct[u].paid

LEMMA OneAccount ==
    ASSUME BillingInv, NEW u \in Users, NEW b, AccountOK(b), Exists(u) => b.status # "new",
           acct' = [acct EXCEPT ![u] = b]
    PROVE  AccountsStay /\ (b.paid >= acct[u].paid => DaysStay)
  <1>1. acct \in [Users -> Account] /\ \A v \in Users : AccountOK(acct[v])
    BY DEF BillingInv, AccountsOK
  <1>2. b \in Account
    BY DEF AccountOK
  <1>3. acct' \in [Users -> Account]
    BY <1>1, <1>2
  <1>4. \A v \in Users : acct'[v] = IF v = u THEN b ELSE acct[v]
    BY <1>1
  <1>5. \A v \in Users : AccountOK(acct'[v])
    BY <1>1, <1>4
  <1>6. \A v \in Users : Exists(v) => Exists(v)'
    BY <1>4 DEF Exists
  <1>7. AccountsOK'
    BY <1>3, <1>5 DEF AccountsOK, AccountOK
  <1>8. \A v \in Users : acct[v].paid \in Int /\ acct[v].paid >= acct[v].paid
    BY <1>1 DEF Account
  <1>9. b.paid >= acct[u].paid => DaysStay
    BY <1>4, <1>8 DEF DaysStay
  <1> QED BY <1>6, <1>7, <1>9 DEF AccountsStay

LEMMA SameDays ==
    ASSUME BillingInv, NEW u \in Users, NEW b \in Account,
           b.paid = acct[u].paid, b.expires = acct[u].expires,
           b.status = "new" <=> acct[u].status = "new", acct' = [acct EXCEPT ![u] = b]
    PROVE  AccountsStay /\ DaysStay
  <1>1. AccountOK(acct[u])
    BY DEF BillingInv, AccountsOK
  <1>2. AccountOK(b) /\ (Exists(u) => b.status # "new") /\ b.paid >= acct[u].paid
    BY <1>1 DEF AccountOK, Account, Exists
  <1> QED BY <1>2, OneAccount

LEMMA AccountsAlone ==
    ASSUME BillingInv, acct' = acct
    PROVE  AccountsStay /\ DaysStay
  BY DEF BillingInv, AccountsOK, AccountOK, AccountsStay, DaysStay, Account, Exists

LEMMA TheirUsers ==
    ASSUME BillingInv
    PROVE  /\ payments \in Seq(Row) /\ txs \in Seq(Prompted)
           /\ \A i \in DOMAIN payments :
                payments[i] \in Row /\ payments[i].user \in Users /\ Exists(payments[i].user)
           /\ \A t \in DOMAIN txs :
                txs[t] \in Prompted /\ txs[t].user \in Users /\ Exists(txs[t].user)
  <1>1. payments \in Seq(Row) /\ \A i \in DOMAIN payments : Exists(payments[i].user)
    BY DEF BillingInv, RowsOK
  <1>2. txs \in Seq(Prompted) /\ \A t \in DOMAIN txs : Exists(txs[t].user)
    BY DEF BillingInv, PromptsOK
  <1>3. \A r \in Row : r.user \in Users
    BY DEF Row
  <1>4. \A x \in Prompted : x.user \in Users
    BY DEF Prompted
  <1> QED BY <1>1, <1>2, <1>3, <1>4

LEMMA RowsAlone ==
    ASSUME BillingInv, AccountsStay, payments' = payments
    PROVE  RowsOK'
  <1>1. \A u \in Users : Exists(u) => Exists(u)'
    BY DEF AccountsStay
  <1>2. \A i \in DOMAIN payments' : acct'[payments'[i].user].status # "new"
    BY <1>1, TheirUsers DEF Exists
  <1>3. payments' \in Seq(Row)
    BY TheirUsers
  <1> QED BY <1>2, <1>3 DEF RowsOK, Exists, Row

LEMMA PromptsAlone ==
    ASSUME BillingInv, AccountsStay, txs' = txs
    PROVE  PromptsOK'
  <1>1. \A u \in Users : Exists(u) => Exists(u)'
    BY DEF AccountsStay
  <1>2. \A t \in DOMAIN txs' : acct'[txs'[t].user].status # "new"
    BY <1>1, TheirUsers DEF Exists
  <1>3. txs' \in Seq(Prompted)
    BY TheirUsers
  <1> QED BY <1>2, <1>3 DEF PromptsOK, Exists, Prompted

LEMMA RowAdded ==
    ASSUME NEW S, NEW s \in Seq(S), NEW e \in S
    PROVE  /\ Append(s, e) \in Seq(S)
           /\ \A i \in DOMAIN Append(s, e) : Append(s, e)[i] = e \/ (i \in DOMAIN s /\ Append(s, e)[i] = s[i])
  OBVIOUS

LEMMA RowReplaced ==
    ASSUME NEW S, NEW s \in Seq(S), NEW k \in DOMAIN s, NEW e \in S
    PROVE  /\ [s EXCEPT ![k] = e] \in Seq(S)
           /\ \A i \in DOMAIN [s EXCEPT ![k] = e] :
                i \in DOMAIN s /\ [s EXCEPT ![k] = e][i] = IF i = k THEN e ELSE s[i]
  OBVIOUS

LEMMA PromptAdded ==
    ASSUME BillingInv, AccountsStay, NEW x \in Prompted, Exists(x.user), txs' = Append(txs, x)
    PROVE  PromptsOK'
  <1>1. txs \in Seq(Prompted) /\ \A t \in DOMAIN txs : Exists(txs[t].user) /\ txs[t].user \in Users
    BY TheirUsers
  <1>2. x.user \in Users
    BY DEF Prompted
  <1>3. txs' \in Seq(Prompted) /\ \A t \in DOMAIN txs' : txs'[t] = x \/ (t \in DOMAIN txs /\ txs'[t] = txs[t])
    BY <1>1, RowAdded
  <1>4. \A u \in Users : Exists(u) => Exists(u)'
    BY DEF AccountsStay
  <1>5. \A t \in DOMAIN txs' : acct'[txs'[t].user].status # "new"
    BY <1>1, <1>2, <1>3, <1>4 DEF Exists
  <1> QED BY <1>3, <1>5 DEF PromptsOK, Exists, Prompted

LEMMA PromptMarked ==
    ASSUME BillingInv, AccountsStay, NEW t \in DOMAIN txs, NEW x \in Prompted,
           x.user = txs[t].user, txs' = [txs EXCEPT ![t] = x]
    PROVE  PromptsOK'
  <1>1. txs \in Seq(Prompted) /\ \A i \in DOMAIN txs : Exists(txs[i].user) /\ txs[i].user \in Users
    BY TheirUsers
  <1>2. txs' \in Seq(Prompted)
        /\ \A i \in DOMAIN txs' : i \in DOMAIN txs /\ txs'[i] = IF i = t THEN x ELSE txs[i]
    BY <1>1, RowReplaced
  <1>3. \A u \in Users : Exists(u) => Exists(u)'
    BY DEF AccountsStay
  <1>4. \A i \in DOMAIN txs' : acct'[txs'[i].user].status # "new"
    BY <1>1, <1>2, <1>3 DEF Exists
  <1> QED BY <1>2, <1>4 DEF PromptsOK, Exists, Prompted

LEMMA AccountsOnly ==
    ASSUME BillingInv, AccountsStay, DaysStay, UNCHANGED <<now, serves, grace, payments, txs>>
    PROVE  BillingInv' /\ DaysStay
  <1>1. RowsOK' /\ PromptsOK' /\ AccountsOK'
    BY RowsAlone, PromptsAlone DEF AccountsStay
  <1>2. Days'
    BY DEF BillingInv, Days
  <1> QED BY <1>1, <1>2 DEF BillingInv

-----------------------------------------------------------------------------
(* Payments                                                                 *)

LEMMA PaymentRow ==
    ASSUME BillingInv, NEW u \in Users, Exists(u), NEW m, IsMoney(m),
           NEW receipt \in Nat, NEW tx \in Nat
    PROVE  NewRow(u, m, receipt, tx) \in Row
  <1> DEFINE a == acct[u]
             b == Applied(a, m)
  <1>1. Days /\ AccountOK(a) /\ a.status # "new"
    BY DEF BillingInv, AccountsOK, Exists
  <1>2. a \in Account /\ b \in Account
    BY <1>1, AppliedGrows DEF AccountOK
  <1>3. a.credit \in Nat /\ a.plan \in Plans /\ a.boostEnd \in Nat /\ b.credit \in Nat /\ b.plan \in Plans
    BY <1>2 DEF Account
  <1>4. ToInstall(a, m) \in Nat /\ DaysAdded(a, m) \in Nat
    BY <1>1, MoneyBecomesCredit, EffectGrows
  <1>5. m.amount \in Nat /\ m.purpose \in {"pay", "upgrade", "boost", "extension"}
    BY DEF IsMoney
  <1>6. Kind(a, m) \in {"pay", "upgrade", "boost", "extension"}
    BY <1>5 DEF Kind
  <1> DEFINE held == ~serves /\ m.amount > 0 /\ m.purpose # "extension"
  <1>7. held \in BOOLEAN
    OBVIOUS
  <1>8. NewRow(u, m, receipt, tx) =
          [user |-> u, kind |-> Kind(a, m), amount |-> m.amount, receipt |-> receipt, tx |-> tx,
           toInstall |-> ToInstall(a, m), days |-> DaysAdded(a, m),
           creditBefore |-> a.credit, creditAfter |-> b.credit,
           planBefore |-> a.plan, planAfter |-> b.plan, boostBefore |-> a.boostEnd,
           held |-> held, reversed |-> FALSE]
    BY DEF NewRow
  <1> HIDE DEF a, b, held
  <1> QED BY <1>3, <1>4, <1>5, <1>6, <1>7, <1>8 DEF Row

LEMMA PaymentApplied ==
    ASSUME BillingInv, NEW u \in Users, Exists(u), NEW m, IsMoney(m),
           NEW receipt \in Nat, NEW tx \in Nat, ApplyPayment(u, m, receipt, tx)
    PROVE  AccountsStay /\ DaysStay /\ RowsOK'
  <1> DEFINE b == Applied(acct[u], m)
             row == NewRow(u, m, receipt, tx)
  <1>1. Days /\ AccountOK(acct[u]) /\ acct[u].status # "new"
    BY DEF BillingInv, AccountsOK, Exists
  <1>2. AccountOK(b) /\ b.paid >= acct[u].paid /\ b.status # "new"
    BY <1>1, AppliedGrows
  <1>3. acct' = [acct EXCEPT ![u] = b] /\ payments' = Append(payments, row)
    BY DEF ApplyPayment
  <1>4. row \in Row /\ row.user = u
    BY PaymentRow DEF NewRow
  <1> HIDE DEF b, row
  <1>5. AccountsStay /\ DaysStay
    BY <1>2, <1>3, OneAccount
  <1>6. \A v \in Users : Exists(v) => Exists(v)'
    BY <1>5 DEF AccountsStay
  <1>7. payments' \in Seq(Row)
        /\ \A i \in DOMAIN payments' :
             payments'[i] = row \/ (i \in DOMAIN payments /\ payments'[i] = payments[i])
    BY <1>3, <1>4, TheirUsers, RowAdded
  <1>8. \A i \in DOMAIN payments' : acct'[payments'[i].user].status # "new"
    BY <1>4, <1>6, <1>7, TheirUsers DEF Exists
  <1>9. RowsOK'
    BY <1>7, <1>8 DEF RowsOK, Exists, Row
  <1> QED BY <1>5, <1>9

LEMMA PaymentAlone ==
    ASSUME BillingInv, NEW u \in Users, Exists(u), NEW m, IsMoney(m),
           NEW receipt \in Nat, NEW tx \in Nat, ApplyPayment(u, m, receipt, tx),
           UNCHANGED <<now, serves, grace, txs>>
    PROVE  BillingInv' /\ DaysStay
  <1>1. AccountsStay /\ DaysStay /\ RowsOK'
    BY PaymentApplied
  <1>2. PromptsOK' /\ Days' /\ AccountsOK'
    BY <1>1, PromptsAlone DEF BillingInv, Days, AccountsStay
  <1> QED BY <1>1, <1>2 DEF BillingInv

LEMMA RecordPaymentStep ==
    ASSUME BillingInv, NEW u \in Users, NEW amount \in Amounts, NEW r \in 0..MaxPrompts,
           RecordPayment(u, amount, r)
    PROVE  BillingInv' /\ DaysStay
  <1>1. amount \in Nat /\ r \in Nat
    BY PppoeAssumption
  <1>2. IsMoney(Plain(amount))
    BY <1>1 DEF IsMoney, Plain, Money
  <1> QED BY <1>1, <1>2, PaymentAlone DEF RecordPayment

LEMMA ExtendStep ==
    ASSUME BillingInv, NEW u \in Users, Extend(u, 1) PROVE BillingInv' /\ DaysStay
  <1>1. IsMoney(Money("extension", NoPlan, 0, 0, 0, 1))
    BY DEF IsMoney, Money
  <1> QED BY <1>1, PaymentAlone DEF Extend

LEMMA RenewFromCreditStep ==
    ASSUME BillingInv, NEW u \in Users, RenewFromCredit(u) PROVE BillingInv' /\ DaysStay
  <1>1. IsMoney(Plain(0))
    BY DEF IsMoney, Plain, Money
  <1>2. Exists(u)
    BY DEF RenewFromCredit, Exists
  <1> QED BY <1>1, <1>2, PaymentAlone DEF RenewFromCredit

LEMMA DifferenceIsAnAmount ==
    ASSUME BillingInv, NEW u \in Users, NEW p \in Plans PROVE Difference(acct[u], p) \in Int
  <1> DEFINE a == acct[u]
             x == Price[p] - Price[a.plan]
             y == DaysLeft(a)
  <1>1. Days /\ AccountOK(a)
    BY DEF BillingInv, AccountsOK
  <1>2. PaidUntilOf(a) \in Int /\ now \in Nat /\ a.plan \in Plans
    BY <1>1, RenewsLater DEF Days, AccountOK, Account
  <1>3. x \in Int /\ y \in Int /\ Period \in Nat /\ Period > 0
    BY <1>2, PppoeAssumption DEF DaysLeft
  <1>4. Difference(a, p) = IF Billed(a.plan) THEN (x * y) \div Period ELSE 0
    BY DEF Difference
  <1> HIDE DEF x, y
  <1>5. x * y \in Int
    BY <1>3
  <1>6. (x * y) \div Period \in Int
    BY <1>3, <1>5
  <1> QED BY <1>4, <1>6

LEMMA UpgradeFromCreditStep ==
    ASSUME BillingInv, NEW u \in Users, NEW p \in Plans, UpgradeFromCredit(u, p)
    PROVE  BillingInv' /\ DaysStay
  <1>1. IsMoney(Money("upgrade", p, 0, 0, Difference(acct[u], p), 0))
    BY DifferenceIsAnAmount DEF IsMoney, Money
  <1> QED BY <1>1, PaymentAlone DEF UpgradeFromCredit

LEMMA SettleStep ==
    ASSUME BillingInv, NEW t \in DOMAIN txs, NEW known \in BOOLEAN, Settle(t, known)
    PROVE  AccountsStay /\ DaysStay /\ RowsOK'
  <1> DEFINE x == txs[t]
             receipt == IF known THEN t ELSE 0
             m == Money(x.purpose, x.target, x.amount,
                        IF x.source = "stk" THEN x.amount ELSE 0, x.fromCredit, 0)
  <1>1. CASE HasCheckout(t) \/ HasReceipt(receipt)
    <2>1. acct' = acct /\ payments' = payments
      BY <1>1 DEF Settle
    <2>2. AccountsStay /\ DaysStay
      BY <2>1, AccountsAlone
    <2> QED BY <2>1, <2>2, RowsAlone
  <1>2. CASE ~(HasCheckout(t) \/ HasReceipt(receipt))
    <2>1. ApplyPayment(x.user, m, receipt, t)
      BY <1>2 DEF Settle
    <2>2. x \in Prompted /\ x.user \in Users /\ Exists(x.user) /\ t \in Nat
      BY TheirUsers
    <2>3. /\ x.purpose \in {"pay", "upgrade", "boost"} /\ x.target \in Plans \cup {NoPlan}
          /\ x.amount \in Nat /\ x.fromCredit \in Int
      BY <2>2 DEF Prompted
    <2>4. IsMoney(m)
      BY <2>3 DEF IsMoney, Money
    <2> HIDE DEF x, m
    <2> QED BY <2>1, <2>2, <2>4, PaymentApplied
  <1> QED BY <1>1, <1>2

LEMMA MarkedIsPrompted ==
    ASSUME NEW x \in Prompted, NEW known \in BOOLEAN, NEW done \in BOOLEAN,
           NEW status \in {"pending", "paid", "failed", "reversed"}
    PROVE  /\ [x EXCEPT !.status = status, !.receiptKnown = known, !.provisioned = done] \in Prompted
           /\ [x EXCEPT !.status = status] \in Prompted
           /\ [x EXCEPT !.provisioned = done] \in Prompted
           /\ [x EXCEPT !.status = status, !.receiptKnown = known, !.provisioned = done].user = x.user
           /\ [x EXCEPT !.status = status].user = x.user
           /\ [x EXCEPT !.provisioned = done].user = x.user
  <1>1. [x EXCEPT !.status = status, !.receiptKnown = known, !.provisioned = done] \in Prompted
    BY DEF Prompted
  <1>2. [x EXCEPT !.status = status] \in Prompted
    BY DEF Prompted
  <1>3. [x EXCEPT !.provisioned = done] \in Prompted
    BY DEF Prompted
  <1>4. /\ [x EXCEPT !.status = status, !.receiptKnown = known, !.provisioned = done].user = x.user
        /\ [x EXCEPT !.status = status].user = x.user
        /\ [x EXCEPT !.provisioned = done].user = x.user
    BY DEF Prompted
  <1> QED BY <1>1, <1>2, <1>3, <1>4

LEMMA BankStep ==
    ASSUME BillingInv, NEW t \in DOMAIN txs, NEW known \in BOOLEAN, NEW reach \in Reach,
           Bank(t, known, reach)
    PROVE  BillingInv' /\ DaysStay
  <1> DEFINE x == [txs[t] EXCEPT !.status = "paid", !.receiptKnown = known,
                                 !.provisioned = (reach = "done")]
  <1>1. AccountsStay /\ DaysStay /\ RowsOK'
    <2>1. CASE reach = "banked"
      <3>1. acct' = acct /\ payments' = payments
        BY <2>1 DEF Bank
      <3> QED BY <3>1, AccountsAlone, RowsAlone
    <2>2. CASE reach # "banked"
      BY <2>2, SettleStep DEF Bank
    <2> QED BY <2>1, <2>2
  <1>2. txs' = [txs EXCEPT ![t] = x]
    BY TheirUsers DEF Bank
  <1>3. x \in Prompted /\ x.user = txs[t].user
    BY TheirUsers, MarkedIsPrompted
  <1> HIDE DEF x
  <1>4. PromptsOK'
    BY <1>1, <1>2, <1>3, PromptMarked
  <1>5. Days'
    BY DEF Bank, BillingInv, Days
  <1> QED BY <1>1, <1>4, <1>5 DEF BillingInv, AccountsStay

LEMMA SettleAgainStep ==
    ASSUME BillingInv, NEW t \in DOMAIN txs, SettleAgain(t) PROVE BillingInv' /\ DaysStay
  <1> DEFINE x == [txs[t] EXCEPT !.provisioned = TRUE]
  <1>1. txs[t] \in Prompted /\ txs[t].receiptKnown \in BOOLEAN
    BY TheirUsers DEF Prompted
  <1>2. AccountsStay /\ DaysStay /\ RowsOK'
    BY <1>1, SettleStep DEF SettleAgain
  <1>3. txs' = [txs EXCEPT ![t] = x]
    BY TheirUsers DEF SettleAgain
  <1>4. x \in Prompted /\ x.user = txs[t].user
    BY <1>1, MarkedIsPrompted
  <1> HIDE DEF x
  <1>5. PromptsOK'
    BY <1>2, <1>3, <1>4, PromptMarked
  <1>6. Days'
    BY DEF SettleAgain, BillingInv, Days
  <1> QED BY <1>2, <1>5, <1>6 DEF BillingInv, AccountsStay

LEMMA DeclineStep ==
    ASSUME BillingInv, NEW t \in DOMAIN txs, Decline(t) PROVE BillingInv' /\ DaysStay
  <1> DEFINE x == [txs[t] EXCEPT !.status = "failed"]
  <1>1. acct' = acct /\ payments' = payments
    BY DEF Decline
  <1>2. AccountsStay /\ DaysStay /\ RowsOK'
    BY <1>1, AccountsAlone, RowsAlone
  <1>3. txs' = [txs EXCEPT ![t] = x]
    BY TheirUsers DEF Decline
  <1>4. x \in Prompted /\ x.user = txs[t].user
    BY TheirUsers, MarkedIsPrompted
  <1> HIDE DEF x
  <1>5. PromptsOK'
    BY <1>2, <1>3, <1>4, PromptMarked
  <1>6. Days'
    BY DEF Decline, BillingInv, Days
  <1> QED BY <1>2, <1>5, <1>6 DEF BillingInv, AccountsStay

LEMMA PromptStep ==
    ASSUME BillingInv, NEW u \in Users, NEW purpose \in {"pay", "upgrade", "boost"},
           NEW target \in Plans \cup {NoPlan}, purpose # "pay" => target \in Plans,
           NEW sum \in Nat, Prompt(u, purpose, target, sum)
    PROVE  BillingInv' /\ DaysStay
  <1> DEFINE a == acct[u]
             diff == IF purpose = "upgrade" THEN Difference(a, target) ELSE 0
             credit == Least(a.credit, diff)
             quoted == CASE purpose = "pay" -> sum
                         [] purpose = "upgrade" -> diff - credit
                         [] OTHER -> BoostPrice[target]
             x == Pending(u, "stk", purpose, target, quoted, credit)
  <1>1. a.credit \in Nat /\ diff \in Int
    <2>1. a \in Account
      BY DEF BillingInv, AccountsOK
    <2> QED BY <2>1, DifferenceIsAnAmount DEF Account
  <1>2. txs' = Append(txs, x) /\ quoted > 0 /\ Exists(u) /\ UNCHANGED <<now, serves, grace, acct, payments>>
    BY DEF Prompt
  <1>3. purpose = "boost" => BoostPrice[target] \in Nat
    BY PppoeAssumption
  <1> HIDE DEF a, diff
  <1>4. credit \in Int
    BY <1>1 DEF Least
  <1>5. quoted \in Nat
    <2>1. quoted \in Int
      BY <1>1, <1>3, <1>4
    <2> QED BY <1>2, <2>1
  <1> HIDE DEF credit, quoted
  <1>6. x \in Prompted /\ x.user = u
    BY <1>4, <1>5 DEF Pending, Prompted
  <1> HIDE DEF x
  <1>7. AccountsStay /\ DaysStay /\ RowsOK'
    BY <1>2, AccountsAlone, RowsAlone
  <1>8. PromptsOK'
    BY <1>2, <1>6, <1>7, PromptAdded
  <1>9. Days'
    BY <1>2 DEF BillingInv, Days
  <1> QED BY <1>7, <1>8, <1>9 DEF BillingInv, AccountsStay

LEMMA PayBillStep ==
    ASSUME BillingInv, NEW u \in Users, NEW amount \in Amounts, NEW reach \in Reach,
           PayBill(u, amount, reach)
    PROVE  BillingInv' /\ DaysStay
  <1> DEFINE t == Len(txs) + 1
             x == [Pending(u, "c2b", "pay", NoPlan, amount, 0)
                     EXCEPT !.status = "paid", !.receiptKnown = TRUE, !.provisioned = (reach = "done")]
  <1>1. amount \in Nat /\ t \in Nat
    BY PppoeAssumption, TheirUsers
  <1>2. IsMoney(Plain(amount))
    BY <1>1 DEF IsMoney, Plain, Money
  <1>3. txs' = Append(txs, x) /\ Exists(u)
    BY DEF PayBill
  <1>4. x \in Prompted /\ x.user = u
    <2> DEFINE p == Pending(u, "c2b", "pay", NoPlan, amount, 0)
    <2>1. p \in Prompted /\ p.user = u
      BY <1>1 DEF Pending, Prompted
    <2>2. (reach = "done") \in BOOLEAN
      OBVIOUS
    <2> HIDE DEF p
    <2>3. /\ [p EXCEPT !.status = "paid", !.receiptKnown = TRUE, !.provisioned = (reach = "done")] \in Prompted
          /\ [p EXCEPT !.status = "paid", !.receiptKnown = TRUE, !.provisioned = (reach = "done")].user = p.user
      BY <2>1, <2>2, MarkedIsPrompted
    <2> QED BY <2>1, <2>3 DEF p
  <1>5. AccountsStay /\ DaysStay /\ RowsOK'
    <2>1. CASE reach = "banked"
      <3>1. acct' = acct /\ payments' = payments
        BY <2>1 DEF PayBill
      <3> QED BY <3>1, AccountsAlone, RowsAlone
    <2>2. CASE reach # "banked"
      <3>1. ApplyPayment(u, Plain(amount), t, t)
        BY <2>2 DEF PayBill
      <3> HIDE DEF t
      <3> QED BY <1>1, <1>2, <1>3, <3>1, PaymentApplied
    <2> QED BY <2>1, <2>2
  <1> HIDE DEF x
  <1>6. PromptsOK'
    BY <1>3, <1>4, <1>5, PromptAdded
  <1>7. Days'
    BY DEF PayBill, BillingInv, Days
  <1> QED BY <1>5, <1>6, <1>7 DEF BillingInv, AccountsStay

-----------------------------------------------------------------------------
(* Reversals: the one step that takes days back                             *)

LEMMA ReversedIsOK ==
    ASSUME Days, NEW a, AccountOK(a), a.status # "new", NEW row \in Row
    PROVE  AccountOK(Reversed(a, row)) /\ Reversed(a, row).status # "new"
  <1> DEFINE paid == IF PaidUntilOf(a) = NoTime THEN NoTime ELSE PaidUntilOf(a) - row.days
             back == a.credit - (row.creditAfter - row.creditBefore)
             credit == IF back > 0 THEN back ELSE 0
             install == a.install + row.toInstall
             plan == IF row.kind = "upgrade" /\ a.plan = row.planAfter THEN row.planBefore ELSE a.plan
             boostEnd == IF row.kind = "boost" THEN row.boostBefore ELSE a.boostEnd
             boost == IF row.kind = "boost" /\ row.boostBefore = NoTime THEN NoPlan ELSE a.boost
             e == [a EXCEPT !.credit = credit, !.install = install, !.plan = plan,
                            !.boostEnd = boostEnd, !.boost = boost]
             b == WithCutOff(e, paid)
  <1>1. a \in Account
    BY DEF AccountOK
  <1>2. /\ a.credit \in Nat /\ a.install \in Nat /\ a.plan \in Plans /\ a.boostEnd \in Nat
        /\ a.boost \in Plans \cup {NoPlan}
    BY <1>1 DEF Account
  <1>3. /\ row.days \in Nat /\ row.creditAfter \in Nat /\ row.creditBefore \in Nat
        /\ row.toInstall \in Nat /\ row.planBefore \in Plans /\ row.boostBefore \in Nat
    BY DEF Row
  <1>4. paid \in Int
    BY <1>3, RenewsLater DEF NoTime
  <1>5. /\ credit \in Nat /\ install \in Nat /\ plan \in Plans /\ boostEnd \in Nat
        /\ boost \in Plans \cup {NoPlan}
    BY <1>2, <1>3
  <1>6. Reversed(a, row) = IF Expired(b) /\ b.status = "active" THEN [b EXCEPT !.status = "expired"] ELSE b
    BY DEF Reversed
  <1> HIDE DEF paid, credit, install, plan, boostEnd, boost
  <1>7. e \in Account /\ e.status = a.status
    <2>1. e \in Account
      BY <1>1, <1>5 DEF Account
    <2>2. e.status = a.status
      BY <1>1 DEF Account
    <2> QED BY <2>1, <2>2
  <1> HIDE DEF e
  <1>8. b \in Account /\ b.expires >= b.paid /\ b.status # "new"
    BY <1>4, <1>7, CutOffFollows
  <1> HIDE DEF b
  <1>9. [b EXCEPT !.status = "expired"] \in Account
    BY <1>8 DEF Account, Statuses
  <1>10. /\ [b EXCEPT !.status = "expired"].paid = b.paid
         /\ [b EXCEPT !.status = "expired"].expires = b.expires
         /\ [b EXCEPT !.status = "expired"].status = "expired"
    BY <1>8 DEF Account
  <1> QED BY <1>6, <1>8, <1>9, <1>10 DEF AccountOK

LEMMA ReverseStep ==
    ASSUME BillingInv, NEW t \in DOMAIN txs, Reverse(t)
    PROVE  BillingInv' /\ txs[t].status = "paid" /\ txs'[t].status = "reversed"
  <1> DEFINE x == [txs[t] EXCEPT !.status = "reversed"]
  <1>1. AccountsStay /\ RowsOK'
    <2>1. CASE acct' = acct /\ payments' = payments
      BY <2>1, AccountsAlone, RowsAlone
    <2>2. CASE ~(acct' = acct /\ payments' = payments)
      <3>1. PICK i \in DOMAIN payments :
              /\ payments' = [payments EXCEPT ![i].reversed = TRUE]
              /\ acct' = [acct EXCEPT ![payments[i].user] = Reversed(@, payments[i])]
        BY <2>2 DEF Reverse
      <3> DEFINE u == payments[i].user
                 b == Reversed(acct[u], payments[i])
                 row == [payments[i] EXCEPT !.reversed = TRUE]
      <3>2. payments[i] \in Row /\ u \in Users /\ Exists(u)
        BY TheirUsers
      <3>3. Days /\ AccountOK(acct[u]) /\ acct[u].status # "new"
        BY <3>2 DEF BillingInv, AccountsOK, Exists
      <3>4. AccountOK(b) /\ b.status # "new"
        BY <3>2, <3>3, ReversedIsOK
      <3>5. acct' = [acct EXCEPT ![u] = b]
        BY <3>1, <3>2 DEF BillingInv, AccountsOK
      <3>6. payments' = [payments EXCEPT ![i] = row]
        BY <3>1, TheirUsers
      <3>7. row \in Row
        BY <3>2 DEF Row
      <3>8. row.user = u
        BY <3>2 DEF Row
      <3> HIDE DEF b, row
      <3>9. AccountsStay
        BY <3>2, <3>4, <3>5, OneAccount
      <3>10. payments' \in Seq(Row)
             /\ \A k \in DOMAIN payments' :
                  k \in DOMAIN payments /\ payments'[k] = IF k = i THEN row ELSE payments[k]
        BY <3>6, <3>7, TheirUsers, RowReplaced
      <3>11. \A k \in DOMAIN payments' : acct'[payments'[k].user].status # "new"
        BY <3>2, <3>8, <3>9, <3>10, TheirUsers DEF AccountsStay, Exists
      <3>12. RowsOK'
        BY <3>10, <3>11 DEF RowsOK, Exists, Row
      <3> QED BY <3>9, <3>12
    <2> QED BY <2>1, <2>2
  <1>2. txs' = [txs EXCEPT ![t] = x] /\ txs[t].status = "paid"
    BY TheirUsers DEF Reverse
  <1>3. x \in Prompted /\ x.user = txs[t].user /\ x.status = "reversed"
    <2>1. x.status = "reversed"
      BY TheirUsers DEF Prompted
    <2> QED BY <2>1, TheirUsers, MarkedIsPrompted
  <1> HIDE DEF x
  <1>4. PromptsOK' /\ txs'[t] = x
    BY <1>1, <1>2, <1>3, PromptMarked, TheirUsers
  <1>5. Days'
    BY DEF Reverse, BillingInv, Days
  <1> QED BY <1>1, <1>2, <1>3, <1>4, <1>5 DEF BillingInv, AccountsStay

-----------------------------------------------------------------------------
(* The owner's edits, the sweep and the clock                               *)

LEMMA EditSteps ==
    ASSUME BillingInv, NEW u \in Users,
           \/ Provision(u) \/ Lock(u) \/ Unlock(u) \/ AdminToggle(u) \/ EndBoost(u)
           \/ \E p \in Plans : MoveToPlan(u, p) \/ BookPlan(u, p)
    PROVE  BillingInv' /\ DaysStay
  <1> DEFINE a == acct[u]
  <1>1. a \in Account /\ acct \in [Users -> Account] /\ now + 1 \in Nat
    BY DEF BillingInv, AccountsOK, Days
  <1>2. UNCHANGED <<now, serves, grace, payments, txs>>
    BY DEF Provision, Lock, Unlock, AdminToggle, EndBoost, MoveToPlan, BookPlan
  <1>3. CASE Provision(u)
    BY <1>2, <1>3, AccountsAlone, AccountsOnly DEF Provision
  <1>4. CASE Lock(u) \/ Unlock(u)
    <2>1. PICK n \in Nat : acct' = [acct EXCEPT ![u] = [a EXCEPT !.locked = n]]
      BY <1>1, <1>4 DEF Lock, Unlock, NoTime
    <2> DEFINE b == [a EXCEPT !.locked = n]
    <2>2. b \in Account /\ b.paid = a.paid /\ b.expires = a.expires /\ b.status = a.status
      <3> HIDE DEF a
      <3>1. b \in Account
        BY <1>1 DEF Account, Statuses, NoTime
      <3>2. b.paid = a.paid /\ b.expires = a.expires /\ b.status = a.status
        BY <1>1 DEF Account
      <3> QED BY <3>1, <3>2
    <2> HIDE DEF b
    <2>3. acct' = [acct EXCEPT ![u] = b]
      BY <2>1 DEF b
    <2> QED BY <1>2, <2>2, <2>3, SameDays, AccountsOnly
  <1>5. CASE AdminToggle(u)
    <2>1. PICK s \in {"active", "disabled"} : acct' = [acct EXCEPT ![u] = [a EXCEPT !.status = s]]
      BY <1>1, <1>5 DEF AdminToggle
    <2> DEFINE b == [a EXCEPT !.status = s]
    <2>2. s \in Statuses /\ s # "new" /\ a.status # "new"
      BY <1>5 DEF AdminToggle, Exists, Statuses
    <2>3. b \in Account /\ b.paid = a.paid /\ b.expires = a.expires /\ b.status = s
      <3> HIDE DEF a
      <3>1. b \in Account
        BY <1>1, <2>2 DEF Account, Statuses, NoTime
      <3>2. b.paid = a.paid /\ b.expires = a.expires /\ b.status = s
        BY <1>1 DEF Account
      <3> QED BY <3>1, <3>2
    <2> HIDE DEF b
    <2>4. acct' = [acct EXCEPT ![u] = b]
      BY <2>1 DEF b
    <2> QED BY <1>2, <2>2, <2>3, <2>4, SameDays, AccountsOnly
  <1>6. CASE EndBoost(u)
    <2> DEFINE b == [a EXCEPT !.boost = NoPlan, !.boostEnd = NoTime]
    <2>1. acct' = [acct EXCEPT ![u] = b]
      BY <1>1, <1>6 DEF EndBoost
    <2>2. b \in Account /\ b.paid = a.paid /\ b.expires = a.expires /\ b.status = a.status
      <3> HIDE DEF a
      <3>1. b \in Account
        BY <1>1 DEF Account, Statuses, NoTime
      <3>2. b.paid = a.paid /\ b.expires = a.expires /\ b.status = a.status
        BY <1>1 DEF Account
      <3> QED BY <3>1, <3>2
    <2> HIDE DEF b
    <2> QED BY <1>2, <2>1, <2>2, SameDays, AccountsOnly
  <1>7. ASSUME NEW p \in Plans, MoveToPlan(u, p) PROVE BillingInv' /\ DaysStay
    <2> DEFINE b == [a EXCEPT !.plan = p]
    <2>1. acct' = [acct EXCEPT ![u] = b]
      BY <1>1, <1>7 DEF MoveToPlan
    <2>2. b \in Account /\ b.paid = a.paid /\ b.expires = a.expires /\ b.status = a.status
      <3> HIDE DEF a
      <3>1. b \in Account
        BY <1>1 DEF Account, Statuses, NoTime
      <3>2. b.paid = a.paid /\ b.expires = a.expires /\ b.status = a.status
        BY <1>1 DEF Account
      <3> QED BY <3>1, <3>2
    <2> HIDE DEF b
    <2> QED BY <1>2, <2>1, <2>2, SameDays, AccountsOnly
  <1>8. ASSUME NEW p \in Plans, BookPlan(u, p) PROVE BillingInv' /\ DaysStay
    <2>1. PICK q \in Plans \cup {NoPlan} : acct' = [acct EXCEPT ![u] = [a EXCEPT !.next = q]]
      BY <1>1, <1>8 DEF BookPlan
    <2> DEFINE b == [a EXCEPT !.next = q]
    <2>2. b \in Account /\ b.paid = a.paid /\ b.expires = a.expires /\ b.status = a.status
      <3> HIDE DEF a
      <3>1. b \in Account
        BY <1>1 DEF Account, Statuses, NoTime
      <3>2. b.paid = a.paid /\ b.expires = a.expires /\ b.status = a.status
        BY <1>1 DEF Account
      <3> QED BY <3>1, <3>2
    <2> HIDE DEF b
    <2>3. acct' = [acct EXCEPT ![u] = b]
      BY <2>1 DEF b
    <2> QED BY <1>2, <2>2, <2>3, SameDays, AccountsOnly
  <1> QED BY <1>3, <1>4, <1>5, <1>6, <1>7, <1>8

LEMMA CreateStep ==
    ASSUME BillingInv, NEW u \in Users, NEW p \in Plans, NEW until \in Dates, Create(u, p, until)
    PROVE  BillingInv' /\ DaysStay
  <1> DEFINE a == acct[u]
             status == IF Billed(p) /\ until = NoTime THEN "awaiting_payment" ELSE "active"
             paid == IF Billed(p) THEN until ELSE NoTime
             expires == IF Billed(p) /\ until # NoTime THEN until + grace ELSE until
             b == [a EXCEPT !.plan = p, !.install = InstallFee, !.status = status,
                            !.paid = paid, !.expires = expires]
  <1>1. AccountOK(a) /\ a \in Account /\ a.paid = NoTime /\ acct \in [Users -> Account]
    BY DEF BillingInv, AccountsOK, AccountOK, Create
  <1>2. acct' = [acct EXCEPT ![u] = b] /\ UNCHANGED <<now, serves, grace, payments, txs>>
    BY <1>1 DEF Create
  <1>3. until \in Nat /\ grace \in Nat
    BY DEF BillingInv, Days, Dates, NoTime
  <1>4. paid \in Nat /\ expires \in Nat /\ expires >= paid /\ status \in Statuses /\ status # "new"
    BY <1>3 DEF NoTime, Statuses
  <1>5. InstallFee \in Nat
    BY PppoeAssumption
  <1> HIDE DEF a, status, paid, expires
  <1>6. b \in Account
    <2> DEFINE named == [a EXCEPT !.plan = p, !.install = InstallFee]
    <2>1. named \in Account
      BY <1>1, <1>5 DEF Account
    <2>2. b = [named EXCEPT !.status = status, !.paid = paid, !.expires = expires]
      OBVIOUS
    <2>3. paid \in Int /\ expires \in Int
      BY <1>4
    <2> HIDE DEF named
    <2> QED BY <1>4, <2>1, <2>2, <2>3 DEF Account
  <1>7. b.paid = paid /\ b.expires = expires /\ b.status = status
    BY <1>1 DEF Account
  <1> HIDE DEF b
  <1>8. AccountOK(b) /\ b.status # "new" /\ b.paid >= a.paid
    BY <1>1, <1>4, <1>6, <1>7 DEF AccountOK, NoTime
  <1>9. AccountsStay /\ DaysStay
    BY <1>2, <1>8, OneAccount DEF a
  <1> QED BY <1>2, <1>9, AccountsOnly

LEMMA SetGraceStep ==
    ASSUME BillingInv, NEW g \in Graces, SetGrace(g) PROVE BillingInv' /\ DaysStay
  <1>1. g \in Nat
    BY PppoeAssumption
  <1>2. ASSUME NEW u \in Users
        PROVE  /\ AccountOK(Regraced(acct[u], g)) /\ Regraced(acct[u], g).paid = acct[u].paid
               /\ (acct[u].status # "new" => Regraced(acct[u], g).status # "new")
    <2> DEFINE a == acct[u]
               cut == a.paid + g
               status == IF cut > now THEN "active" ELSE a.status
               b == [a EXCEPT !.expires = cut, !.status = status]
    <2>1. AccountOK(a) /\ a \in Account /\ a.paid \in Int
      BY DEF BillingInv, AccountsOK, AccountOK, Account
    <2>2. CASE a.paid = NoTime \/ a.status \notin {"active", "expired"}
      <3>1. Regraced(a, g) = a
        BY <2>2 DEF Regraced
      <3> QED BY <2>1, <3>1
    <2>3. CASE ~(a.paid = NoTime \/ a.status \notin {"active", "expired"})
      <3>1. Regraced(a, g) = b
        BY <2>3 DEF Regraced
      <3>2. cut \in Int /\ cut >= a.paid /\ status \in Statuses /\ status # "new"
        BY <1>1, <2>1, <2>3 DEF Statuses
      <3> HIDE DEF cut, status
      <3>3. b \in Account
        BY <2>1, <3>2 DEF Account
      <3>4. b.paid = a.paid /\ b.expires = cut /\ b.status = status
        BY <2>1 DEF Account
      <3> HIDE DEF b
      <3>5. AccountOK(b)
        BY <3>2, <3>3, <3>4 DEF AccountOK
      <3> QED BY <3>1, <3>2, <3>4, <3>5
    <2> QED BY <2>2, <2>3
  <1>3. acct' = [u \in Users |-> Regraced(acct[u], g)] /\ grace' = g
        /\ UNCHANGED <<now, serves, payments, txs>>
    BY DEF SetGrace
  <1>4. \A u \in Users : /\ AccountOK(acct'[u]) /\ acct'[u].paid = acct[u].paid
                        /\ (acct[u].status # "new" => acct'[u].status # "new")
    BY <1>2, <1>3
  <1>5. \A u \in Users : acct'[u] \in Account
    BY <1>4 DEF AccountOK
  <1>6. AccountsOK'
    <2>1. acct' \in [Users -> Account]
      BY <1>3, <1>5
    <2> QED BY <1>4, <2>1 DEF AccountsOK, AccountOK
  <1>7. AccountsStay
    BY <1>4, <1>6 DEF AccountsStay, Exists
  <1>8. DaysStay
    <2>1. \A u \in Users : acct[u].paid \in Int
      BY DEF BillingInv, AccountsOK, Account
    <2> QED BY <1>4, <2>1 DEF DaysStay
  <1>9. Days'
    BY <1>1, <1>3 DEF BillingInv, Days
  <1> QED BY <1>3, <1>6, <1>7, <1>8, <1>9, RowsAlone, PromptsAlone DEF BillingInv

LEMMA AccountsAloneSteps ==
    ASSUME BillingInv, OwnerPlanChanges \/ Clock \/ UNCHANGED billingVars
    PROVE  BillingInv' /\ DaysStay
  <1>1. UNCHANGED <<grace, acct, payments, txs>>
    BY DEF OwnerPlanChanges, Clock, billingVars
  <1>2. Days'
    <2>1. serves' \in BOOLEAN
      BY Zenon DEF OwnerPlanChanges, Clock, billingVars, BillingInv, Days
    <2>2. now' \in Nat \ {0} /\ grace' \in Nat
      BY DEF OwnerPlanChanges, Clock, billingVars, BillingInv, Days
    <2> QED BY <2>1, <2>2 DEF Days
  <1>3. AccountsStay /\ DaysStay
    BY <1>1, AccountsAlone
  <1> QED BY <1>1, <1>2, <1>3, RowsAlone, PromptsAlone DEF BillingInv, AccountsStay

-----------------------------------------------------------------------------
(* Every behaviour                                                          *)

TakenBack == \E t \in DOMAIN txs : txs[t].status = "paid" /\ txs'[t].status = "reversed"

LEMMA BillingSteps ==
    ASSUME BillingInv, [BillingNext]_billingVars PROVE BillingInv' /\ (DaysStay \/ TakenBack)
  <1>1. CASE OwnerEdits
    BY <1>1, EditSteps, SetGraceStep, AccountsAloneSteps DEF OwnerEdits
  <1>2. CASE OwnerMoney
    BY <1>2, CreateStep, RecordPaymentStep, ExtendStep DEF OwnerMoney
  <1>3. CASE CustomerActs
    <2>1. ASSUME NEW u \in Users, NEW amount \in Amounts, Prompt(u, "pay", NoPlan, amount)
          PROVE  BillingInv' /\ DaysStay
      <3>1. amount \in Nat
        BY PppoeAssumption
      <3> QED BY <2>1, <3>1, PromptStep
    <2>2. ASSUME NEW u \in Users, NEW purpose \in {"upgrade", "boost"}, NEW p \in Plans,
                 Prompt(u, purpose, p, 0)
          PROVE  BillingInv' /\ DaysStay
      BY <2>2, PromptStep
    <2> QED BY <1>3, <2>1, <2>2, UpgradeFromCreditStep, PayBillStep DEF CustomerActs
  <1>4. CASE MpesaActs
    BY <1>4, BankStep, DeclineStep, SettleAgainStep, ReverseStep DEF MpesaActs, TakenBack
  <1>5. CASE SweepActs
    BY <1>5, EditSteps, RenewFromCreditStep DEF SweepActs
  <1>6. CASE Clock \/ UNCHANGED billingVars
    BY <1>6, AccountsAloneSteps
  <1> QED BY <1>1, <1>2, <1>3, <1>4, <1>5, <1>6 DEF BillingNext

LEMMA BillingStarts == BillingInit => BillingInv
  <1> SUFFICES ASSUME BillingInit PROVE BillingInv
    OBVIOUS
  <1>1. Days
    BY PppoeAssumption DEF BillingInit, Days
  <1>2. (CHOOSE p \in Plans : TRUE) \in Plans
    BY PppoeAssumption
  <1>3. NewSubscriber \in Account
    BY <1>2 DEF NewSubscriber, Account, Statuses, NoTime
  <1>4. AccountOK(NewSubscriber)
    BY <1>3 DEF AccountOK, NewSubscriber, NoTime
  <1>5. AccountsOK
    BY <1>3, <1>4 DEF AccountsOK, BillingInit
  <1>6. RowsOK /\ PromptsOK
    BY DEF RowsOK, PromptsOK, BillingInit
  <1> QED BY <1>1, <1>5, <1>6 DEF BillingInv

\* Paid days are only ever taken back by a reversal of their payment: no
\* payment, edit, grace change or renewal moves paid_until back (applyPayment,
\* convertCredit, setGrace, extendSubscriber of pppoe-billing.js).
THEOREM PaidDaysStay == BillingSpec => PaidDaysAreKept
  <1>1. BillingInv /\ [BillingNext]_billingVars => BillingInv'
    BY BillingSteps
  <1>2. BillingInv /\ [BillingNext]_billingVars =>
          [\A u \in Users : acct'[u].paid < acct[u].paid =>
             \E t \in DOMAIN txs : txs[t].status = "paid" /\ txs'[t].status = "reversed"]_billingVars
    <2> SUFFICES ASSUME BillingInv, [BillingNext]_billingVars, NEW u \in Users,
                        acct'[u].paid < acct[u].paid
                 PROVE  TakenBack
      BY DEF TakenBack
    <2>1. BillingInv' /\ (DaysStay \/ TakenBack)
      BY BillingSteps
    <2>2. acct[u].paid \in Int /\ acct'[u].paid \in Int
      BY <2>1 DEF BillingInv, AccountsOK, Account
    <2>3. ~DaysStay
      BY <2>2 DEF DaysStay
    <2> QED BY <2>1, <2>3
  <1> QED BY <1>1, <1>2, BillingStarts, PTL DEF BillingSpec, PaidDaysAreKept

-----------------------------------------------------------------------------
(* Every shilling is accounted for                                          *)

LEMMA RowsAddUp == ASSUME NEW f, NEW S PROVE SumOver(f, S) = Sum(f, S)
  BY DEF SumOver, Sum

\* What a payment does to the credit, as its row says.
Charged(u, b, row) ==
    /\ row \in Row /\ row.user = u /\ Charge(row) \in Int
    /\ acct[u].credit + row.amount = b.credit + row.toInstall + Charge(row)

LEMMA Charges == ASSUME NEW row \in Row PROVE Charge(row) \in Int
  <1>1. row.days \in Nat /\ Period \in Nat /\ Period > 0 /\ Price[row.planAfter] \in Nat
    BY PppoeAssumption DEF Row
  <1>2. row.days \div Period \in Nat
    BY <1>1
  <1>3. (row.days \div Period) * Price[row.planAfter] \in Nat
    BY <1>1, <1>2
  <1>4. row.creditBefore + row.amount - row.creditAfter \in Int
    BY DEF Row
  <1> QED BY <1>3, <1>4 DEF Charge

LEMMA RowSums ==
    ASSUME BillingInv, NEW u \in Users
    PROVE  /\ IsFiniteSet(RowsOf(u)) /\ RowsOf(u) \subseteq DOMAIN payments
           /\ \A i \in DOMAIN payments : MoneyIn[i] \in Int /\ Spent[i] \in Int
           /\ Sum(MoneyIn, RowsOf(u)) \in Int /\ Sum(Spent, RowsOf(u)) \in Int
  <1>1. payments \in Seq(Row) /\ Len(payments) \in Nat /\ DOMAIN payments = 1..Len(payments)
    BY DEF BillingInv, RowsOK
  <1>2. RowsOf(u) \subseteq DOMAIN payments
    BY DEF RowsOf
  <1>3. IsFiniteSet(RowsOf(u))
    <2>1. IsFiniteSet(1..Len(payments))
      BY <1>1, FS_Interval
    <2> QED BY <1>1, <1>2, <2>1, FS_Subset
  <1>4. ASSUME NEW i \in DOMAIN payments PROVE MoneyIn[i] \in Int /\ Spent[i] \in Int
    <2>1. payments[i] \in Row
      BY <1>1
    <2>2. payments[i].amount \in Nat /\ payments[i].toInstall \in Nat /\ Charge(payments[i]) \in Int
      BY <2>1, Charges DEF Row
    <2> QED BY <2>2 DEF MoneyIn, Spent
  <1>5. Sum(MoneyIn, RowsOf(u)) \in Int /\ Sum(Spent, RowsOf(u)) \in Int
    BY <1>2, <1>3, <1>4, SumAdds
  <1> QED BY <1>2, <1>3, <1>4, <1>5

\* Nothing is paid and nobody's credit changes.
CreditsSame == payments' = payments /\ \A v \in Users : acct'[v].credit = acct[v].credit

LEMMA AccountsIdle == ASSUME MoneyAccounted, CreditsSame PROVE MoneyAccounted'
  <1>1. MoneyIn' = MoneyIn /\ Spent' = Spent
    BY DEF MoneyIn, Spent, Charge, CreditsSame
  <1>2. \A v \in Users : RowsOf(v)' = RowsOf(v)
    BY DEF RowsOf, CreditsSame
  <1> SUFFICES ASSUME NEW v \in Users, \A i \in RowsOf(v)' : ~payments'[i].reversed
               PROVE  Sum(MoneyIn', RowsOf(v)') = acct'[v].credit + Sum(Spent', RowsOf(v)')
    BY RowsAddUp DEF MoneyAccounted
  <1>3. \A i \in RowsOf(v) : ~payments[i].reversed
    BY <1>2 DEF CreditsSame
  <1>4. Sum(MoneyIn, RowsOf(v)) = acct[v].credit + Sum(Spent, RowsOf(v))
    BY <1>3, RowsAddUp DEF MoneyAccounted
  <1> QED BY <1>1, <1>2, <1>4 DEF CreditsSame

LEMMA RowIsBooked ==
    ASSUME BillingInv, MoneyAccounted, NEW u \in Users, NEW b, NEW row, Charged(u, b, row),
           acct' = [acct EXCEPT ![u] = b], payments' = Append(payments, row), b.credit \in Nat
    PROVE  MoneyAccounted'
  <1> DEFINE n == Len(payments) + 1
  <1>1. payments \in Seq(Row) /\ acct \in [Users -> Account] /\ row \in Row
    BY DEF BillingInv, RowsOK, AccountsOK, Charged
  <1>2. /\ n \in Nat /\ n \notin DOMAIN payments /\ DOMAIN payments' = DOMAIN payments \cup {n}
        /\ payments'[n] = row /\ \A i \in DOMAIN payments : payments'[i] = payments[i]
    BY <1>1
  <1> HIDE DEF n
  <1>3. /\ \A i \in DOMAIN payments : MoneyIn'[i] = MoneyIn[i] /\ Spent'[i] = Spent[i]
        /\ MoneyIn'[n] = row.amount /\ Spent'[n] = row.toInstall + Charge(row)
    BY <1>2 DEF MoneyIn, Spent, Charge
  <1>4. row.amount \in Nat /\ row.toInstall \in Nat /\ Charge(row) \in Int /\ row.user = u
    BY <1>1 DEF Row, Charged
  <1> SUFFICES ASSUME NEW v \in Users, \A i \in RowsOf(v)' : ~payments'[i].reversed
               PROVE  Sum(MoneyIn', RowsOf(v)') = acct'[v].credit + Sum(Spent', RowsOf(v)')
    BY RowsAddUp DEF MoneyAccounted
  <1>5. RowsOf(v)' = IF v = u THEN RowsOf(v) \cup {n} ELSE RowsOf(v)
    BY <1>2, <1>4 DEF RowsOf
  <1>6. \A i \in RowsOf(v) : ~payments[i].reversed
    BY <1>2, <1>5 DEF RowsOf
  <1>7. Sum(MoneyIn, RowsOf(v)) = acct[v].credit + Sum(Spent, RowsOf(v))
    BY <1>6, RowsAddUp DEF MoneyAccounted
  <1>8. /\ IsFiniteSet(RowsOf(v)) /\ n \notin RowsOf(v)
        /\ \A i \in RowsOf(v) : MoneyIn[i] \in Int /\ Spent[i] \in Int
        /\ Sum(MoneyIn, RowsOf(v)) \in Int /\ Sum(Spent, RowsOf(v)) \in Int
    BY <1>2, RowSums DEF RowsOf
  <1>9. \A i \in RowsOf(v) : MoneyIn'[i] = MoneyIn[i] /\ Spent'[i] = Spent[i]
    BY <1>3 DEF RowsOf
  <1>10. Sum(MoneyIn', RowsOf(v)) = Sum(MoneyIn, RowsOf(v)) /\ Sum(Spent', RowsOf(v)) = Sum(Spent, RowsOf(v))
    BY <1>8, <1>9, SumSame
  <1>11. CASE v # u
    BY <1>1, <1>5, <1>7, <1>10, <1>11
  <1>12. CASE v = u
    <2>1. \A i \in RowsOf(v) \cup {n} : MoneyIn'[i] \in Int /\ Spent'[i] \in Int
      BY <1>3, <1>4, <1>8, <1>9
    <2>2. /\ Sum(MoneyIn', RowsOf(v) \cup {n}) = Sum(MoneyIn', RowsOf(v)) + row.amount
          /\ Sum(Spent', RowsOf(v) \cup {n}) = Sum(Spent', RowsOf(v)) + (row.toInstall + Charge(row))
      BY <1>3, <1>8, <2>1, SumOfOneMore
    <2>3. acct'[v] = b /\ acct[u].credit + row.amount = b.credit + row.toInstall + Charge(row)
          /\ acct[u].credit \in Nat
      BY <1>1, <1>12 DEF Charged, Account
    <2>4. /\ Sum(MoneyIn', RowsOf(v)') = Sum(MoneyIn, RowsOf(v)) + row.amount
          /\ Sum(Spent', RowsOf(v)') = Sum(Spent, RowsOf(v)) + (row.toInstall + Charge(row))
      BY <1>5, <1>10, <1>12, <2>2
    <2>5. acct'[v].credit \in Nat /\ acct[v].credit + row.amount = acct'[v].credit + row.toInstall + Charge(row)
      BY <1>12, <2>3
    <2>6. acct[v].credit \in Nat
      BY <1>12, <2>3
    <2> DEFINE s1 == Sum(MoneyIn, RowsOf(v))
               s2 == Sum(Spent, RowsOf(v))
               c1 == acct[v].credit
               c2 == acct'[v].credit
               x == row.amount
               y == row.toInstall
               z == Charge(row)
    <2>7. /\ s1 \in Int /\ s2 \in Int /\ x \in Nat /\ y \in Nat /\ z \in Int /\ c1 \in Nat /\ c2 \in Nat
          /\ s1 = c1 + s2 /\ c1 + x = c2 + y + z
      BY <1>4, <1>7, <1>8, <2>5, <2>6
    <2>8. /\ Sum(MoneyIn', RowsOf(v)') = s1 + x /\ acct'[v].credit = c2
          /\ Sum(Spent', RowsOf(v)') = s2 + (y + z)
      BY <2>4
    <2> HIDE DEF s1, s2, c1, c2, x, y, z
    <2> QED BY <2>7, <2>8
  <1> QED BY <1>11, <1>12

\* A reversed payment is taken out of the books with its subscriber.
LEMMA RowIsReversed ==
    ASSUME BillingInv, MoneyAccounted, NEW i \in DOMAIN payments,
           payments' = [payments EXCEPT ![i].reversed = TRUE],
           \A v \in Users \ {payments[i].user} : acct'[v].credit = acct[v].credit
    PROVE  MoneyAccounted'
  <1> DEFINE u == payments[i].user
  <1>1. payments \in Seq(Row)
    BY DEF BillingInv, RowsOK
  <1>2. payments[i] \in Row
    BY <1>1
  <1>3. /\ DOMAIN payments' = DOMAIN payments
        /\ \A k \in DOMAIN payments : k # i => payments'[k] = payments[k]
        /\ payments'[i] = [payments[i] EXCEPT !.reversed = TRUE]
    BY <1>1
  <1>4. payments'[i].user = u /\ payments'[i].reversed
    BY <1>2, <1>3 DEF Row
  <1> SUFFICES ASSUME NEW v \in Users, \A k \in RowsOf(v)' : ~payments'[k].reversed
               PROVE  Sum(MoneyIn', RowsOf(v)') = acct'[v].credit + Sum(Spent', RowsOf(v)')
    BY RowsAddUp DEF MoneyAccounted
  <1>5. v # u
    BY <1>3, <1>4 DEF RowsOf
  <1>6. RowsOf(v)' = RowsOf(v) /\ i \notin RowsOf(v)
    BY <1>3, <1>4, <1>5 DEF RowsOf
  <1>7. \A k \in RowsOf(v) : ~payments[k].reversed
    BY <1>3, <1>6 DEF RowsOf
  <1>8. Sum(MoneyIn, RowsOf(v)) = acct[v].credit + Sum(Spent, RowsOf(v))
    BY <1>7, RowsAddUp DEF MoneyAccounted
  <1>9. \A k \in RowsOf(v) : MoneyIn'[k] = MoneyIn[k] /\ Spent'[k] = Spent[k]
    BY <1>3, <1>6 DEF MoneyIn, Spent, Charge, RowsOf
  <1>10. IsFiniteSet(RowsOf(v)) /\ \A k \in RowsOf(v) : MoneyIn[k] \in Int /\ Spent[k] \in Int
    BY RowSums DEF RowsOf
  <1>11. Sum(MoneyIn', RowsOf(v)) = Sum(MoneyIn, RowsOf(v)) /\ Sum(Spent', RowsOf(v)) = Sum(Spent, RowsOf(v))
    BY <1>9, <1>10, SumSame
  <1> QED BY <1>5, <1>6, <1>8, <1>11
-----------------------------------------------------------------------------
(* What applyPayment books                                                   *)

\* Whole periods leave the credit at the price of the plan they run on.
LEMMA ConvertedCharges ==
    ASSUME NEW c, AccountOK(c)
    PROVE  LET n == PeriodsIn(c)
           IN  /\ n \in Nat /\ (Period * n) \div Period = n
               /\ n = 0 => Converted(c).credit = c.credit
               /\ n # 0 => /\ Converted(c).plan \in Plans
                          /\ Converted(c).credit = c.credit - n * Price[Converted(c).plan]
  <1> DEFINE n == PeriodsIn(c)
  <1>1. n \in Nat /\ Period \in Nat /\ Period > 0
    BY PeriodsAreAffordable, PppoeAssumption
  <1>2. n # 0 => RenewalPlan(c) \in Plans
    BY PeriodsAreAffordable
  <1>3. n = 0 => Converted(c) = c
    BY DEF Converted
  <1>4. n # 0 => /\ Converted(c).credit = c.credit - n * Price[RenewalPlan(c)]
                 /\ Converted(c).plan = RenewalPlan(c)
    BY DEF Converted, AccountOK, Account
  <1> HIDE DEF n
  <1>5. (Period * n) \div Period = n
    BY <1>1
  <1> QED BY <1>1, <1>2, <1>3, <1>4, <1>5 DEF n

\* The cut-off and the status leave the money and the plan alone.
LEMMA AppliedKeepsMoney ==
    ASSUME Days, NEW a, AccountOK(a), a.status # "new", NEW m, IsMoney(m)
    PROVE  /\ Applied(a, m).credit = Effect(a, m).credit
           /\ Applied(a, m).plan = Effect(a, m).plan
  <1> DEFINE e == Effect(a, m)
             b == WithCutOff(e, PaidUntilOf(e))
  <1>1. e \in Account
    BY EffectGrows DEF Grown
  <1> HIDE DEF e
  <1>2. b.credit = e.credit /\ b.plan = e.plan
    BY <1>1 DEF WithCutOff, Account
  <1>3. b \in [status : Statuses, credit : Nat, install : Nat, paid : {b.paid}, expires : {b.expires},
               plan : Plans, next : Plans \cup {NoPlan},
               boost : Plans \cup {NoPlan}, boostEnd : Nat, locked : Nat]
    BY <1>1 DEF WithCutOff, Account
  <1>4. Applied(a, m) = b \/ Applied(a, m) = [b EXCEPT !.status = "active"]
    BY DEF Applied, e
  <1> HIDE DEF b
  <1>5. [b EXCEPT !.status = "active"].credit = b.credit /\ [b EXCEPT !.status = "active"].plan = b.plan
    BY <1>3
  <1> QED BY <1>2, <1>4, <1>5 DEF e

LEMMA PaymentCharges ==
    ASSUME BillingInv, NEW u \in Users, Exists(u), NEW m, IsMoney(m),
           NEW receipt \in Nat, NEW tx \in Nat
    PROVE  Charged(u, Applied(acct[u], m), NewRow(u, m, receipt, tx)) /\ Applied(acct[u], m).credit \in Nat
  <1> DEFINE a == acct[u]
             b == Applied(a, m)
             row == NewRow(u, m, receipt, tx)
             c == AsCredit(a, m)
  <1>1. Days /\ AccountOK(a) /\ a.status # "new" /\ a.credit \in Nat
    BY DEF BillingInv, AccountsOK, Exists, AccountOK, Account
  <1>2. b.credit = Effect(a, m).credit /\ b.plan = Effect(a, m).plan
    BY <1>1, AppliedKeepsMoney
  <1>3. b.credit \in Nat
    BY <1>1, AppliedGrows DEF AccountOK, Account
  <1>4. row \in Row /\ Charge(row) \in Int
    BY PaymentRow, Charges
  <1>5. /\ row.user = u /\ row.kind = Kind(a, m) /\ row.amount = m.amount
        /\ row.toInstall = ToInstall(a, m) /\ row.days = DaysAdded(a, m)
        /\ row.creditBefore = a.credit /\ row.creditAfter = b.credit /\ row.planAfter = b.plan
    BY DEF NewRow
  <1>6. m.amount \in Nat /\ ToInstall(a, m) \in Nat
    BY <1>1, MoneyBecomesCredit DEF IsMoney
  <1>7. CASE Kind(a, m) # "pay"
    <2>1. Charge(row) = a.credit + m.amount - b.credit /\ row.toInstall = 0
      BY <1>5, <1>7 DEF Charge, ToInstall
    <2> HIDE DEF a, b, row
    <2>2. a.credit + row.amount = b.credit + row.toInstall + Charge(row)
      BY <1>1, <1>3, <1>5, <1>6, <2>1
    <2> QED BY <1>3, <1>4, <1>5, <2>2 DEF Charged, a, b, row
  <1>8. CASE Kind(a, m) = "pay"
    <2>1. /\ Effect(a, m) = IF ConvertsNow(a, m) THEN Converted(c) ELSE c
          /\ DaysAdded(a, m) = IF ConvertsNow(a, m) THEN Period * PeriodsIn(c) ELSE 0
      BY <1>8 DEF Effect, DaysAdded
    <2>2. AccountOK(c) /\ c.credit \in Nat
      BY <1>1, MoneyBecomesCredit DEF AccountOK, Account
    <2>3. c.credit = a.credit + m.amount - ToInstall(a, m)
      BY <1>1 DEF AsCredit, AccountOK, Account
    <2>4. Charge(row) = (DaysAdded(a, m) \div Period) * Price[b.plan]
      BY <1>5, <1>8 DEF Charge
    <2> DEFINE n == PeriodsIn(c)
               d == Converted(c)
    <2>5. /\ n \in Nat /\ (Period * n) \div Period = n
          /\ n = 0 => d.credit = c.credit
          /\ n # 0 => d.plan \in Plans /\ d.credit = c.credit - n * Price[d.plan]
      BY <2>2, ConvertedCharges
    <2>6. Period \in Nat /\ Period > 0 /\ 0 \div Period = 0 /\ b.plan \in Plans /\ Price[b.plan] \in Nat
      BY <1>1, AppliedGrows, PppoeAssumption DEF AccountOK, Account
    <2>7. b.credit = c.credit - Charge(row)
      <3> HIDE DEF a, b, c, row, n, d
      <3>1. CASE ~ConvertsNow(a, m)
        BY <1>2, <2>1, <2>2, <2>4, <2>6, <3>1
      <3>2. CASE ConvertsNow(a, m)
        <4>1. b.credit = d.credit /\ b.plan = d.plan /\ Charge(row) = n * Price[b.plan]
          BY <1>2, <2>1, <2>4, <2>5, <3>2 DEF n, d
        <4>2. CASE n = 0
          BY <2>2, <2>5, <2>6, <4>1, <4>2
        <4>3. CASE n # 0
          BY <2>5, <4>1, <4>3
        <4> QED BY <4>2, <4>3
      <3> QED BY <3>1, <3>2
    <2> HIDE DEF a, b, c, row
    <2>8. a.credit + row.amount = b.credit + row.toInstall + Charge(row)
      BY <1>1, <1>3, <1>4, <1>5, <1>6, <2>2, <2>3, <2>7
    <2> QED BY <1>3, <1>4, <1>5, <2>8 DEF Charged, a, b, row
  <1> QED BY <1>7, <1>8

LEMMA PaymentBooked ==
    ASSUME BillingInv, MoneyAccounted, NEW u \in Users, Exists(u), NEW m, IsMoney(m),
           NEW receipt \in Nat, NEW tx \in Nat, ApplyPayment(u, m, receipt, tx)
    PROVE  MoneyAccounted'
  <1> DEFINE b == Applied(acct[u], m)
             row == NewRow(u, m, receipt, tx)
  <1>1. acct' = [acct EXCEPT ![u] = b] /\ payments' = Append(payments, row)
    BY DEF ApplyPayment
  <1>2. Charged(u, b, row) /\ b.credit \in Nat
    BY PaymentCharges
  <1> HIDE DEF b, row
  <1> QED BY <1>1, <1>2, RowIsBooked

LEMMA SettleBooks ==
    ASSUME BillingInv, MoneyAccounted, NEW t \in DOMAIN txs, NEW known \in BOOLEAN, Settle(t, known)
    PROVE  MoneyAccounted'
  <1> DEFINE x == txs[t]
             receipt == IF known THEN t ELSE 0
             m == Money(x.purpose, x.target, x.amount,
                        IF x.source = "stk" THEN x.amount ELSE 0, x.fromCredit, 0)
  <1>1. CASE HasCheckout(t) \/ HasReceipt(receipt)
    BY <1>1, AccountsIdle DEF Settle, CreditsSame
  <1>2. CASE ~(HasCheckout(t) \/ HasReceipt(receipt))
    <2>1. ApplyPayment(x.user, m, receipt, t)
      BY <1>2 DEF Settle
    <2>2. x \in Prompted /\ x.user \in Users /\ Exists(x.user) /\ t \in Nat
      BY TheirUsers
    <2>3. /\ x.purpose \in {"pay", "upgrade", "boost"} /\ x.target \in Plans \cup {NoPlan}
          /\ x.amount \in Nat /\ x.fromCredit \in Int
      BY <2>2 DEF Prompted
    <2>4. IsMoney(m)
      BY <2>3 DEF IsMoney, Money
    <2> HIDE DEF x, m
    <2> QED BY <2>1, <2>2, <2>4, PaymentBooked
  <1> QED BY <1>1, <1>2

LEMMA MpesaBooks ==
    ASSUME BillingInv, MoneyAccounted, MpesaActs PROVE MoneyAccounted'
  <1>1. ASSUME NEW t \in DOMAIN txs, NEW known \in BOOLEAN, NEW reach \in Reach, Bank(t, known, reach)
        PROVE  MoneyAccounted'
    <2>1. CASE reach = "banked"
      BY <1>1, <2>1, AccountsIdle DEF Bank, CreditsSame
    <2>2. CASE reach # "banked"
      BY <1>1, <2>2, SettleBooks DEF Bank
    <2> QED BY <2>1, <2>2
  <1>2. ASSUME NEW t \in DOMAIN txs, Decline(t) PROVE MoneyAccounted'
    BY <1>2, AccountsIdle DEF Decline, CreditsSame
  <1>3. ASSUME NEW t \in DOMAIN txs, SettleAgain(t) PROVE MoneyAccounted'
    <2>1. txs[t].receiptKnown \in BOOLEAN
      BY TheirUsers DEF Prompted
    <2> QED BY <1>3, <2>1, SettleBooks DEF SettleAgain
  <1>4. ASSUME NEW t \in DOMAIN txs, Reverse(t) PROVE MoneyAccounted'
    <2>1. CASE acct' = acct /\ payments' = payments
      BY <2>1, AccountsIdle DEF CreditsSame
    <2>2. CASE ~(acct' = acct /\ payments' = payments)
      <3>1. PICK i \in DOMAIN payments :
              /\ payments' = [payments EXCEPT ![i].reversed = TRUE]
              /\ acct' = [acct EXCEPT ![payments[i].user] = Reversed(@, payments[i])]
        BY <1>4, <2>2 DEF Reverse
      <3>2. acct \in [Users -> Account]
        BY DEF BillingInv, AccountsOK
      <3>3. \A v \in Users \ {payments[i].user} : acct'[v] = acct[v]
        BY <3>1, <3>2
      <3> QED BY <3>1, <3>3, RowIsReversed
    <2> QED BY <2>1, <2>2
  <1> QED BY <1>1, <1>2, <1>3, <1>4 DEF MpesaActs

\* What the owner does beside recording money, and the sweep beside renewing.
LEMMA EditsAreFree ==
    ASSUME BillingInv, OwnerEdits \/ (\E u \in Users : EndBoost(u))
                       \/ (\E u \in Users, p \in Plans, until \in Dates : Create(u, p, until))
    PROVE  CreditsSame
  <1>1. acct \in [Users -> Account]
    BY DEF BillingInv, AccountsOK
  <1>2. ASSUME NEW u \in Users, NEW b, b.credit = acct[u].credit,
               acct' = [acct EXCEPT ![u] = b], payments' = payments
        PROVE  CreditsSame
    BY <1>1, <1>2 DEF CreditsSame
  <1>3. ASSUME NEW u \in Users
        PROVE  /\ Provision(u) \/ Lock(u) \/ Unlock(u) \/ AdminToggle(u) \/ EndBoost(u) => CreditsSame
               /\ \A p \in Plans : MoveToPlan(u, p) \/ BookPlan(u, p) => CreditsSame
    <2> DEFINE a == acct[u]
    <2>1. acct[u] \in Account
      BY <1>1
    <2>2. Provision(u) => CreditsSame
      BY DEF Provision, CreditsSame
    <2>3. Lock(u) => CreditsSame
      <3> DEFINE b == [a EXCEPT !.locked = now + 1]
      <3>1. b.credit = a.credit
        BY <2>1 DEF Account
      <3>2. Lock(u) => acct' = [acct EXCEPT ![u] = b] /\ payments' = payments
        BY <1>1 DEF Lock
      <3> HIDE DEF b
      <3> QED BY <1>2, <3>1, <3>2
    <2>4. Unlock(u) => CreditsSame
      <3> DEFINE b == [a EXCEPT !.locked = NoTime]
      <3>1. b.credit = a.credit
        BY <2>1 DEF Account
      <3>2. Unlock(u) => acct' = [acct EXCEPT ![u] = b] /\ payments' = payments
        BY <1>1 DEF Unlock
      <3> HIDE DEF b
      <3> QED BY <1>2, <3>1, <3>2
    <2>5. AdminToggle(u) => CreditsSame
      <3> DEFINE b == [a EXCEPT !.status = IF a.status # "active" THEN "active" ELSE "disabled"]
      <3>1. b.credit = a.credit
        BY <2>1 DEF Account
      <3>2. AdminToggle(u) => acct' = [acct EXCEPT ![u] = b] /\ payments' = payments
        BY <1>1 DEF AdminToggle
      <3> HIDE DEF b
      <3> QED BY <1>2, <3>1, <3>2
    <2>6. EndBoost(u) => CreditsSame
      <3> DEFINE b == [a EXCEPT !.boost = NoPlan, !.boostEnd = NoTime]
      <3>1. b.credit = a.credit
        BY <2>1 DEF Account
      <3>2. EndBoost(u) => acct' = [acct EXCEPT ![u] = b] /\ payments' = payments
        BY <1>1 DEF EndBoost
      <3> HIDE DEF b
      <3> QED BY <1>2, <3>1, <3>2
    <2>7. ASSUME NEW p \in Plans PROVE MoveToPlan(u, p) => CreditsSame
      <3> DEFINE b == [a EXCEPT !.plan = p]
      <3>1. b.credit = a.credit
        BY <2>1 DEF Account
      <3>2. MoveToPlan(u, p) => acct' = [acct EXCEPT ![u] = b] /\ payments' = payments
        BY <1>1 DEF MoveToPlan
      <3> HIDE DEF b
      <3> QED BY <1>2, <3>1, <3>2
    <2>8. ASSUME NEW p \in Plans PROVE BookPlan(u, p) => CreditsSame
      <3> DEFINE b == [a EXCEPT !.next = IF p = a.plan THEN NoPlan ELSE p]
      <3>1. b.credit = a.credit
        BY <2>1 DEF Account
      <3>2. BookPlan(u, p) => acct' = [acct EXCEPT ![u] = b] /\ payments' = payments
        BY <1>1 DEF BookPlan
      <3> HIDE DEF b
      <3> QED BY <1>2, <3>1, <3>2
    <2> QED BY <2>2, <2>3, <2>4, <2>5, <2>6, <2>7, <2>8
  <1>4. ASSUME NEW g \in Graces, SetGrace(g) PROVE CreditsSame
    <2>1. \A u \in Users : Regraced(acct[u], g).credit = acct[u].credit
      BY <1>1 DEF Regraced, Account
    <2> QED BY <1>4, <2>1 DEF SetGrace, CreditsSame
  <1>5. ASSUME OwnerPlanChanges PROVE CreditsSame
    BY <1>5 DEF OwnerPlanChanges, CreditsSame
  <1>6. ASSUME NEW u \in Users, NEW p \in Plans, NEW until \in Dates, Create(u, p, until)
        PROVE  CreditsSame
    <2> DEFINE a == acct[u]
               status == IF Billed(p) /\ until = NoTime THEN "awaiting_payment" ELSE "active"
               paid == IF Billed(p) THEN until ELSE NoTime
               expires == IF Billed(p) /\ until # NoTime THEN until + grace ELSE until
               b == [a EXCEPT !.plan = p, !.install = InstallFee, !.status = status,
                              !.paid = paid, !.expires = expires]
    <2>1. a \in Account
      BY <1>1
    <2>2. acct' = [acct EXCEPT ![u] = b] /\ payments' = payments
      BY <1>1, <1>6 DEF Create
    <2> HIDE DEF status, paid, expires
    <2>3. b.credit = a.credit
      BY <2>1 DEF Account
    <2> HIDE DEF b
    <2> QED BY <1>2, <2>2, <2>3
  <1> QED BY <1>3, <1>4, <1>5, <1>6 DEF OwnerEdits

LEMMA MoneySteps ==
    ASSUME BillingInv, MoneyAccounted, [BillingNext]_billingVars PROVE MoneyAccounted'
  <1>1. CASE OwnerEdits
    BY <1>1, EditsAreFree, AccountsIdle
  <1>2. CASE OwnerMoney
    <2>1. ASSUME NEW u \in Users, NEW amount \in Amounts, NEW r \in 0..MaxPrompts,
                 RecordPayment(u, amount, r)
          PROVE  MoneyAccounted'
      <3>1. amount \in Nat /\ r \in Nat
        BY PppoeAssumption
      <3>2. IsMoney(Plain(amount))
        BY <3>1 DEF IsMoney, Plain, Money
      <3> QED BY <2>1, <3>1, <3>2, PaymentBooked DEF RecordPayment
    <2>2. ASSUME NEW u \in Users, Extend(u, 1) PROVE MoneyAccounted'
      <3>1. IsMoney(Money("extension", NoPlan, 0, 0, 0, 1))
        BY DEF IsMoney, Money
      <3> QED BY <2>2, <3>1, PaymentBooked DEF Extend
    <2> QED BY <1>2, <2>1, <2>2, EditsAreFree, AccountsIdle DEF OwnerMoney
  <1>3. CASE CustomerActs
    <2>1. ASSUME NEW u \in Users, NEW p \in Plans, UpgradeFromCredit(u, p) PROVE MoneyAccounted'
      <3>1. IsMoney(Money("upgrade", p, 0, 0, Difference(acct[u], p), 0))
        BY DifferenceIsAnAmount DEF IsMoney, Money
      <3> QED BY <2>1, <3>1, PaymentBooked DEF UpgradeFromCredit
    <2>2. ASSUME NEW u \in Users, NEW amount \in Amounts, NEW reach \in Reach, PayBill(u, amount, reach)
          PROVE  MoneyAccounted'
      <3>1. CASE reach = "banked"
        BY <2>2, <3>1, AccountsIdle DEF PayBill, CreditsSame
      <3>2. CASE reach # "banked"
        <4> DEFINE t == Len(txs) + 1
        <4>1. amount \in Nat /\ t \in Nat
          BY PppoeAssumption, TheirUsers
        <4>2. IsMoney(Plain(amount))
          BY <4>1 DEF IsMoney, Plain, Money
        <4>3. ApplyPayment(u, Plain(amount), t, t) /\ Exists(u)
          BY <2>2, <3>2 DEF PayBill
        <4> HIDE DEF t
        <4> QED BY <4>1, <4>2, <4>3, PaymentBooked
      <3> QED BY <3>1, <3>2
    <2>3. ASSUME NEW u \in Users, NEW purpose, NEW target, NEW sum, Prompt(u, purpose, target, sum)
          PROVE  MoneyAccounted'
      <3>1. acct' = acct /\ payments' = payments
        BY <2>3 DEF Prompt
      <3> QED BY <3>1, AccountsIdle DEF CreditsSame
    <2> QED BY <1>3, <2>1, <2>2, <2>3 DEF CustomerActs
  <1>4. CASE MpesaActs
    BY <1>4, MpesaBooks
  <1>5. CASE SweepActs
    <2>1. ASSUME NEW u \in Users, RenewFromCredit(u) PROVE MoneyAccounted'
      <3>1. IsMoney(Plain(0))
        BY DEF IsMoney, Plain, Money
      <3>2. Exists(u)
        BY <2>1 DEF RenewFromCredit, Exists
      <3> QED BY <2>1, <3>1, <3>2, PaymentBooked DEF RenewFromCredit
    <2> QED BY <1>5, <2>1, EditsAreFree, AccountsIdle DEF SweepActs
  <1>6. CASE Clock \/ UNCHANGED billingVars
    BY <1>6, AccountsIdle DEF Clock, billingVars, CreditsSame
  <1> QED BY <1>1, <1>2, <1>3, <1>4, <1>5, <1>6 DEF BillingNext

\* Every shilling is still credit, has paid the installation fee or has bought
\* something at its price, for any plans, prices and number of payments, in any
\* order, each settled once (applyPayment, convertCredit, settleTransaction,
\* reversePayment of pppoe-billing.js).
THEOREM MoneyIsAccounted == BillingSpec => []MoneyAccounted
  <1>1. BillingInit => MoneyAccounted
    <2> SUFFICES ASSUME BillingInit, NEW u \in Users
                 PROVE  Sum(MoneyIn, RowsOf(u)) = acct[u].credit + Sum(Spent, RowsOf(u))
      BY RowsAddUp DEF MoneyAccounted
    <2>1. RowsOf(u) = {} /\ acct[u].credit = 0
      BY DEF BillingInit, RowsOf, NewSubscriber
    <2> QED BY <2>1, SumOfNone
  <1>2. BillingInv /\ [BillingNext]_billingVars => BillingInv'
    BY BillingSteps
  <1>3. BillingInv /\ MoneyAccounted /\ [BillingNext]_billingVars => MoneyAccounted'
    BY MoneySteps
  <1> QED BY <1>1, <1>2, <1>3, BillingStarts, PTL DEF BillingSpec

-----------------------------------------------------------------------------
(* The router follows the server                                            *)

\* What TLC shows to be needed: an edit while a script or its report is on the
\* way can be acknowledged unseen, a refused revocation is retried after a newer
\* upsert, and a longer grace leaves a queued revocation in place.
SteadyRouter == ~Overlap /\ "revoke" \notin Refusable /\ Graces = {DefaultGrace}

JobRows == [JobActions -> Job]
Open(j) == j.status \in {"queued", "delivered"}
Closed(j) == j.status \in {"none", "acked"}

\* Whom a revocation on its own does not wrong.
Cutworthy(a) == a.status # "active" \/ a.locked # NoTime \/ Expired(a)

\* One subscriber: the account, its two jobs and the secret on the router.
Shape(a) ==
    /\ a.status = "awaiting_payment" => a.paid = NoTime /\ a.expires = NoTime
    /\ a.paid # NoTime => a.expires = a.paid + grace
Untouched(a, J, s) ==
    a.status = "new" => /\ s = Absent /\ a.locked = NoTime
                        /\ J["upsert"].status = "none" /\ J["revoke"].status = "none"
Followed(a, J, s) ==
    Closed(J["upsert"]) /\ Closed(J["revoke"]) /\ a.locked = NoTime /\ s # Absent =>
        IF a.status = "active" THEN BoostOver(a) \/ s = SpeedOf(a) ELSE s \notin Plans
UserOK(a, J, s) ==
    /\ Shape(a) /\ Untouched(a, J, s) /\ ~J["revoke"].waiting
    /\ Open(J["revoke"]) /\ Closed(J["upsert"]) => Cutworthy(a)
    /\ Followed(a, J, s)

UsersInv == \A u \in Users : UserOK(acct[u], jobs[u], secret[u])

\* What is on the way was made of the present accounts.
Wanted(k) ==
    IF k[2] = "upsert" /\ Entitled(acct[k[1]]) THEN SpeedOf(acct[k[1]]) ELSE CutService(acct[k[1]])
JobAt(k) == jobs[k[1]][k[2]]
ScriptInv ==
    /\ \A l \in script : l.job \in Keys /\ l.service = Wanted(l.job) /\ JobAt(l.job).status = "delivered"
    /\ script # {} => \A u \in Users :
         Open(jobs[u]["revoke"]) => \E l \in script : l.job = <<u, "revoke">>
ReportInv ==
    /\ \A k \in report.ok \cup report.failed : k \in Keys /\ JobAt(k).status = "delivered"
    /\ \A k \in report.failed : k[2] # "revoke"
    /\ report # NoReport => \A u \in Users :
         Open(jobs[u]["revoke"]) => <<u, "revoke">> \in report.ok
    /\ \A u \in Users :
         /\ <<u, "upsert">> \in report.ok =>
              IF Entitled(acct[u]) THEN secret[u] = SpeedOf(acct[u]) ELSE secret[u] \notin Plans
         /\ <<u, "revoke">> \in report.ok /\ <<u, "upsert">> \notin report.ok => secret[u] \notin Plans
FlightInv ==
    /\ script = {} \/ report = NoReport
    /\ ~Idle => \A u \in Users : ~Lapsed(acct[u])
    /\ ScriptInv /\ ReportInv

RouterTypes ==
    /\ jobs \in [Users -> JobRows] /\ secret \in [Users -> Service]
    /\ report \in [ok : SUBSET Keys, failed : SUBSET Keys]
RouterInv == BillingInv /\ grace = DefaultGrace /\ RouterTypes /\ UsersInv /\ FlightInv

-----------------------------------------------------------------------------
(* What a payment does to the jobs                                          *)

LEMMA ConvertedFields ==
    ASSUME NEW a \in Account
    PROVE  LET e == Converted(a)
           IN  /\ e.locked = a.locked /\ e.boost = a.boost /\ e.boostEnd = a.boostEnd
               /\ PeriodsIn(a) = 0 => e = a
  <1>1. CASE PeriodsIn(a) = 0
    BY <1>1 DEF Converted
  <1>2. CASE PeriodsIn(a) # 0
    BY <1>2 DEF Converted, Account
  <1> QED BY <1>1, <1>2

LEMMA AsCreditFields ==
    ASSUME NEW a \in Account, NEW m
    PROVE  LET e == AsCredit(a, m)
           IN  /\ e.locked = a.locked /\ e.boost = a.boost /\ e.boostEnd = a.boostEnd
               /\ e.paid = a.paid
  BY DEF AsCredit, Account

\* Without days paid_until stays, and only a boost changes the boost.
LEMMA EffectFields ==
    ASSUME Days, NEW a, AccountOK(a), NEW m, IsMoney(m), m.purpose = "extension" => m.days > 0
    PROVE  LET e == Effect(a, m)
           IN  /\ e.locked = a.locked
               /\ Kind(a, m) # "boost" => e.boost = a.boost /\ e.boostEnd = a.boostEnd
               /\ DaysAdded(a, m) = 0 => e.paid = a.paid
               /\ DaysAdded(a, m) > 0 => e.paid = RenewFrom(a, PaidUntilOf(a)) + DaysAdded(a, m)
  <1>1. a \in Account /\ m.days \in Nat
    BY DEF AccountOK, IsMoney
  <1>2. CASE Kind(a, m) = "extension"
    <2>1. m.purpose = "extension" /\ DaysAdded(a, m) = m.days
      BY <1>2 DEF Kind, DaysAdded, TakesUpgrade, TakesBoost
    <2>2. Effect(a, m) = [a EXCEPT !.paid = RenewFrom(a, PaidUntilOf(a)) + m.days]
      BY <1>2 DEF Effect
    <2> QED BY <1>1, <2>1, <2>2 DEF Account
  <1>3. CASE Kind(a, m) = "upgrade"
    <2>1. DaysAdded(a, m) = 0
      BY <1>3 DEF DaysAdded
    <2>2. Effect(a, m) = [a EXCEPT !.credit = a.credit + m.amount - m.expected - m.fromCredit,
                                   !.plan = m.target, !.next = NoPlan]
      BY <1>3 DEF Effect
    <2> QED BY <1>1, <1>3, <2>1, <2>2 DEF Account
  <1>4. CASE Kind(a, m) = "boost"
    <2>1. DaysAdded(a, m) = 0
      BY <1>4 DEF DaysAdded
    <2> DEFINE end == (IF a.boost = m.target /\ a.boostEnd > now THEN a.boostEnd ELSE now) + 1
    <2>2. Effect(a, m) = [a EXCEPT !.credit = a.credit + m.amount - BoostPrice[m.target],
                                   !.boost = m.target, !.boostEnd = end]
      BY <1>4 DEF Effect
    <2> HIDE DEF end
    <2> QED BY <1>1, <1>4, <2>1, <2>2 DEF Account
  <1>5. CASE Kind(a, m) \notin {"extension", "upgrade", "boost"}
    <2> DEFINE c == AsCredit(a, m)
               n == PeriodsIn(c)
    <2>1. Effect(a, m) = IF ConvertsNow(a, m) THEN Converted(c) ELSE c
      BY <1>5 DEF Effect
    <2>2. /\ AccountOK(c) /\ c \in Account /\ c.locked = a.locked /\ c.boost = a.boost
          /\ c.boostEnd = a.boostEnd /\ c.paid = a.paid /\ c.expires = a.expires
      BY <1>1, MoneyBecomesCredit, AsCreditFields DEF AccountOK, Grown
    <2>3. Kind(a, m) = "pay"
      BY <1>5 DEF Kind, IsMoney
    <2>4. DaysAdded(a, m) = IF ConvertsNow(a, m) THEN Period * n ELSE 0
      BY <2>3 DEF DaysAdded
    <2>5. n \in Nat /\ Period \in Nat /\ Period > 0
      BY <2>2, PeriodsAreAffordable, PppoeAssumption
    <2>6. PaidUntilOf(c) = PaidUntilOf(a) /\ RenewFrom(c, PaidUntilOf(c)) = RenewFrom(a, PaidUntilOf(a))
      BY <2>2 DEF PaidUntilOf, RenewFrom, GraceOf
    <2>7. n # 0 => Converted(c).paid = RenewFrom(a, PaidUntilOf(a)) + n * Period
      BY <2>2, <2>6 DEF Converted, Account
    <2>8. /\ Converted(c).locked = a.locked /\ Converted(c).boost = a.boost
          /\ Converted(c).boostEnd = a.boostEnd /\ (n = 0 => Converted(c) = c)
      BY <2>2, ConvertedFields
    <2> HIDE DEF c, n
    <2>9. Period * n = n * Period /\ (n # 0 => n * Period > 0) /\ (n = 0 => n * Period = 0)
      BY <2>5
    <2> QED BY <2>1, <2>2, <2>4, <2>5, <2>7, <2>8, <2>9
  <1> QED BY <1>2, <1>3, <1>4, <1>5

Queues(a, m) == Applied(a, m).status = "active" /\ (DaysAdded(a, m) > 0 \/ Kicks(a, m))

\* Whoever is switched on by a payment, or was past the cut-off, gets a job; who
\* gets none is served as before.
LEMMA PaymentShows ==
    ASSUME Days, NEW a, AccountOK(a), Shape(a), a.status # "new",
           NEW m, IsMoney(m), m.purpose = "extension" => m.days > 0
    PROVE  LET b == Applied(a, m)
           IN  /\ Shape(b) /\ b.locked = a.locked
               /\ b.status = "active" /\ a.status # "active" => Queues(a, m) /\ ~Expired(b)
               /\ b.status # "active" => b.status = a.status /\ a.status # "active"
               /\ a.status = "active" /\ Expired(a) => Queues(a, m)
               /\ ~Queues(a, m) /\ b.status = "active" =>
                    a.status = "active" /\ b.plan = a.plan /\ b.boost = a.boost /\ b.boostEnd = a.boostEnd
  <1> DEFINE e == Effect(a, m)
             until == PaidUntilOf(e)
             cut == IF until = NoTime THEN NoTime ELSE until + grace
             c == WithCutOff(e, until)
             b == Applied(a, m)
             d == DaysAdded(a, m)
             on == /\ c.status # "disabled" /\ c.expires > now
                   /\ d > 0 \/ c.status \in {"awaiting_payment", "expired"} \/ m.purpose # "pay"
  <1>1. /\ a \in Account /\ e \in Account /\ e.status = a.status /\ e.expires = a.expires
        /\ d \in Nat /\ e.locked = a.locked
    BY EffectGrows, EffectFields DEF AccountOK, Grown
  <1>2. /\ a.paid \in Int /\ a.expires \in Int /\ e.paid \in Int /\ e.expires \in Int
        /\ now \in Nat /\ now > 0 /\ grace \in Nat /\ a.status \in Statuses
    BY <1>1 DEF Account, Days
  <1>3. /\ c.status = a.status /\ c.paid = until /\ c.expires = cut /\ c.locked = a.locked
        /\ c.plan = e.plan /\ c.boost = e.boost /\ c.boostEnd = e.boostEnd /\ c \in Account
    <2>1. until \in Int
      <3> HIDE DEF e
      <3> QED BY <1>2 DEF PaidUntilOf
    <2> HIDE DEF e, until
    <2>2. c = [e EXCEPT !.paid = until, !.expires = cut]
      BY DEF WithCutOff
    <2>3. cut \in Int
      BY <1>2, <2>1 DEF NoTime
    <2> HIDE DEF cut, c
    <2>4. c \in Account
      BY <1>1, <2>1, <2>2, <2>3 DEF Account
    <2>5. /\ c.status = e.status /\ c.paid = until /\ c.expires = cut /\ c.locked = e.locked
          /\ c.plan = e.plan /\ c.boost = e.boost /\ c.boostEnd = e.boostEnd
      BY <1>1, <2>2 DEF Account
    <2> QED BY <1>1, <2>4, <2>5
  <1>4. b = IF on THEN [c EXCEPT !.status = "active"] ELSE c
    BY DEF Applied
  <1>5. d = 0 => e.paid = a.paid
    BY EffectFields
  <1>6. d > 0 => e.paid = RenewFrom(a, PaidUntilOf(a)) + d
    BY EffectFields
  <1>7. /\ PaidUntilOf(a) = IF a.paid # 0 THEN a.paid ELSE a.expires
        /\ until = IF e.paid # 0 THEN e.paid ELSE e.expires
        /\ cut = IF until = 0 THEN 0 ELSE until + grace
        /\ RenewFrom(a, PaidUntilOf(a)) =
             IF PaidUntilOf(a) # 0 /\ PaidUntilOf(a) + GraceOf(a) > now THEN PaidUntilOf(a) ELSE now
    BY DEF PaidUntilOf, RenewFrom, NoTime
  <1> HIDE DEF e, c, until, cut
  <1>8. /\ b.status = IF on THEN "active" ELSE a.status
        /\ b.paid = until /\ b.expires = cut /\ b.locked = a.locked
        /\ b.plan = e.plan /\ b.boost = e.boost /\ b.boostEnd = e.boostEnd
    <2>1. /\ [c EXCEPT !.status = "active"].status = "active"
          /\ [c EXCEPT !.status = "active"].paid = c.paid
          /\ [c EXCEPT !.status = "active"].expires = c.expires
          /\ [c EXCEPT !.status = "active"].locked = c.locked
          /\ [c EXCEPT !.status = "active"].plan = c.plan
          /\ [c EXCEPT !.status = "active"].boost = c.boost
          /\ [c EXCEPT !.status = "active"].boostEnd = c.boostEnd
      BY <1>3 DEF Account
    <2> HIDE DEF on
    <2> QED BY <1>3, <1>4, <2>1
  <1> HIDE DEF b
  <1>9. a.status = "awaiting_payment" =>
          /\ d = 0 => until = 0 /\ cut = 0 /\ ~on
          /\ d > 0 => cut > now /\ on
    <2> SUFFICES ASSUME a.status = "awaiting_payment"
                 PROVE  /\ d = 0 => until = 0 /\ cut = 0 /\ ~on
                        /\ d > 0 => cut > now /\ on
      OBVIOUS
    <2>1. a.paid = 0 /\ a.expires = 0 /\ e.expires = 0
      BY <1>1 DEF Shape, NoTime
    <2>2. d = 0 => until = 0 /\ cut = 0
      BY <1>5, <1>7, <2>1
    <2>3. d > 0 => cut > now
      <3> SUFFICES ASSUME d > 0 PROVE cut > now
        OBVIOUS
      <3>1. RenewFrom(a, PaidUntilOf(a)) = now
        BY <1>7, <2>1
      <3>2. e.paid = now + d
        BY <1>6, <3>1
      <3> HIDE DEF d
      <3> QED BY <1>1, <1>2, <1>7, <3>2
    <2> QED BY <1>2, <1>3, <2>2, <2>3
  <1>10. Shape(b)
    <2>1. b.paid # 0 => b.expires = b.paid + grace
      BY <1>7, <1>8
    <2>2. b.status = "awaiting_payment" => b.paid = 0 /\ b.expires = 0
      <3> SUFFICES ASSUME b.status = "awaiting_payment" PROVE b.paid = 0 /\ b.expires = 0
        OBVIOUS
      <3>1. ~on /\ a.status = "awaiting_payment"
        BY <1>8
      <3>2. d = 0
        BY <1>1, <1>9, <3>1
      <3> QED BY <1>8, <1>9, <3>1, <3>2
    <2> QED BY <2>1, <2>2 DEF Shape, NoTime
  <1>11. WasCutOff(a) <=> a.status = "expired" \/ (PaidUntilOf(a) # 0 /\ PaidUntilOf(a) + GraceOf(a) <= now)
    BY DEF WasCutOff, AccessUntil, NoTime
  <1>12. b.status = "active" /\ WasCutOff(a) => Queues(a, m)
    BY DEF Queues, Kicks, b
  <1>13. on => b.status = "active" /\ cut > now /\ ~Expired(b)
    <2> SUFFICES ASSUME on PROVE b.status = "active" /\ cut > now /\ ~Expired(b)
      OBVIOUS
    <2>1. b.status = "active" /\ cut > now /\ b.expires = cut
      BY <1>3, <1>8
    <2>2. cut \in Int
      BY <1>2, <1>7
    <2> QED BY <1>2, <2>1, <2>2 DEF Expired
  <1>14. b.status = "active" /\ a.status # "active" => Queues(a, m) /\ ~Expired(b)
    <2> SUFFICES ASSUME b.status = "active", a.status # "active" PROVE Queues(a, m) /\ ~Expired(b)
      OBVIOUS
    <2>1. on /\ a.status \in {"awaiting_payment", "expired"}
      BY <1>2, <1>3, <1>8 DEF Statuses
    <2>2. a.status = "awaiting_payment" => d > 0
      BY <1>1, <1>9, <2>1
    <2>3. d > 0 => Queues(a, m)
      BY DEF Queues, b
    <2> QED BY <1>11, <1>12, <1>13, <2>1, <2>2, <2>3
  <1>15. b.status # "active" => b.status = a.status /\ a.status # "active"
    BY <1>8
  <1>16. a.status = "active" /\ Expired(a) => Queues(a, m)
    <2> SUFFICES ASSUME a.status = "active", Expired(a) PROVE Queues(a, m)
      OBVIOUS
    <2>1. a.expires # 0 /\ a.expires <= now
      BY DEF Expired, NoTime
    <2>2. CASE a.paid # 0
      <3>1. PaidUntilOf(a) = a.paid /\ GraceOf(a) = grace /\ a.expires = a.paid + grace
        BY <1>7, <2>2 DEF GraceOf, Shape, NoTime
      <3> QED BY <1>8, <1>11, <1>12, <2>1, <2>2, <3>1
    <2>3. CASE a.paid = 0
      <3>1. PaidUntilOf(a) = a.expires /\ GraceOf(a) = 0
        BY <1>7, <2>3 DEF GraceOf, NoTime
      <3>2. PaidUntilOf(a) + GraceOf(a) <= now
        BY <1>2, <2>1, <3>1
      <3> QED BY <1>8, <1>11, <1>12, <2>1, <3>1, <3>2
    <2> QED BY <2>2, <2>3
  <1>17. ~Queues(a, m) /\ b.status = "active" =>
           a.status = "active" /\ b.plan = a.plan /\ b.boost = a.boost /\ b.boostEnd = a.boostEnd
    <2> SUFFICES ASSUME ~Queues(a, m), b.status = "active"
                 PROVE  a.status = "active" /\ b.plan = a.plan /\ b.boost = a.boost /\ b.boostEnd = a.boostEnd
      OBVIOUS
    <2>1. ~Kicks(a, m)
      BY DEF Queues, b
    <2>2. Kind(a, m) # "boost" /\ b.plan = a.plan
      BY <2>1 DEF Kicks, b
    <2>3. e.boost = a.boost /\ e.boostEnd = a.boostEnd
      BY <2>2, EffectFields DEF e
    <2> QED BY <1>8, <1>14, <2>2, <2>3
  <1>18. b.locked = a.locked
    BY <1>8
  <1> QED BY <1>10, <1>14, <1>15, <1>16, <1>17, <1>18 DEF b

-----------------------------------------------------------------------------
(* One subscriber's step                                                    *)

LEMMA QueuedRow ==
    ASSUME NEW J \in JobRows, NEW a, NEW action \in JobActions, NEW kick \in BOOLEAN
    PROVE  LET J2 == JobFor(J, a, action, kick)
               real == IF Expired(a) THEN "revoke" ELSE action
           IN  /\ J2 \in JobRows /\ Open(J2[real])
               /\ ~J["revoke"].waiting => ~J2["revoke"].waiting
  <1> DEFINE real == IF Expired(a) THEN "revoke" ELSE action
             r == Requeued(J[real], kick)
             J2 == JobFor(J, a, action, kick)
  <1>1. real \in JobActions
    BY DEF JobActions
  <1>2. J2 = [J EXCEPT ![real] = r]
    BY <1>1 DEF JobFor, JobRows
  <1> HIDE DEF real
  <1>3. J[real] \in Job
    BY <1>1 DEF JobRows
  <1>4. Queued(kick) \in Job /\ Open(Queued(kick)) /\ ~Queued(kick).waiting
    BY DEF Queued, Job, Open
  <1>5. r \in Job /\ Open(r) /\ (~J[real].waiting => ~r.waiting)
    <2> DEFINE j == J[real]
    <2>1. j \in Job
      BY <1>3
    <2> HIDE DEF j
    <2>2. CASE j.status = "queued"
      <3> DEFINE k == j.kick \/ kick
      <3>1. Requeued(j, kick) = [j EXCEPT !.kick = k]
        BY <2>2 DEF Requeued
      <3>2. k \in BOOLEAN
        BY DEF Job
      <3> HIDE DEF k
      <3>3. [j EXCEPT !.kick = k] \in Job
        BY <2>1, <3>2 DEF Job
      <3>4. [j EXCEPT !.kick = k].status = j.status /\ [j EXCEPT !.kick = k].waiting = j.waiting
        BY <2>1 DEF Job
      <3> QED BY <2>2, <3>1, <3>3, <3>4 DEF Open, j
    <2>3. CASE j.status = "delivered" /\ ~kick
      <3>1. Requeued(j, kick) = j
        BY <2>3 DEF Requeued
      <3> QED BY <2>1, <2>3, <3>1 DEF Open, j
    <2>4. CASE j.status # "queued" /\ ~(j.status = "delivered" /\ ~kick)
      <3>1. Requeued(j, kick) = Queued(kick)
        BY <2>4 DEF Requeued
      <3> QED BY <1>4, <3>1 DEF j
    <2> QED BY <2>2, <2>3, <2>4
  <1> HIDE DEF r
  <1>6. J2 \in JobRows /\ J2[real] = r /\ \A x \in JobActions : x # real => J2[x] = J[x]
    BY <1>1, <1>2, <1>5 DEF JobRows
  <1>7. ~J["revoke"].waiting => ~J2["revoke"].waiting
    BY <1>5, <1>6 DEF JobActions
  <1> QED BY <1>5, <1>6, <1>7 DEF real

\* A row that was just queued leaves nothing to show but the row itself.
LEMMA QueuedIsOK ==
    ASSUME NEW a, NEW J, NEW s, Shape(a), a.status # "new", ~J["revoke"].waiting,
           Open(J["upsert"]) \/ (Open(J["revoke"]) /\ Cutworthy(a))
    PROVE  UserOK(a, J, s)
  BY DEF UserOK, Untouched, Followed, Open, Closed

LEMMA JobForIsOK ==
    ASSUME NEW a, NEW J \in JobRows, NEW s, Shape(a), a.status # "new", ~J["revoke"].waiting,
           NEW action \in JobActions, NEW kick \in BOOLEAN, action = "revoke" => Cutworthy(a)
    PROVE  LET J2 == JobFor(J, a, action, kick)
           IN  J2 \in JobRows /\ UserOK(a, J2, s)
  <1> DEFINE J2 == JobFor(J, a, action, kick)
  <1>1. /\ J2 \in JobRows /\ ~J2["revoke"].waiting
        /\ IF Expired(a) THEN Open(J2["revoke"]) ELSE Open(J2[action])
    BY QueuedRow
  <1>2. Open(J2["upsert"]) \/ (Open(J2["revoke"]) /\ Cutworthy(a))
    BY <1>1 DEF Cutworthy, JobActions
  <1> HIDE DEF J2
  <1>3. UserOK(a, J2, s)
    BY <1>1, <1>2, QueuedIsOK
  <1> QED BY <1>1, <1>3 DEF J2

LEMMA SameUser ==
    ASSUME NEW a, NEW b, NEW J, NEW s, UserOK(a, J, s),
           b.status = a.status, b.paid = a.paid, b.expires = a.expires, b.locked = a.locked,
           a.status = "active" => b.plan = a.plan /\ b.boost = a.boost /\ b.boostEnd = a.boostEnd
    PROVE  UserOK(b, J, s)
  BY DEF UserOK, Shape, Untouched, Followed, Cutworthy, Expired, BoostOver, SpeedOf

\* Jobs that are open, done and given up as before.
SameStates(J, J2) ==
    /\ ~J["revoke"].waiting => ~J2["revoke"].waiting
    /\ \A x \in JobActions :
         /\ Open(J2[x]) <=> Open(J[x])
         /\ Closed(J2[x]) <=> Closed(J[x])
         /\ J2[x].status = "none" <=> J[x].status = "none"

LEMMA SameJobs ==
    ASSUME NEW a, NEW J, NEW J2, NEW s, UserOK(a, J, s), SameStates(J, J2)
    PROVE  UserOK(a, J2, s)
  <1>1. /\ Open(J2["upsert"]) <=> Open(J["upsert"])
        /\ Closed(J2["upsert"]) <=> Closed(J["upsert"])
        /\ J2["upsert"].status = "none" <=> J["upsert"].status = "none"
        /\ Open(J2["revoke"]) <=> Open(J["revoke"])
        /\ Closed(J2["revoke"]) <=> Closed(J["revoke"])
        /\ J2["revoke"].status = "none" <=> J["revoke"].status = "none"
    BY DEF SameStates, JobActions
  <1>2. ~J2["revoke"].waiting
    BY DEF SameStates, UserOK
  <1> QED BY <1>1, <1>2 DEF UserOK, Untouched, Followed

LEMMA UsersNext ==
    ASSUME now' = now, grace' = grace,
           \A v \in Users : UserOK(acct'[v], jobs'[v], secret'[v])
    PROVE  UsersInv'
  BY DEF UsersInv, UserOK, Shape, Untouched, Followed, Cutworthy, Expired, BoostOver, SpeedOf,
         Open, Closed

Moved == jobs' \in [Users -> JobRows] /\ UsersInv'

LEMMA OneUser ==
    ASSUME RouterInv, NEW u \in Users, NEW b, NEW J \in JobRows, UserOK(b, J, secret[u]),
           acct' = [acct EXCEPT ![u] = b], jobs' = [jobs EXCEPT ![u] = J],
           UNCHANGED <<now, grace, secret>>
    PROVE  Moved
  <1>1. acct \in [Users -> Account] /\ jobs \in [Users -> JobRows]
    BY DEF RouterInv, BillingInv, AccountsOK, RouterTypes
  <1>2. \A v \in Users : UserOK(acct[v], jobs[v], secret[v])
    BY DEF RouterInv, UsersInv
  <1>3. \A v \in Users :
          /\ acct'[v] = IF v = u THEN b ELSE acct[v]
          /\ jobs'[v] = IF v = u THEN J ELSE jobs[v]
    BY <1>1
  <1>4. \A v \in Users : UserOK(acct'[v], jobs'[v], secret'[v])
    BY <1>2, <1>3
  <1>5. jobs' \in [Users -> JobRows]
    BY <1>1
  <1> QED BY <1>4, <1>5, UsersNext DEF Moved

LEMMA NobodyMoves ==
    ASSUME RouterInv, UNCHANGED <<now, grace, acct, jobs, secret>> PROVE Moved
  BY UsersNext DEF RouterInv, UsersInv, RouterTypes, Moved

LEMMA TheirState ==
    ASSUME RouterInv, NEW u \in Users
    PROVE  /\ acct[u] \in Account /\ AccountOK(acct[u]) /\ jobs[u] \in JobRows /\ secret[u] \in Service
           /\ UserOK(acct[u], jobs[u], secret[u]) /\ Shape(acct[u]) /\ ~jobs[u]["revoke"].waiting
           /\ Days /\ acct \in [Users -> Account] /\ jobs \in [Users -> JobRows]
           /\ acct[u].locked # NoTime => acct[u].status # "new"
  BY DEF RouterInv, BillingInv, AccountsOK, RouterTypes, UsersInv, UserOK, Untouched

-----------------------------------------------------------------------------
(* What the server does, and the job it leaves                              *)

LEMMA PaymentMoves ==
    ASSUME RouterInv, NEW u \in Users, Exists(u), NEW m, IsMoney(m),
           m.purpose = "extension" => m.days > 0, NEW receipt, NEW tx,
           ApplyPayment(u, m, receipt, tx), UNCHANGED <<now, grace, secret>>
    PROVE  Moved
  <1> DEFINE a == acct[u]
             b == Applied(a, m)
             J == jobs[u]
             s == secret[u]
  <1>1. /\ AccountOK(a) /\ Shape(a) /\ a.status # "new" /\ J \in JobRows /\ UserOK(a, J, s)
        /\ ~J["revoke"].waiting /\ Days /\ jobs \in [Users -> JobRows]
    BY TheirState DEF Exists
  <1>2. AccountOK(b) /\ b.status # "new"
    BY <1>1, AppliedGrows
  <1>3. /\ Shape(b) /\ b.locked = a.locked
        /\ b.status # "active" => b.status = a.status /\ a.status # "active"
        /\ a.status = "active" /\ Expired(a) => Queues(a, m)
        /\ ~Queues(a, m) /\ b.status = "active" =>
             a.status = "active" /\ b.plan = a.plan /\ b.boost = a.boost /\ b.boostEnd = a.boostEnd
    BY <1>1, PaymentShows
  <1>4. acct' = [acct EXCEPT ![u] = b]
    BY DEF ApplyPayment
  <1>5. CASE Queues(a, m)
    <2> DEFINE J2 == JobFor(J, b, "upsert", Kicks(a, m))
    <2>1. jobs' = [jobs EXCEPT ![u] = J2]
      BY <1>1, <1>5 DEF ApplyPayment, Queues
    <2>2. Kicks(a, m) \in BOOLEAN
      BY DEF Kicks
    <2> HIDE DEF a, b, J, s
    <2>3. J2 \in JobRows /\ UserOK(b, J2, s)
      BY <1>1, <1>2, <1>3, <2>2, JobForIsOK DEF JobActions
    <2> HIDE DEF J2
    <2>4. UserOK(b, J2, secret[u])
      BY <2>3 DEF s
    <2> QED BY <1>4, <2>1, <2>3, <2>4, OneUser
  <1>6. CASE ~Queues(a, m)
    <2>1. jobs' = jobs
      BY <1>6 DEF ApplyPayment, Queues
    <2>2. jobs' = [jobs EXCEPT ![u] = J]
      BY <1>1, <2>1
    <2> HIDE DEF b
    <2>3. Cutworthy(a) => Cutworthy(b)
      BY <1>3, <1>6 DEF Cutworthy
    <2>4. Followed(a, J, s) => Followed(b, J, s)
      BY <1>3, <1>6 DEF Followed, BoostOver, SpeedOf
    <2>5. UserOK(b, J, s)
      BY <1>1, <1>2, <1>3, <2>3, <2>4 DEF UserOK, Untouched
    <2> QED BY <1>1, <1>4, <2>2, <2>5, OneUser
  <1> QED BY <1>5, <1>6

LEMMA EditMoves ==
    ASSUME RouterInv, NEW u \in Users,
           \/ Provision(u) \/ Lock(u) \/ Unlock(u) \/ EndBoost(u)
           \/ \E p \in Plans : MoveToPlan(u, p) \/ BookPlan(u, p),
           UNCHANGED secret
    PROVE  Moved
  <1> DEFINE a == acct[u]
             J == jobs[u]
             s == secret[u]
  <1>1. /\ a \in Account /\ Shape(a) /\ J \in JobRows /\ UserOK(a, J, s) /\ ~J["revoke"].waiting
        /\ acct \in [Users -> Account] /\ jobs \in [Users -> JobRows]
        /\ a.locked # NoTime => a.status # "new"
    BY TheirState
  <1>2. now' = now /\ grace' = grace /\ now + 1 \in Nat /\ now + 1 # NoTime
    <2>1. now \in Nat
      BY TheirState DEF Days
    <2>2. now' = now /\ grace' = grace
      BY DEF Provision, Lock, Unlock, EndBoost, MoveToPlan, BookPlan
    <2> QED BY <2>1, <2>2 DEF NoTime
  <1>3. ASSUME NEW b, NEW action \in JobActions, NEW kick \in BOOLEAN, action = "revoke" => Cutworthy(b),
               Shape(b), b.status # "new", acct' = [acct EXCEPT ![u] = b],
               jobs' = [jobs EXCEPT ![u] = JobFor(J, b, action, kick)]
        PROVE  Moved
    <2> DEFINE J2 == JobFor(J, b, action, kick)
    <2>1. J2 \in JobRows /\ UserOK(b, J2, s)
      <3> HIDE DEF J, s
      <3> QED BY <1>1, <1>3, JobForIsOK
    <2>2. jobs' = [jobs EXCEPT ![u] = J2] /\ UserOK(b, J2, secret[u])
      BY <1>3, <2>1
    <2> HIDE DEF J2
    <2> QED BY <1>2, <1>3, <2>1, <2>2, OneUser
  <1>4. ASSUME NEW b, UserOK(b, J, s), acct' = [acct EXCEPT ![u] = b], jobs' = jobs
        PROVE  Moved
    <2>1. jobs' = [jobs EXCEPT ![u] = J]
      BY <1>1, <1>4
    <2> QED BY <1>1, <1>2, <1>4, <2>1, OneUser
  <1>5. CASE Provision(u)
    <2>1. /\ acct' = [acct EXCEPT ![u] = a] /\ a.status # "new"
          /\ jobs' = [jobs EXCEPT ![u] = JobFor(J, a, "upsert", FALSE)]
      BY <1>1, <1>5 DEF Provision, Exists
    <2> QED BY <1>1, <1>3, <2>1 DEF JobActions
  <1>6. CASE Lock(u)
    <2> DEFINE b == [a EXCEPT !.locked = now + 1]
    <2>1. /\ b.status = a.status /\ b.paid = a.paid /\ b.expires = a.expires /\ b.locked = now + 1
      BY <1>1 DEF Account
    <2>2. acct' = [acct EXCEPT ![u] = b] /\ a.status # "new"
      BY <1>1, <1>6 DEF Lock, Exists
    <2>3. jobs' = [jobs EXCEPT ![u] = JobFor(J, a, "revoke", FALSE)]
      BY <1>1, <1>6 DEF Lock
    <2> HIDE DEF a, b
    <2>4. JobFor(J, a, "revoke", FALSE) = JobFor(J, b, "revoke", FALSE)
      BY <2>1 DEF JobFor, Expired
    <2>5. Shape(b) /\ Cutworthy(b) /\ b.status # "new"
      BY <1>1, <1>2, <2>1, <2>2 DEF Shape, Cutworthy
    <2>6. jobs' = [jobs EXCEPT ![u] = JobFor(J, b, "revoke", FALSE)]
      BY <2>3, <2>4
    <2> QED BY <1>3, <2>2, <2>5, <2>6 DEF JobActions
  <1>7. CASE Unlock(u)
    <2> DEFINE b == [a EXCEPT !.locked = NoTime]
    <2>1. /\ b.status = a.status /\ b.paid = a.paid /\ b.expires = a.expires
      BY <1>1 DEF Account
    <2>2. acct' = [acct EXCEPT ![u] = b] /\ a.status # "new"
      BY <1>1, <1>7 DEF Unlock
    <2>3. jobs' = [jobs EXCEPT ![u] = JobFor(J, a, "upsert", FALSE)]
      BY <1>1, <1>7 DEF Unlock
    <2> HIDE DEF a, b
    <2>4. JobFor(J, a, "upsert", FALSE) = JobFor(J, b, "upsert", FALSE)
      BY <2>1 DEF JobFor, Expired
    <2>5. Shape(b) /\ b.status # "new"
      BY <1>1, <2>1, <2>2 DEF Shape
    <2>6. jobs' = [jobs EXCEPT ![u] = JobFor(J, b, "upsert", FALSE)]
      BY <2>3, <2>4
    <2> QED BY <1>3, <2>2, <2>5, <2>6 DEF JobActions
  <1>8. CASE EndBoost(u)
    <2> DEFINE b == [a EXCEPT !.boost = NoPlan, !.boostEnd = NoTime]
    <2>1. /\ b.status = a.status /\ b.paid = a.paid /\ b.expires = a.expires /\ b.locked = a.locked
      BY <1>1 DEF Account
    <2>2. acct' = [acct EXCEPT ![u] = b]
      BY <1>1, <1>8 DEF EndBoost
    <2>3. acct'[u] = b
      BY <1>1, <2>2
    <2>4. CASE a.status = "active"
      <3>1. jobs' = [jobs EXCEPT ![u] = JobFor(J, b, "upsert", TRUE)]
        BY <1>1, <1>8, <2>3, <2>4 DEF EndBoost
      <3> HIDE DEF a, b
      <3>2. Shape(b) /\ b.status # "new"
        BY <1>1, <2>1, <2>4 DEF Shape
      <3> QED BY <1>3, <2>2, <3>1, <3>2 DEF JobActions
    <2>5. CASE a.status # "active"
      <3>1. jobs' = jobs
        BY <1>8, <2>5 DEF EndBoost
      <3> HIDE DEF a, b
      <3>2. UserOK(b, J, s)
        BY <1>1, <2>1, <2>5, SameUser
      <3> QED BY <1>4, <2>2, <3>1, <3>2
    <2> QED BY <2>4, <2>5
  <1>9. ASSUME NEW p \in Plans, MoveToPlan(u, p) PROVE Moved
    <2> DEFINE b == [a EXCEPT !.plan = p]
    <2>1. /\ b.status = a.status /\ b.paid = a.paid /\ b.expires = a.expires /\ b.locked = a.locked
      BY <1>1 DEF Account
    <2>2. acct' = [acct EXCEPT ![u] = b]
      BY <1>1, <1>9 DEF MoveToPlan
    <2>3. CASE a.status = "active"
      <3>1. jobs' = [jobs EXCEPT ![u] = JobFor(J, a, "upsert", TRUE)]
        BY <1>1, <1>9, <2>3 DEF MoveToPlan
      <3> HIDE DEF a, b
      <3>2. JobFor(J, a, "upsert", TRUE) = JobFor(J, b, "upsert", TRUE)
        BY <2>1 DEF JobFor, Expired
      <3>3. Shape(b) /\ b.status # "new"
        BY <1>1, <2>1, <2>3 DEF Shape
      <3>4. jobs' = [jobs EXCEPT ![u] = JobFor(J, b, "upsert", TRUE)]
        BY <3>1, <3>2
      <3> QED BY <1>3, <2>2, <3>3, <3>4 DEF JobActions
    <2>4. CASE a.status # "active"
      <3>1. jobs' = jobs
        BY <1>9, <2>4 DEF MoveToPlan
      <3> HIDE DEF a, b
      <3>2. UserOK(b, J, s)
        BY <1>1, <2>1, <2>4, SameUser
      <3> QED BY <1>4, <2>2, <3>1, <3>2
    <2> QED BY <2>3, <2>4
  <1>10. ASSUME NEW p \in Plans, BookPlan(u, p) PROVE Moved
    <2> DEFINE q == IF p = a.plan THEN NoPlan ELSE p
               b == [a EXCEPT !.next = q]
    <2>1. acct' = [acct EXCEPT ![u] = b] /\ jobs' = jobs
      BY <1>1, <1>10 DEF BookPlan
    <2>2. /\ b.status = a.status /\ b.paid = a.paid /\ b.expires = a.expires /\ b.locked = a.locked
          /\ b.plan = a.plan /\ b.boost = a.boost /\ b.boostEnd = a.boostEnd
      BY <1>1 DEF Account
    <2> HIDE DEF a, b
    <2>3. UserOK(b, J, s)
      BY <1>1, <2>2, SameUser
    <2> QED BY <1>4, <2>1, <2>3
  <1> QED BY <1>5, <1>6, <1>7, <1>8, <1>9, <1>10

LEMMA ToggleMoves ==
    ASSUME RouterInv, NEW u \in Users, AdminToggle(u), UNCHANGED secret PROVE Moved
  <1> DEFINE a == acct[u]
             J == jobs[u]
             s == secret[u]
             on == a.status # "active"
             action == IF on THEN "upsert" ELSE "revoke"
             status == IF on THEN "active" ELSE "disabled"
             b == [a EXCEPT !.status = status]
             row == Queued(J[action].kick)
             J2 == [J EXCEPT ![action] = row]
  <1>1. /\ a \in Account /\ Shape(a) /\ J \in JobRows /\ ~J["revoke"].waiting
        /\ acct \in [Users -> Account] /\ jobs \in [Users -> JobRows]
    BY TheirState
  <1>2. now' = now /\ grace' = grace
    BY DEF AdminToggle
  <1>3. acct' = [acct EXCEPT ![u] = b] /\ jobs' = [jobs EXCEPT ![u] = J2]
    BY <1>1 DEF AdminToggle, JobActions
  <1>4. /\ b.status = status /\ b.paid = a.paid /\ b.expires = a.expires
    BY <1>1 DEF Account
  <1>5. action \in JobActions /\ J[action].kick \in BOOLEAN
    <2>1. action \in JobActions
      BY DEF JobActions
    <2> HIDE DEF action
    <2>2. J[action] \in Job
      BY <1>1, <2>1 DEF JobRows
    <2>3. J[action].kick \in BOOLEAN
      BY <2>2 DEF Job
    <2> QED BY <2>1, <2>3
  <1>6. row \in Job /\ Open(row) /\ ~row.waiting
    BY <1>5 DEF Queued, Job, Open
  <1> HIDE DEF b, row
  <1>7. J2 \in JobRows /\ J2[action] = row /\ ~J2["revoke"].waiting
    BY <1>1, <1>5, <1>6 DEF JobRows, JobActions
  <1> HIDE DEF J2
  <1>8. Shape(b) /\ b.status # "new"
    BY <1>1, <1>4 DEF Shape
  <1>9. Open(J2["upsert"]) \/ (Open(J2["revoke"]) /\ Cutworthy(b))
    BY <1>4, <1>6, <1>7 DEF Cutworthy
  <1>10. UserOK(b, J2, secret[u])
    BY <1>7, <1>8, <1>9, QueuedIsOK
  <1> QED BY <1>2, <1>3, <1>7, <1>10, OneUser

LEMMA CreateMoves ==
    ASSUME RouterInv, NEW u \in Users, NEW p \in Plans, NEW until \in Dates, Create(u, p, until),
           UNCHANGED secret
    PROVE  Moved
  <1> DEFINE a == acct[u]
             J == jobs[u]
             status == IF Billed(p) /\ until = NoTime THEN "awaiting_payment" ELSE "active"
             paid == IF Billed(p) THEN until ELSE NoTime
             expires == IF Billed(p) /\ until # NoTime THEN until + grace ELSE until
             b == [a EXCEPT !.plan = p, !.install = InstallFee, !.status = status,
                            !.paid = paid, !.expires = expires]
  <1>1. /\ a \in Account /\ J \in JobRows /\ UserOK(a, J, secret[u])
        /\ acct \in [Users -> Account] /\ jobs \in [Users -> JobRows]
    BY TheirState
  <1>2. now' = now /\ grace' = grace /\ jobs' = [jobs EXCEPT ![u] = J] /\ acct' = [acct EXCEPT ![u] = b]
        /\ a.status = "new"
    BY <1>1 DEF Create
  <1>3. /\ b.status = status /\ b.paid = paid /\ b.expires = expires
    BY <1>1 DEF Account
  <1> HIDE DEF b
  <1>4. Shape(b)
    BY <1>3 DEF Shape
  <1>5. J["upsert"].status = "none" /\ J["revoke"].status = "none" /\ secret[u] = Absent
        /\ ~J["revoke"].waiting
    BY <1>1, <1>2 DEF UserOK, Untouched
  <1>6. UserOK(b, J, secret[u])
    BY <1>3, <1>4, <1>5 DEF UserOK, Untouched, Followed, Open
  <1> QED BY <1>1, <1>2, <1>6, OneUser

\* A reversal leaves the cut-off where the grace puts it.
LEMMA ReversedShape ==
    ASSUME Days, NEW a, AccountOK(a), Shape(a), NEW row \in Row PROVE Shape(Reversed(a, row))
  <1> DEFINE paid == IF PaidUntilOf(a) = NoTime THEN NoTime ELSE PaidUntilOf(a) - row.days
             cut == IF paid = NoTime THEN NoTime ELSE paid + grace
             back == a.credit - (row.creditAfter - row.creditBefore)
             credit == IF back > 0 THEN back ELSE 0
             install == a.install + row.toInstall
             plan == IF row.kind = "upgrade" /\ a.plan = row.planAfter THEN row.planBefore ELSE a.plan
             boostEnd == IF row.kind = "boost" THEN row.boostBefore ELSE a.boostEnd
             boost == IF row.kind = "boost" /\ row.boostBefore = NoTime THEN NoPlan ELSE a.boost
             e == [a EXCEPT !.credit = credit, !.install = install, !.plan = plan,
                            !.boostEnd = boostEnd, !.boost = boost]
             b == [e EXCEPT !.paid = paid, !.expires = cut]
  <1>1. a \in Account
    BY DEF AccountOK
  <1>2. Reversed(a, row) = IF Expired(b) /\ b.status = "active" THEN [b EXCEPT !.status = "expired"] ELSE b
    BY DEF Reversed, WithCutOff
  <1>3. a.status = "awaiting_payment" => paid = NoTime /\ cut = NoTime
    BY DEF Shape, PaidUntilOf
  <1>4. paid # NoTime => cut = paid + grace
    OBVIOUS
  <1> HIDE DEF paid, cut, credit, install, plan, boostEnd, boost
  <1>5. b.status = a.status /\ b.paid = paid /\ b.expires = cut
    BY <1>1 DEF Account
  <1>6. /\ [b EXCEPT !.status = "expired"].status = "expired"
        /\ [b EXCEPT !.status = "expired"].paid = paid
        /\ [b EXCEPT !.status = "expired"].expires = cut
    BY <1>1 DEF Account
  <1> HIDE DEF b
  <1> QED BY <1>2, <1>3, <1>4, <1>5, <1>6 DEF Shape

LEMMA ReverseMoves ==
    ASSUME RouterInv, NEW t \in DOMAIN txs, Reverse(t), UNCHANGED secret PROVE Moved
  <1>1. now' = now /\ grace' = grace
    BY DEF Reverse
  <1>2. CASE acct' = acct /\ jobs' = jobs
    BY <1>1, <1>2, NobodyMoves
  <1>3. CASE ~(acct' = acct /\ jobs' = jobs)
    <2>1. PICK i \in DOMAIN payments :
            LET u == payments[i].user IN
            /\ acct' = [acct EXCEPT ![u] = Reversed(@, payments[i])]
            /\ jobs' = [jobs EXCEPT ![u] =
                 JobFor(@, acct'[u], IF Expired(acct'[u]) THEN "revoke" ELSE "upsert", ~Expired(acct'[u]))]
      BY <1>3 DEF Reverse
    <2> DEFINE u == payments[i].user
               a == acct[u]
               J == jobs[u]
               row == payments[i]
               b == Reversed(a, row)
               action == IF Expired(b) THEN "revoke" ELSE "upsert"
               kick == ~Expired(b)
               J2 == JobFor(J, b, action, kick)
    <2>2. row \in Row /\ u \in Users /\ a.status # "new"
      BY TheirUsers DEF RouterInv, Exists
    <2>3. /\ AccountOK(a) /\ Shape(a) /\ J \in JobRows /\ ~J["revoke"].waiting /\ Days
          /\ acct \in [Users -> Account] /\ jobs \in [Users -> JobRows]
      BY <2>2, TheirState
    <2>4. acct' = [acct EXCEPT ![u] = b] /\ acct'[u] = b
      BY <2>1, <2>2, <2>3
    <2>5. jobs' = [jobs EXCEPT ![u] = J2]
      BY <2>1, <2>2, <2>3, <2>4
    <2>6. Shape(b) /\ b.status # "new"
      <3> HIDE DEF a, row
      <3> QED BY <2>2, <2>3, ReversedShape, ReversedIsOK
    <2>7. action \in JobActions /\ kick \in BOOLEAN /\ (action = "revoke" => Cutworthy(b))
      BY DEF JobActions, Cutworthy
    <2> HIDE DEF action, kick, b, J, a
    <2>8. J2 \in JobRows /\ UserOK(b, J2, secret[u])
      BY <2>3, <2>6, <2>7, JobForIsOK
    <2> HIDE DEF J2, u
    <2> QED BY <1>1, <2>2, <2>4, <2>5, <2>8, OneUser
  <1> QED BY <1>2, <1>3

LEMMA SettleMoves ==
    ASSUME RouterInv, NEW t \in DOMAIN txs, NEW known \in BOOLEAN, Settle(t, known),
           UNCHANGED <<now, grace, secret>>
    PROVE  Moved
  <1> DEFINE x == txs[t]
             receipt == IF known THEN t ELSE 0
             m == Money(x.purpose, x.target, x.amount,
                        IF x.source = "stk" THEN x.amount ELSE 0, x.fromCredit, 0)
  <1>1. CASE HasCheckout(t) \/ HasReceipt(receipt)
    <2>1. acct' = acct /\ jobs' = jobs
      BY <1>1 DEF Settle
    <2> QED BY <2>1, NobodyMoves
  <1>2. CASE ~(HasCheckout(t) \/ HasReceipt(receipt))
    <2>1. ApplyPayment(x.user, m, receipt, t)
      BY <1>2 DEF Settle
    <2>2. x \in Prompted /\ x.user \in Users /\ Exists(x.user)
      BY TheirUsers DEF RouterInv
    <2>3. /\ x.purpose \in {"pay", "upgrade", "boost"} /\ x.target \in Plans \cup {NoPlan}
          /\ x.amount \in Nat /\ x.fromCredit \in Int
      BY <2>2 DEF Prompted
    <2>4. IsMoney(m) /\ m.purpose # "extension"
      BY <2>3 DEF IsMoney, Money
    <2> HIDE DEF x, m, receipt
    <2> QED BY <2>1, <2>2, <2>4, PaymentMoves
  <1> QED BY <1>1, <1>2

LEMMA MoneyMoves ==
    ASSUME RouterInv, UNCHANGED secret,
           \/ \E u \in Users, amount \in Amounts, r \in 0..MaxPrompts : RecordPayment(u, amount, r)
           \/ \E u \in Users : Extend(u, 1) \/ RenewFromCredit(u)
           \/ \E u \in Users, p \in Plans : UpgradeFromCredit(u, p)
           \/ \E u \in Users, amount \in Amounts, reach \in Reach : PayBill(u, amount, reach)
           \/ \E t \in DOMAIN txs, known \in BOOLEAN, reach \in Reach : Bank(t, known, reach)
           \/ \E t \in DOMAIN txs : SettleAgain(t)
    PROVE  Moved
  <1>1. ASSUME NEW amount \in Nat PROVE IsMoney(Plain(amount)) /\ Plain(amount).purpose # "extension"
    BY DEF IsMoney, Plain, Money
  <1>2. ASSUME NEW u \in Users, NEW amount \in Amounts, NEW r \in 0..MaxPrompts, RecordPayment(u, amount, r)
        PROVE  Moved
    <2>1. amount \in Nat
      BY PppoeAssumption
    <2>2. Exists(u) /\ ApplyPayment(u, Plain(amount), r, 0) /\ now' = now /\ grace' = grace
      BY <1>2 DEF RecordPayment
    <2> QED BY <1>1, <2>1, <2>2, PaymentMoves
  <1>3. ASSUME NEW u \in Users, Extend(u, 1) PROVE Moved
    <2> DEFINE m == Money("extension", NoPlan, 0, 0, 0, 1)
    <2>1. IsMoney(m) /\ m.days > 0
      BY DEF IsMoney, Money
    <2>2. Exists(u) /\ ApplyPayment(u, m, 0, 0) /\ now' = now /\ grace' = grace
      BY <1>3 DEF Extend
    <2> HIDE DEF m
    <2> QED BY <2>1, <2>2, PaymentMoves
  <1>4. ASSUME NEW u \in Users, RenewFromCredit(u) PROVE Moved
    <2>1. Exists(u) /\ ApplyPayment(u, Plain(0), 0, 0) /\ now' = now /\ grace' = grace
      BY <1>4 DEF RenewFromCredit, Exists
    <2> QED BY <1>1, <2>1, PaymentMoves
  <1>5. ASSUME NEW u \in Users, NEW p \in Plans, UpgradeFromCredit(u, p) PROVE Moved
    <2> DEFINE m == Money("upgrade", p, 0, 0, Difference(acct[u], p), 0)
    <2>1. IsMoney(m) /\ m.purpose # "extension"
      BY DifferenceIsAnAmount DEF IsMoney, Money, RouterInv
    <2>2. Exists(u) /\ ApplyPayment(u, m, 0, 0) /\ now' = now /\ grace' = grace
      BY <1>5 DEF UpgradeFromCredit
    <2> HIDE DEF m
    <2> QED BY <2>1, <2>2, PaymentMoves
  <1>6. ASSUME NEW u \in Users, NEW amount \in Amounts, NEW reach \in Reach, PayBill(u, amount, reach)
        PROVE  Moved
    <2>1. amount \in Nat
      BY PppoeAssumption
    <2>2. Exists(u) /\ now' = now /\ grace' = grace
      BY <1>6 DEF PayBill
    <2>3. CASE reach = "banked"
      <3>1. acct' = acct /\ jobs' = jobs
        BY <1>6, <2>3 DEF PayBill
      <3> QED BY <2>2, <3>1, NobodyMoves
    <2>4. CASE reach # "banked"
      <3>1. PICK t : ApplyPayment(u, Plain(amount), t, t)
        BY <1>6, <2>4 DEF PayBill
      <3> QED BY <1>1, <2>1, <2>2, <3>1, PaymentMoves
    <2> QED BY <2>3, <2>4
  <1>7. ASSUME NEW t \in DOMAIN txs, NEW known \in BOOLEAN, NEW reach \in Reach, Bank(t, known, reach)
        PROVE  Moved
    <2>1. now' = now /\ grace' = grace
      BY <1>7 DEF Bank
    <2>2. CASE reach = "banked"
      <3>1. acct' = acct /\ jobs' = jobs
        BY <1>7, <2>2 DEF Bank
      <3> QED BY <2>1, <3>1, NobodyMoves
    <2>3. CASE reach # "banked"
      BY <1>7, <2>1, <2>3, SettleMoves DEF Bank
    <2> QED BY <2>2, <2>3
  <1>8. ASSUME NEW t \in DOMAIN txs, SettleAgain(t) PROVE Moved
    <2>1. txs[t].receiptKnown \in BOOLEAN
      BY TheirUsers DEF RouterInv, Prompted
    <2>2. now' = now /\ grace' = grace /\ Settle(t, txs[t].receiptKnown)
      BY <1>8 DEF SettleAgain
    <2> QED BY <2>1, <2>2, SettleMoves
  <1> QED BY <1>2, <1>3, <1>4, <1>5, <1>6, <1>7, <1>8

\* A cut-off or the end of a boost that has passed stays passed.
LEMMA ClockMoves ==
    ASSUME RouterInv, Clock, UNCHANGED secret PROVE Moved
  <1>1. now \in Nat /\ now' = now + 1 /\ grace' = grace /\ acct' = acct /\ jobs' = jobs
    BY DEF RouterInv, BillingInv, Days, Clock
  <1>2. ASSUME NEW u \in Users PROVE UserOK(acct[u], jobs[u], secret[u])'
    <2> DEFINE a == acct[u]
               J == jobs[u]
               s == secret[u]
    <2>1. a \in Account /\ UserOK(a, J, s)
      BY TheirState
    <2>2. a.expires \in Int /\ a.boostEnd \in Nat
      BY <2>1 DEF Account
    <2>3. acct'[u] = a /\ jobs'[u] = J /\ secret'[u] = s
      BY <1>1
    <2> HIDE DEF a, J, s
    <2>4. Shape(a) /\ Untouched(a, J, s) /\ ~J["revoke"].waiting
      BY <2>1 DEF UserOK
    <2>5. Cutworthy(a) => a.status # "active" \/ a.locked # NoTime \/ (a.expires # NoTime /\ a.expires <= now')
      BY <1>1, <2>2 DEF Cutworthy, Expired
    <2>6. BoostOver(a) => a.boost # NoPlan /\ a.boostEnd <= now'
      BY <1>1, <2>2 DEF BoostOver
    <2>7. ~(a.boost # NoPlan /\ a.boostEnd <= now') =>
            SpeedOf(a) = IF a.boost # NoPlan /\ a.boostEnd > now' THEN a.boost ELSE a.plan
      BY <1>1, <2>2 DEF SpeedOf
    <2>8. Followed(a, J, s) =>
            (Closed(J["upsert"]) /\ Closed(J["revoke"]) /\ a.locked = NoTime /\ s # Absent =>
               IF a.status = "active"
               THEN (a.boost # NoPlan /\ a.boostEnd <= now')
                    \/ s = IF a.boost # NoPlan /\ a.boostEnd > now' THEN a.boost ELSE a.plan
               ELSE s \notin Plans)
      BY <2>6, <2>7 DEF Followed
    <2> QED BY <1>1, <2>1, <2>3, <2>4, <2>5, <2>8
            DEF UserOK, Shape, Untouched, Followed, Cutworthy, Expired, BoostOver, SpeedOf, Open, Closed
  <1>3. UsersInv'
    BY <1>2 DEF UsersInv
  <1>4. jobs' \in [Users -> JobRows]
    BY <1>1 DEF RouterInv, RouterTypes
  <1> QED BY <1>3, <1>4 DEF Moved

LEMMA OneGrace ==
    ASSUME SteadyRouter, RouterInv, BillingNext PROVE grace' = grace
  <1>1. \A g \in Graces : ~SetGrace(g)
    BY DEF SteadyRouter, RouterInv, SetGrace
  <1>2. CASE OwnerEdits
    BY <1>1, <1>2 DEF OwnerEdits, Provision, Lock, Unlock, AdminToggle, MoveToPlan, BookPlan, OwnerPlanChanges
  <1>3. CASE OwnerMoney
    BY <1>3 DEF OwnerMoney, Create, RecordPayment, Extend
  <1>4. CASE CustomerActs
    BY <1>4 DEF CustomerActs, Prompt, UpgradeFromCredit, PayBill
  <1>5. CASE MpesaActs
    BY <1>5 DEF MpesaActs, Bank, Decline, SettleAgain, Reverse
  <1>6. CASE SweepActs \/ Clock
    BY <1>6 DEF SweepActs, EndBoost, RenewFromCredit, Clock
  <1> QED BY <1>2, <1>3, <1>4, <1>5, <1>6 DEF BillingNext

LEMMA ServerMoves ==
    ASSUME SteadyRouter, RouterInv, BillingNext, UNCHANGED secret PROVE Moved
  <1>1. grace' = grace /\ \A g \in Graces : ~SetGrace(g)
    BY OneGrace DEF SteadyRouter, RouterInv, SetGrace
  <1>2. ASSUME UNCHANGED <<now, acct, jobs>> PROVE Moved
    BY <1>1, <1>2, NobodyMoves
  <1>3. CASE OwnerEdits
    <2>1. CASE OwnerPlanChanges
      <3>1. UNCHANGED <<now, acct, jobs>>
        BY <2>1 DEF OwnerPlanChanges
      <3> QED BY <1>2, <3>1
    <2> QED BY <1>1, <1>3, <2>1, EditMoves, ToggleMoves DEF OwnerEdits
  <1>4. CASE OwnerMoney
    BY <1>4, CreateMoves, MoneyMoves DEF OwnerMoney
  <1>5. CASE CustomerActs
    <2>1. CASE \/ \E u \in Users, amount \in Amounts : Prompt(u, "pay", NoPlan, amount)
               \/ \E u \in Users, purpose \in {"upgrade", "boost"}, p \in Plans : Prompt(u, purpose, p, 0)
      <3>1. UNCHANGED <<now, acct, jobs>>
        BY <2>1 DEF Prompt
      <3> QED BY <1>2, <3>1
    <2> QED BY <1>5, <2>1, MoneyMoves DEF CustomerActs
  <1>6. CASE MpesaActs
    <2>1. CASE \E t \in DOMAIN txs : Decline(t)
      <3>1. UNCHANGED <<now, acct, jobs>>
        BY <2>1 DEF Decline
      <3> QED BY <1>2, <3>1
    <2> QED BY <1>6, <2>1, MoneyMoves, ReverseMoves DEF MpesaActs
  <1>7. CASE SweepActs
    BY <1>7, EditMoves, MoneyMoves DEF SweepActs
  <1> QED BY <1>3, <1>4, <1>5, <1>6, <1>7, ClockMoves DEF BillingNext

\* With nothing on its way there is nothing to say of it.
LEMMA NothingInFlight ==
    ASSUME script' = {}, report' = NoReport PROVE FlightInv'
  <1>1. report'.ok = {} /\ report'.failed = {}
    BY DEF NoReport
  <1>2. ScriptInv'
    BY DEF ScriptInv
  <1>3. ReportInv'
    BY <1>1 DEF ReportInv
  <1> QED BY <1>2, <1>3 DEF FlightInv, Idle

LEMMA ServerStep ==
    ASSUME SteadyRouter, RouterInv, ServerActs PROVE RouterInv'
  <1>1. script' = {} /\ report' = NoReport /\ secret' = secret /\ report' = report
    BY DEF ServerActs, SteadyRouter, Idle, routerVars
  <1>2. BillingInv' /\ grace' = DefaultGrace /\ Moved
    BY <1>1, BillingSteps, OneGrace, ServerMoves DEF ServerActs, RouterInv
  <1>3. RouterTypes'
    BY <1>1, <1>2 DEF RouterInv, RouterTypes, Moved
  <1> QED BY <1>1, <1>2, <1>3, NothingInFlight DEF RouterInv, Moved

-----------------------------------------------------------------------------
(* The poll, the script, its report                                         *)

LEMMA RevokedFields ==
    ASSUME NEW a, AccountOK(a)
    PROVE  /\ AccountOK(Revoked(a)) /\ Revoked(a).paid = a.paid /\ Revoked(a).expires = a.expires
           /\ a.status # "new" => Revoked(a).status # "new"
           /\ ~Lapsed(Revoked(a))
           /\ Shape(a) => Shape(Revoked(a))
  <1>1. CASE ~Lapsed(a)
    BY <1>1 DEF Revoked, AccountOK, Account
  <1>2. CASE Lapsed(a)
    <2> DEFINE b == [a EXCEPT !.status = "expired"]
    <2>1. Revoked(a) = b
      BY <1>2 DEF Revoked
    <2>2. b \in Account
      BY DEF AccountOK, Account, Statuses
    <2>3. b.status = "expired" /\ b.paid = a.paid /\ b.expires = a.expires
      BY DEF AccountOK, Account
    <2> HIDE DEF b
    <2> QED BY <2>1, <2>2, <2>3 DEF AccountOK, Lapsed, Shape
  <1> QED BY <1>1, <1>2

\* revokeExpiredForLocation: whoever lapsed is expired and has a revocation.
LEMMA RevokedIsOK ==
    ASSUME RouterInv, NEW u \in Users
    PROVE  RevokedJobs(u) \in JobRows /\ UserOK(Revoked(acct[u]), RevokedJobs(u), secret[u])
  <1> DEFINE a == acct[u]
             J == jobs[u]
             s == secret[u]
             b == Revoked(a)
  <1>1. /\ AccountOK(a) /\ Shape(a) /\ J \in JobRows /\ ~J["revoke"].waiting /\ UserOK(a, J, s)
    BY TheirState
  <1>2. CASE ~Lapsed(a)
    BY <1>1, <1>2 DEF Revoked, RevokedJobs
  <1>3. CASE Lapsed(a)
    <2>1. RevokedJobs(u) = JobFor(J, a, "revoke", FALSE)
      BY <1>3 DEF RevokedJobs
    <2>2. b = [a EXCEPT !.status = "expired"]
      BY <1>3 DEF Revoked
    <2>3. b.status = "expired" /\ b.expires = a.expires /\ Shape(b)
      BY <1>1, <2>2, RevokedFields DEF AccountOK, Account
    <2> HIDE DEF b, a, J, s
    <2>4. JobFor(J, a, "revoke", FALSE) = JobFor(J, b, "revoke", FALSE)
      BY <2>3 DEF JobFor, Expired
    <2>5. Cutworthy(b)
      BY <2>3 DEF Cutworthy
    <2>6. JobFor(J, b, "revoke", FALSE) \in JobRows /\ UserOK(b, JobFor(J, b, "revoke", FALSE), s)
      BY <1>1, <2>3, <2>5, JobForIsOK DEF JobActions
    <2> QED BY <2>1, <2>4, <2>6 DEF b, a, s
  <1> QED BY <1>2, <1>3

LEMMA PollStep == ASSUME RouterInv, Poll PROVE RouterInv'
  <1> DEFINE jobsNow == [u \in Users |-> RevokedJobs(u)]
             due == {k \in Keys : Due(jobsNow[k[1]][k[2]])}
  <1>1. /\ acct' = [u \in Users |-> Revoked(acct[u])]
        /\ script' = {LineFor(k, acct'[k[1]], jobsNow[k[1]][k[2]]) : k \in due}
        /\ jobs' = [u \in Users |-> [x \in JobActions |->
             IF <<u, x>> \in due THEN [jobsNow[u][x] EXCEPT !.status = "delivered"] ELSE jobsNow[u][x]]]
        /\ UNCHANGED <<now, serves, grace, payments, txs, report, secret>> /\ report = NoReport
    BY DEF Poll, Idle
  <1>2. ASSUME NEW u \in Users PROVE jobsNow[u] \in JobRows /\ UserOK(Revoked(acct[u]), jobsNow[u], secret[u])
    BY RevokedIsOK
  <1>3. ASSUME NEW u \in Users, NEW x \in JobActions
        PROVE  /\ <<u, x>> \in due <=> Due(jobsNow[u][x])
               /\ jobs'[u][x] = IF <<u, x>> \in due THEN [jobsNow[u][x] EXCEPT !.status = "delivered"]
                                ELSE jobsNow[u][x]
               /\ jobsNow[u][x] \in Job
    <2>1. <<u, x>> \in Keys
      BY DEF Keys
    <2>2. <<u, x>> \in due <=> Due(jobsNow[u][x])
      <3> HIDE DEF jobsNow
      <3> QED BY <2>1
    <2>3. jobsNow[u][x] \in Job
      BY <1>2 DEF JobRows
    <2> HIDE DEF jobsNow, due
    <2> QED BY <1>1, <2>2, <2>3
  <1>4. due \subseteq Keys
    OBVIOUS
  <1> HIDE DEF jobsNow, due
  <1>5. ASSUME NEW u \in Users PROVE jobs'[u] \in JobRows /\ SameStates(jobsNow[u], jobs'[u])
    <2>1. ASSUME NEW x \in JobActions
          PROVE  /\ jobs'[u][x] \in Job /\ jobs'[u][x].waiting = jobsNow[u][x].waiting
                 /\ Open(jobs'[u][x]) <=> Open(jobsNow[u][x])
                 /\ Closed(jobs'[u][x]) <=> Closed(jobsNow[u][x])
                 /\ jobs'[u][x].status = "none" <=> jobsNow[u][x].status = "none"
      <3> DEFINE j == jobsNow[u][x]
                 k == [j EXCEPT !.status = "delivered"]
      <3>1. j \in Job
        BY <1>3, <2>1
      <3>2. jobs'[u][x] = j \/ (Due(j) /\ jobs'[u][x] = k)
        BY <1>3, <2>1
      <3> HIDE DEF j
      <3>3. k \in Job /\ k.status = "delivered" /\ k.waiting = j.waiting
        BY <3>1 DEF Job
      <3> HIDE DEF k
      <3>4. CASE jobs'[u][x] = j
        BY <3>1, <3>4 DEF j
      <3>5. CASE Due(j) /\ jobs'[u][x] = k
        <4>1. Open(j) /\ Open(k)
          BY <3>3, <3>5 DEF Due, Open
        <4>2. ~Closed(j) /\ ~Closed(k) /\ j.status # "none" /\ k.status # "none"
          BY <4>1 DEF Open, Closed
        <4> QED BY <3>3, <3>5, <4>1, <4>2 DEF j
      <3> QED BY <3>2, <3>4, <3>5
    <2>2. jobs'[u] \in JobRows
      <3>1. jobs'[u] = [x \in JobActions |-> jobs'[u][x]]
        BY <1>1
      <3> QED BY <2>1, <3>1 DEF JobRows
    <2>3. "revoke" \in JobActions
      BY DEF JobActions
    <2> QED BY <2>1, <2>2, <2>3 DEF SameStates
  <1>6. RouterTypes'
    <2>1. jobs' \in [Users -> JobRows]
      <3>1. jobs' = [u \in Users |-> jobs'[u]]
        BY <1>1
      <3> QED BY <1>5, <3>1
    <2> QED BY <1>1, <2>1 DEF RouterInv, RouterTypes
  <1>7. UsersInv'
    <2>1. \A v \in Users : UserOK(acct'[v], jobs'[v], secret'[v])
      <3> TAKE v \in Users
      <3>1. UserOK(Revoked(acct[v]), jobsNow[v], secret[v]) /\ SameStates(jobsNow[v], jobs'[v])
        BY <1>2, <1>5
      <3>2. acct'[v] = Revoked(acct[v]) /\ secret'[v] = secret[v]
        BY <1>1
      <3> QED BY <3>1, <3>2, SameJobs
    <2> QED BY <1>1, <2>1, UsersNext
  <1>8. BillingInv'
    <2>1. \A u \in Users : AccountOK(acct[u]) /\ acct[u].paid \in Int
      BY TheirState DEF Account
    <2>2. \A u \in Users :
            /\ AccountOK(acct'[u]) /\ acct'[u].paid = acct[u].paid
            /\ acct[u].status # "new" => acct'[u].status # "new"
      BY <1>1, <2>1, RevokedFields
    <2>3. acct' \in [Users -> Account]
      <3>1. \A u \in Users : acct'[u] \in Account
        BY <2>2 DEF AccountOK
      <3> QED BY <1>1, <3>1
    <2>4. AccountsOK'
      BY <2>2, <2>3 DEF AccountsOK, AccountOK
    <2>5. AccountsStay
      BY <2>2, <2>4 DEF AccountsStay, Exists
    <2>6. DaysStay
      BY <2>1, <2>2 DEF DaysStay
    <2> QED BY <1>1, <2>5, <2>6, AccountsOnly DEF RouterInv
  <1>9. FlightInv'
    <2>1. \A u \in Users : ~Lapsed(acct[u])'
      <3> TAKE u \in Users
      <3>1. ~Lapsed(Revoked(acct[u])) /\ acct'[u] = Revoked(acct[u]) /\ now' = now
        BY <1>1, TheirState, RevokedFields
      <3>2. ~Lapsed(acct'[u])
        BY <3>1
      <3> QED BY <3>1, <3>2 DEF Lapsed, Expired
    <2>2. ASSUME NEW l \in script'
          PROVE  l.job \in due /\ l.service = IF l.job[2] = "upsert" /\ Entitled(acct'[l.job[1]])
                                              THEN SpeedOf(acct'[l.job[1]]) ELSE CutService(acct'[l.job[1]])
      <3>1. PICK k \in due : l = LineFor(k, acct'[k[1]], jobsNow[k[1]][k[2]])
        BY <1>1
      <3> QED BY <3>1 DEF LineFor
    <2>3. ASSUME NEW k \in due PROVE k \in Keys /\ JobAt(k)'.status = "delivered"
      <3>1. PICK u \in Users, x \in JobActions : k = <<u, x>>
        BY <1>4 DEF Keys
      <3>2. k[1] = u /\ k[2] = x
        BY <3>1
      <3>3. jobs'[u][x] = [jobsNow[u][x] EXCEPT !.status = "delivered"] /\ jobsNow[u][x] \in Job
        BY <1>3, <2>3, <3>1
      <3>4. jobs'[u][x].status = "delivered"
        BY <3>3 DEF Job
      <3> QED BY <1>4, <3>2, <3>4 DEF JobAt
    <2>4. \A l \in script' : l.job \in Keys /\ l.service = Wanted(l.job)' /\ JobAt(l.job)'.status = "delivered"
      <3> TAKE l \in script'
      <3>1. l.job \in Keys /\ JobAt(l.job)'.status = "delivered"
        BY <2>2, <2>3
      <3>2. l.service = Wanted(l.job)'
        BY <1>1, <2>2 DEF Wanted, Entitled, SpeedOf, CutService, Expired, LockedNow
      <3> QED BY <3>1, <3>2
    <2>5. \A u \in Users : Open(jobs[u]["revoke"])' => \E l \in script' : l.job = <<u, "revoke">>
      <3> SUFFICES ASSUME NEW u \in Users, Open(jobs[u]["revoke"])'
                   PROVE  \E l \in script' : l.job = <<u, "revoke">>
        OBVIOUS
      <3> DEFINE k == <<u, "revoke">>
      <3>1. "revoke" \in JobActions /\ Open(jobs'[u]["revoke"])
        BY DEF JobActions, Open
      <3>2. Open(jobsNow[u]["revoke"]) /\ ~jobsNow[u]["revoke"].waiting
        BY <1>2, <1>5, <3>1 DEF SameStates, UserOK
      <3>3. k \in due
        BY <1>3, <3>1, <3>2 DEF Due, Open
      <3> DEFINE l == LineFor(k, acct'[k[1]], jobsNow[k[1]][k[2]])
      <3>4. l \in script'
        <4> HIDE DEF k
        <4> QED BY <1>1, <3>3
      <3>5. l.job = k
        BY DEF LineFor
      <3> QED BY <3>4, <3>5
    <2>6. ScriptInv'
      BY <2>4, <2>5 DEF ScriptInv
    <2>7. report' = NoReport /\ ReportInv'
      <3>1. report' = NoReport /\ report'.ok = {} /\ report'.failed = {}
        BY <1>1 DEF NoReport
      <3> QED BY <3>1 DEF ReportInv
    <2> QED BY <2>1, <2>6, <2>7 DEF FlightInv
  <1>10. grace' = DefaultGrace
    BY <1>1 DEF RouterInv
  <1> QED BY <1>6, <1>7, <1>8, <1>9, <1>10 DEF RouterInv

LEMMA Services ==
    ASSUME RouterInv, NEW u \in Users
    PROVE  SpeedOf(acct[u]) \in Plans /\ CutService(acct[u]) \notin Plans /\ Absent \notin Plans
           /\ SpeedOf(acct[u]) \in Service /\ CutService(acct[u]) \in Service
  <1>1. SpeedOf(acct[u]) \in Plans
    BY TheirState DEF SpeedOf, Account
  <1>2. CutService(acct[u]) \in {"disabled", "page"} /\ Absent = "absent"
    BY DEF CutService, Absent
  <1> QED BY <1>1, <1>2, RouterAssumption DEF Service

\* What the last of a subscriber's lines leaves on the router.
LEMMA ScriptDecides ==
    ASSUME SteadyRouter, RouterInv, NEW done \in SUBSET script, NEW u \in Users
    PROVE  LET s == SecretAfter(u, done) ok == {l.job : l \in done} IN
           /\ s \in Service
           /\ LinesFor(u, done) = {} => s = secret[u]
           /\ <<u, "upsert">> \in ok =>
                IF Entitled(acct[u]) THEN s = SpeedOf(acct[u]) ELSE s \notin Plans
           /\ <<u, "revoke">> \in ok /\ <<u, "upsert">> \notin ok => s \notin Plans
  <1> DEFINE a == acct[u]
             mine == LinesFor(u, done)
             last == LastLine(mine)
             s == SecretAfter(u, done)
             ok == {l.job : l \in done}
  <1>1. SpeedOf(a) \in Plans /\ CutService(a) \notin Plans /\ Absent \notin Plans
        /\ SpeedOf(a) \in Service /\ CutService(a) \in Service /\ secret[u] \in Service
    BY Services, TheirState
  <1>2. ASSUME NEW l \in mine
        PROVE  /\ l \in done /\ (l.job = <<u, "upsert">> \/ l.job = <<u, "revoke">>)
               /\ l.service = IF l.job = <<u, "upsert">> /\ Entitled(a) THEN SpeedOf(a) ELSE CutService(a)
    <2>1. l \in done /\ l.job[1] = u
      BY <1>2 DEF LinesFor
    <2>2. l.job \in Keys /\ l.service = Wanted(l.job)
      BY <2>1 DEF RouterInv, FlightInv, ScriptInv
    <2>3. PICK v \in Users, x \in JobActions : l.job = <<v, x>>
      BY <2>2 DEF Keys
    <2>4. v = u /\ (x = "upsert" \/ x = "revoke") /\ l.job[2] = x
      BY <2>1, <2>3 DEF JobActions
    <2>5. l.service = IF x = "upsert" /\ Entitled(a) THEN SpeedOf(a) ELSE CutService(a)
      BY <2>1, <2>2, <2>4 DEF Wanted
    <2>6. x = "upsert" <=> l.job = <<u, "upsert">>
      BY <2>3, <2>4
    <2> HIDE DEF a
    <2> QED BY <2>1, <2>3, <2>4, <2>5, <2>6
  <1>3. ASSUME NEW x \in JobActions, <<u, x>> \in ok PROVE \E l \in mine : l.job = <<u, x>>
    BY <1>3 DEF LinesFor
  <1>4. s = IF mine = {} \/ (secret[u] = Absent /\ last.service \notin Plans) THEN secret[u] ELSE last.service
    BY DEF SecretAfter
  <1>5. mine # {} => last \in mine
    BY DEF LastLine
  <1>6. (\E l \in mine : l.service \in Plans) => last.service \in Plans
    BY DEF LastLine
  <1> HIDE DEF a, mine, last, s, ok
  <1>7. s \in Service /\ (mine = {} => s = secret[u])
    BY <1>1, <1>2, <1>4, <1>5
  <1>8. ASSUME mine # {}, \A l \in mine : l.service \notin Plans PROVE s \notin Plans
    BY <1>1, <1>4, <1>5, <1>8
  <1>9. ASSUME <<u, "upsert">> \in ok, Entitled(a) PROVE s = SpeedOf(a)
    <2>1. PICK l \in mine : l.job = <<u, "upsert">>
      BY <1>3, <1>9 DEF JobActions
    <2>2. l.service \in Plans
      BY <1>1, <1>2, <1>9, <2>1
    <2>3. last \in mine /\ last.service \in Plans
      BY <1>5, <1>6, <2>2
    <2>4. last.service = SpeedOf(a)
      BY <1>1, <1>2, <2>3
    <2> QED BY <1>4, <2>3, <2>4
  <1>10. ASSUME <<u, "upsert">> \in ok, ~Entitled(a) PROVE s \notin Plans
    <2>1. mine # {}
      BY <1>3, <1>10 DEF JobActions
    <2> QED BY <1>1, <1>2, <1>8, <1>10, <2>1
  <1>11. ASSUME <<u, "revoke">> \in ok, <<u, "upsert">> \notin ok PROVE s \notin Plans
    <2>1. mine # {}
      BY <1>3, <1>11 DEF JobActions
    <2>2. \A l \in mine : l.job # <<u, "upsert">>
      BY <1>2, <1>11 DEF ok
    <2> QED BY <1>1, <1>2, <1>8, <2>1, <2>2
  <1> QED BY <1>7, <1>9, <1>10, <1>11 DEF a, mine, s, ok

LEMMA RunScriptStep ==
    ASSUME SteadyRouter, RouterInv, NEW refused \in SUBSET Keys, RunScript(refused) PROVE RouterInv'
  <1> DEFINE done == {l \in script : l.job \notin refused}
             ok == {l.job : l \in done}
  <1>1. /\ script # {} /\ refused \subseteq {l.job : l \in script} /\ "revoke" \notin Refusable
        /\ \A k \in refused : k[2] \in Refusable
        /\ secret' = [u \in Users |-> SecretAfter(u, done)]
        /\ report' = [ok |-> ok, failed |-> refused] /\ script' = {}
        /\ UNCHANGED billingVars
    BY DEF RunScript, SteadyRouter
  <1>2. /\ acct' = acct /\ jobs' = jobs /\ now' = now /\ grace' = grace
        /\ UNCHANGED <<serves, payments, txs>>
    BY <1>1 DEF billingVars
  <1>3. report'.ok = ok /\ report'.failed = refused
    BY <1>1
  <1>4. \A l \in script : l.job \in Keys /\ JobAt(l.job).status = "delivered"
    BY DEF RouterInv, FlightInv, ScriptInv
  <1>5. done \in SUBSET script /\ ok \in SUBSET Keys
    BY <1>4
  <1>6. ASSUME NEW u \in Users
        PROVE  /\ secret'[u] = SecretAfter(u, done) /\ secret'[u] \in Service
               /\ LinesFor(u, done) = {} => secret'[u] = secret[u]
               /\ <<u, "upsert">> \in ok =>
                    IF Entitled(acct[u]) THEN secret'[u] = SpeedOf(acct[u]) ELSE secret'[u] \notin Plans
               /\ <<u, "revoke">> \in ok /\ <<u, "upsert">> \notin ok => secret'[u] \notin Plans
    BY <1>1, <1>5, ScriptDecides
  <1>7. ASSUME NEW u \in Users PROVE UserOK(acct[u], jobs[u], secret'[u])
    <2>1. UserOK(acct[u], jobs[u], secret[u])
      BY TheirState
    <2>2. CASE LinesFor(u, done) = {}
      BY <1>6, <2>1, <2>2
    <2>3. CASE LinesFor(u, done) # {}
      <3>1. PICK l \in script : l.job[1] = u /\ l.job \in Keys /\ JobAt(l.job).status = "delivered"
        BY <1>4, <2>3 DEF LinesFor
      <3>2. l.job[2] \in {"upsert", "revoke"} /\ jobs[u][l.job[2]].status = "delivered"
        BY <3>1 DEF Keys, JobActions, JobAt
      <3>3. jobs[u]["upsert"].status = "delivered" \/ jobs[u]["revoke"].status = "delivered"
        BY <3>2
      <3>4. acct[u].status # "new"
        BY <2>1, <3>3 DEF UserOK, Untouched
      <3>5. ~(Closed(jobs[u]["upsert"]) /\ Closed(jobs[u]["revoke"]))
        BY <3>3 DEF Closed
      <3> QED BY <2>1, <3>4, <3>5 DEF UserOK, Untouched, Followed
    <2> QED BY <2>2, <2>3
  <1> HIDE DEF done, ok
  <1>8. UsersInv'
    BY <1>2, <1>7, UsersNext
  <1>9. RouterTypes'
    <2>1. secret' \in [Users -> Service]
      BY <1>1, <1>6
    <2> QED BY <1>1, <1>2, <1>5, <2>1 DEF RouterInv, RouterTypes
  <1>10. BillingInv' /\ grace' = DefaultGrace
    BY <1>2, AccountsAlone, AccountsOnly DEF RouterInv
  <1>11. ReportInv'
    <2>1. \A k \in ok \cup refused : k \in Keys /\ JobAt(k).status = "delivered"
      BY <1>1, <1>4 DEF ok, done
    <2>2. \A k \in refused : k[2] # "revoke"
      BY <1>1
    <2>3. ASSUME NEW u \in Users, Open(jobs[u]["revoke"]) PROVE <<u, "revoke">> \in ok
      <3>1. PICK l \in script : l.job = <<u, "revoke">>
        BY <1>1, <2>3 DEF RouterInv, FlightInv, ScriptInv
      <3>2. l.job[2] = "revoke"
        BY <3>1
      <3>3. l \in done
        BY <2>2, <3>2 DEF done
      <3> QED BY <3>1, <3>3 DEF ok
    <2>4. \A k \in report'.ok \cup report'.failed : k \in Keys /\ JobAt(k)'.status = "delivered"
      BY <1>2, <1>3, <2>1 DEF JobAt
    <2>5. \A u \in Users : Open(jobs[u]["revoke"])' => <<u, "revoke">> \in report'.ok
      BY <1>2, <1>3, <2>3 DEF Open
    <2>6. \A u \in Users :
            /\ <<u, "upsert">> \in report'.ok =>
                 IF Entitled(acct[u])' THEN secret'[u] = SpeedOf(acct[u])' ELSE secret'[u] \notin Plans
            /\ <<u, "revoke">> \in report'.ok /\ <<u, "upsert">> \notin report'.ok => secret'[u] \notin Plans
      BY <1>2, <1>3, <1>6 DEF Entitled, SpeedOf, Expired, LockedNow
    <2> QED BY <1>3, <2>2, <2>4, <2>5, <2>6 DEF ReportInv
  <1>12. \A u \in Users : ~Lapsed(acct[u])'
    <2>1. \A u \in Users : ~Lapsed(acct[u])
      BY <1>1 DEF RouterInv, FlightInv, Idle
    <2> QED BY <1>2, <2>1 DEF Lapsed, Expired
  <1>13. FlightInv'
    BY <1>1, <1>11, <1>12 DEF FlightInv, ScriptInv
  <1> QED BY <1>8, <1>9, <1>10, <1>13 DEF RouterInv

LEMMA ReportedRow ==
    ASSUME NEW k, NEW j \in Job
    PROVE  /\ Reported(k, j) \in Job
           /\ k \notin report.ok /\ k \notin report.failed => Reported(k, j) = j
           /\ k \in report.ok => Reported(k, j) = j \/ Reported(k, j) = [j EXCEPT !.status = "acked"]
           /\ k \in report.ok => Reported(k, j).waiting = j.waiting /\ ~Open(Reported(k, j))
           /\ Closed(Reported(k, j)) => Closed(j) \/ k \in report.ok
           /\ j.status = "none" => Reported(k, j) = j
           /\ ~Open(j) => Reported(k, j) = j
  <1> DEFINE done == [j EXCEPT !.status = "acked"]
             last == [j EXCEPT !.status = "failed", !.attempts = j.attempts + 1]
             again == [j EXCEPT !.status = "queued", !.attempts = j.attempts + 1, !.waiting = TRUE]
             r == Reported(k, j)
  <1>1. /\ done \in Job /\ done.status = "acked" /\ done.waiting = j.waiting
    <2>1. done \in Job
      BY DEF Job
    <2> QED BY <2>1 DEF Job
  <1>2. j.attempts + 1 \in Nat
    BY DEF Job
  <1>3. last \in Job /\ last.status = "failed"
    <2>1. last \in Job
      BY <1>2 DEF Job
    <2> QED BY <2>1 DEF Job
  <1>4. again \in Job /\ again.status = "queued"
    <2>1. again \in Job
      BY <1>2 DEF Job
    <2> QED BY <2>1 DEF Job
  <1>5. /\ ~Open(j) => r = j
        /\ Open(j) /\ k \in report.ok => r = done
        /\ Open(j) /\ k \notin report.ok /\ k \in report.failed => r = last \/ r = again
        /\ Open(j) /\ k \notin report.ok /\ k \notin report.failed => r = j
    <2>1. ~Open(j) => r = j
      BY DEF Reported, Open
    <2>2. Open(j) /\ k \in report.ok => r = done
      BY DEF Reported, Open
    <2>3. Open(j) /\ k \notin report.ok /\ k \in report.failed =>
            r = IF j.attempts + 1 >= MaxAttempts THEN last ELSE again
      BY DEF Reported, Open
    <2>4. Open(j) /\ k \notin report.ok /\ k \notin report.failed => r = j
      BY DEF Reported, Open
    <2> HIDE DEF done, last, again, r
    <2> QED BY <2>1, <2>2, <2>3, <2>4
  <1> HIDE DEF done, last, again, r
  <1>6. r \in Job
    BY <1>1, <1>3, <1>4, <1>5
  <1>7. k \in report.ok => r.waiting = j.waiting /\ ~Open(r) /\ (r = j \/ r = done)
    BY <1>1, <1>5 DEF Open
  <1>8. Closed(r) => Closed(j) \/ k \in report.ok
    BY <1>3, <1>4, <1>5 DEF Closed
  <1>9. j.status = "none" => r = j
    BY <1>5 DEF Open
  <1> QED BY <1>5, <1>6, <1>7, <1>8, <1>9 DEF r, done

LEMMA ApplyReportStep == ASSUME SteadyRouter, RouterInv, ApplyReport PROVE RouterInv'
  <1>1. /\ report # NoReport /\ report' = NoReport /\ script' = script
        /\ jobs' = [u \in Users |-> [x \in JobActions |-> Reported(<<u, x>>, jobs[u][x])]]
        /\ UNCHANGED <<now, serves, grace, acct, payments, txs, secret>>
    BY DEF ApplyReport
  <1>2. script = {} /\ ~Idle
    BY <1>1 DEF RouterInv, FlightInv, Idle
  <1>3. FlightInv'
    BY <1>1, <1>2, NothingInFlight
  <1>4. BillingInv' /\ grace' = DefaultGrace
    BY <1>1, AccountsAlone, AccountsOnly DEF RouterInv
  <1>5. ASSUME NEW u \in Users PROVE jobs'[u] \in JobRows /\ UserOK(acct[u], jobs'[u], secret[u])
    <2> DEFINE a == acct[u]
               J == jobs[u]
               J2 == jobs'[u]
               s == secret[u]
               up == <<u, "upsert">>
               cut == <<u, "revoke">>
    <2>1. J \in JobRows /\ UserOK(a, J, s)
      BY TheirState
    <2>2. J["upsert"] \in Job /\ J["revoke"] \in Job
      BY <2>1 DEF JobRows, JobActions
    <2>3. J2 = [x \in JobActions |-> Reported(<<u, x>>, J[x])]
      BY <1>1
    <2>4. J2["upsert"] = Reported(up, J["upsert"]) /\ J2["revoke"] = Reported(cut, J["revoke"])
      BY <2>3 DEF JobActions
    <2>5. J2 \in JobRows
      <3>1. \A x \in JobActions : Reported(<<u, x>>, J[x]) \in Job
        BY <2>1, ReportedRow DEF JobRows
      <3> HIDE DEF J2
      <3> QED BY <2>3, <3>1 DEF JobRows
    <2>6. /\ cut \notin report.failed
          /\ Open(J["revoke"]) => cut \in report.ok
          /\ up \in report.ok => J["upsert"].status = "delivered"
          /\ cut \in report.ok => J["revoke"].status = "delivered"
          /\ up \in report.ok => IF Entitled(a) THEN s = SpeedOf(a) ELSE s \notin Plans
          /\ cut \in report.ok /\ up \notin report.ok => s \notin Plans
          /\ ~Lapsed(a)
      <3>1. ReportInv /\ \A v \in Users : ~Lapsed(acct[v])
        BY <1>2 DEF RouterInv, FlightInv
      <3>2. cut[2] = "revoke" /\ JobAt(cut) = J["revoke"] /\ JobAt(up) = J["upsert"]
        BY DEF JobAt
      <3> QED BY <1>1, <3>1, <3>2 DEF ReportInv
    <2> HIDE DEF a, J, J2, s, up, cut
    <2>7. ~J["revoke"].waiting /\ Shape(a)
      BY <2>1 DEF UserOK
    <2>8. ~Open(J2["revoke"]) /\ ~J2["revoke"].waiting
      <3>1. CASE cut \in report.ok
        BY <2>2, <2>4, <2>7, <3>1, ReportedRow
      <3>2. CASE cut \notin report.ok
        BY <2>2, <2>4, <2>6, <2>7, <3>2, ReportedRow
      <3> QED BY <3>1, <3>2
    <2>9. Untouched(a, J2, s)
      <3>1. a.status = "new" => J2["upsert"] = J["upsert"] /\ J2["revoke"] = J["revoke"]
        BY <2>1, <2>2, <2>4, ReportedRow DEF UserOK, Untouched
      <3> QED BY <2>1, <3>1 DEF UserOK, Untouched
    <2>10. Followed(a, J2, s)
      <3> SUFFICES ASSUME Closed(J2["upsert"]), Closed(J2["revoke"]), a.locked = NoTime, s # Absent
                   PROVE  IF a.status = "active" THEN BoostOver(a) \/ s = SpeedOf(a) ELSE s \notin Plans
        BY DEF Followed
      <3>1. Closed(J["upsert"]) \/ up \in report.ok
        BY <2>2, <2>4, ReportedRow
      <3>2. Closed(J["revoke"]) \/ cut \in report.ok
        BY <2>2, <2>4, ReportedRow
      <3>3. Entitled(a) <=> a.status = "active"
        <4>1. now \in Nat \ {0} /\ ~LockedNow(a)
          BY TheirState DEF LockedNow, NoTime, Days
        <4> QED BY <2>6, <4>1 DEF Entitled, Lapsed
      <3>4. CASE up \in report.ok
        BY <2>6, <3>3, <3>4
      <3>5. CASE up \notin report.ok /\ cut \in report.ok
        <4>1. Open(J["revoke"]) /\ Closed(J["upsert"])
          BY <2>6, <3>1, <3>5 DEF Open
        <4>2. Cutworthy(a)
          BY <2>1, <4>1 DEF UserOK
        <4>3. a.status # "active"
          BY <2>6, <4>2 DEF Cutworthy, Lapsed
        <4> QED BY <2>6, <3>5, <4>3
      <3>6. CASE up \notin report.ok /\ cut \notin report.ok
        BY <2>1, <3>1, <3>2, <3>6 DEF UserOK, Followed
      <3> QED BY <3>4, <3>5, <3>6
    <2>11. UserOK(a, J2, s)
      BY <2>7, <2>8, <2>9, <2>10 DEF UserOK
    <2> QED BY <2>5, <2>11 DEF a, J2, s
  <1>6. UsersInv'
    BY <1>1, <1>5, UsersNext
  <1>7. RouterTypes'
    <2>1. jobs' \in [Users -> JobRows]
      <3>1. jobs' = [u \in Users |-> jobs'[u]]
        BY <1>1
      <3> QED BY <1>5, <3>1
    <2>2. report' \in [ok : SUBSET Keys, failed : SUBSET Keys]
      BY <1>1 DEF NoReport
    <2> QED BY <1>1, <2>1, <2>2 DEF RouterInv, RouterTypes
  <1> QED BY <1>3, <1>4, <1>6, <1>7 DEF RouterInv

LEMMA BackoffEndsStep == ASSUME RouterInv, NEW k \in Keys, BackoffEnds(k) PROVE RouterInv'
  <1>1. PICK u \in Users, x \in JobActions : k = <<u, x>>
    BY DEF Keys
  <1> DEFINE J == jobs[u]
             row == [J[x] EXCEPT !.waiting = FALSE]
             J2 == [J EXCEPT ![x] = row]
  <1>2. J \in JobRows /\ jobs \in [Users -> JobRows] /\ UserOK(acct[u], J, secret[u])
        /\ acct \in [Users -> Account]
    BY TheirState
  <1>3. jobs' = [jobs EXCEPT ![u] = J2] /\ UNCHANGED <<now, serves, grace, acct, payments, txs, routerVars>>
    BY <1>1, <1>2 DEF BackoffEnds, JobRows
  <1>4. UNCHANGED <<script, report, secret>>
    BY <1>3 DEF routerVars
  <1>5. row \in Job /\ row.status = J[x].status /\ ~row.waiting
    <2>1. J[x] \in Job
      BY <1>2 DEF JobRows
    <2> HIDE DEF J
    <2>2. row \in Job
      BY <2>1 DEF Job
    <2> QED BY <2>1, <2>2 DEF Job
  <1> HIDE DEF row
  <1>6. J2 \in JobRows /\ \A y \in JobActions : J2[y] = IF y = x THEN row ELSE J[y]
    BY <1>2, <1>5 DEF JobRows
  <1>7. /\ \A y \in JobActions : J2[y].status = J[y].status
        /\ ~J["revoke"].waiting => ~J2["revoke"].waiting
    BY <1>5, <1>6 DEF JobActions
  <1>8. \A v \in Users : jobs'[v] = IF v = u THEN J2 ELSE jobs[v]
    BY <1>2, <1>3
  <1>9. \A v \in Users, y \in JobActions : jobs'[v][y].status = jobs[v][y].status
    BY <1>7, <1>8
  <1> HIDE DEF J2
  <1>10. UserOK(acct[u], J2, secret[u])
    <2>1. SameStates(J, J2)
      BY <1>7 DEF SameStates, Open, Closed
    <2> HIDE DEF J
    <2> QED BY <1>2, <2>1, SameJobs
  <1>11. acct' = [acct EXCEPT ![u] = acct[u]]
    BY <1>2, <1>3
  <1>12. Moved
    BY <1>3, <1>4, <1>6, <1>10, <1>11, OneUser
  <1>13. BillingInv' /\ grace' = DefaultGrace
    BY <1>3, AccountsAlone, AccountsOnly DEF RouterInv
  <1>14. RouterTypes'
    BY <1>4, <1>12 DEF Moved, RouterInv, RouterTypes
  <1>15. \A c \in Keys : JobAt(c)'.status = JobAt(c).status
    BY <1>9 DEF JobAt, Keys
  <1>16. \A v \in Users : Open(jobs[v]["revoke"])' <=> Open(jobs[v]["revoke"])
    BY <1>9 DEF Open, JobActions
  <1>17. \A c \in Keys : Wanted(c)' = Wanted(c)
    BY <1>3 DEF Wanted, Entitled, SpeedOf, CutService, Expired, LockedNow
  <1>18. \A v \in Users : /\ Lapsed(acct[v])' <=> Lapsed(acct[v])
                          /\ Entitled(acct[v])' <=> Entitled(acct[v])
                          /\ SpeedOf(acct[v])' = SpeedOf(acct[v])
    BY <1>3 DEF Lapsed, Entitled, SpeedOf, Expired, LockedNow
  <1>19. ScriptInv'
    BY <1>4, <1>15, <1>16, <1>17 DEF RouterInv, FlightInv, ScriptInv
  <1>20. ReportInv'
    BY <1>4, <1>15, <1>16, <1>18 DEF RouterInv, FlightInv, ReportInv
  <1>21. FlightInv'
    BY <1>4, <1>18, <1>19, <1>20 DEF RouterInv, FlightInv, Idle
  <1> QED BY <1>12, <1>13, <1>14, <1>21 DEF RouterInv, Moved

LEMMA NothingServed ==
    ASSUME RouterInv, UNCHANGED <<now, serves, grace, acct, payments, txs, jobs, secret>>
    PROVE  BillingInv' /\ grace' = DefaultGrace /\ UsersInv' /\ jobs' \in [Users -> JobRows]
           /\ secret' \in [Users -> Service]
  <1>1. BillingInv' /\ grace' = DefaultGrace
    BY AccountsAlone, AccountsOnly DEF RouterInv
  <1>2. Moved
    BY NobodyMoves
  <1> QED BY <1>1, <1>2 DEF Moved, RouterInv, RouterTypes

LEMMA LoseStep == ASSUME RouterInv, Lose PROVE RouterInv'
  <1>1. /\ script' = {} /\ report' = NoReport
        /\ UNCHANGED <<now, serves, grace, acct, payments, txs, jobs, secret>>
    BY DEF Lose, billingVars
  <1>2. report' \in [ok : SUBSET Keys, failed : SUBSET Keys]
    BY <1>1 DEF NoReport
  <1> QED BY <1>1, <1>2, NothingServed, NothingInFlight DEF RouterInv, RouterTypes

LEMMA RedialStep ==
    ASSUME RouterInv, UNCHANGED <<billingVars, script, report, secret>> PROVE RouterInv'
  <1>1. UNCHANGED <<now, serves, grace, acct, payments, txs, jobs, secret, script, report>>
    BY DEF billingVars
  <1>2. ScriptInv'
    BY <1>1 DEF RouterInv, FlightInv, ScriptInv, JobAt, Wanted, Entitled, SpeedOf, CutService, Expired,
                LockedNow, Open
  <1>3. ReportInv'
    BY <1>1 DEF RouterInv, FlightInv, ReportInv, JobAt, Entitled, SpeedOf, Expired, LockedNow, Open
  <1>4. FlightInv'
    BY <1>1, <1>2, <1>3 DEF RouterInv, FlightInv, Lapsed, Expired, Idle
  <1> QED BY <1>1, <1>4, NothingServed DEF RouterInv, RouterTypes

-----------------------------------------------------------------------------
(* Every behaviour of the router                                            *)

LEMMA RouterStarts == SteadyRouter /\ Init => RouterInv
  <1> SUFFICES ASSUME SteadyRouter, Init PROVE RouterInv
    OBVIOUS
  <1>1. BillingInv /\ grace = DefaultGrace
    BY BillingStarts DEF Init, BillingInit
  <1>2. NoJob \in Job /\ NoJob.status = "none" /\ ~NoJob.waiting
    BY DEF NoJob, Job
  <1>3. RouterTypes
    BY <1>2 DEF RouterTypes, Init, BillingInit, RouterInit, JobRows, NoReport, Service
  <1>4. ASSUME NEW u \in Users PROVE UserOK(acct[u], jobs[u], secret[u])
    <2>1. acct[u] = NewSubscriber /\ secret[u] = Absent
          /\ jobs[u]["upsert"] = NoJob /\ jobs[u]["revoke"] = NoJob
      BY DEF Init, BillingInit, RouterInit, JobActions
    <2>2. NewSubscriber.status = "new" /\ NewSubscriber.paid = NoTime /\ NewSubscriber.locked = NoTime
      BY DEF NewSubscriber
    <2> QED BY <1>2, <2>1, <2>2 DEF UserOK, Shape, Untouched, Followed, Open
  <1>5. FlightInv
    BY DEF FlightInv, ScriptInv, ReportInv, Init, RouterInit, Idle, NoReport
  <1> QED BY <1>1, <1>3, <1>4, <1>5 DEF RouterInv, UsersInv

LEMMA RouterSteps == SteadyRouter /\ RouterInv /\ [Next]_vars => RouterInv'
  <1> SUFFICES ASSUME SteadyRouter, RouterInv, [Next]_vars PROVE RouterInv'
    OBVIOUS
  <1>1. CASE ServerActs
    BY <1>1, ServerStep
  <1>2. CASE Poll
    BY <1>2, PollStep
  <1>3. ASSUME NEW refused \in SUBSET Keys, RunScript(refused) PROVE RouterInv'
    BY <1>3, RunScriptStep
  <1>4. CASE ApplyReport
    BY <1>4, ApplyReportStep
  <1>5. CASE Lose
    BY <1>5, LoseStep
  <1>6. ASSUME NEW k \in Keys, BackoffEnds(k) PROVE RouterInv'
    BY <1>6, BackoffEndsStep
  <1>7. ASSUME NEW u \in Users, Redial(u) PROVE RouterInv'
    BY <1>7, RedialStep DEF Redial
  <1>8. CASE UNCHANGED vars
    BY <1>8, RedialStep DEF vars, routerVars
  <1> QED BY <1>1, <1>2, <1>3, <1>4, <1>5, <1>6, <1>7, <1>8 DEF Next

LEMMA InvFollows == RouterInv => RouterFollowsServer
  <1> SUFFICES ASSUME RouterInv, NEW u \in Users, Settled(u), acct[u].locked = NoTime,
                      ~BoostOver(acct[u]), secret[u] # Absent
               PROVE  IF Entitled(acct[u]) THEN secret[u] = SpeedOf(acct[u]) ELSE secret[u] \notin Plans
    BY DEF RouterFollowsServer
  <1>1. Closed(jobs[u]["upsert"]) /\ Closed(jobs[u]["revoke"]) /\ ~Lapsed(acct[u])
    BY DEF Settled, Closed, JobActions
  <1>2. IF acct[u].status = "active" THEN secret[u] = SpeedOf(acct[u]) ELSE secret[u] \notin Plans
    BY <1>1, TheirState DEF UserOK, Followed
  <1>3. Entitled(acct[u]) <=> acct[u].status = "active"
    <2>1. now \in Nat \ {0} /\ ~LockedNow(acct[u])
      BY TheirState DEF LockedNow, NoTime, Days
    <2> QED BY <1>1, <2>1 DEF Entitled, Lapsed
  <1> QED BY <1>2, <1>3

\* When nothing is on its way and no job of a subscriber waits or was given up,
\* the router serves exactly whom the server counts as paid, at the speed of
\* their plan or boost: for any number of subscribers, plans, prices and losses,
\* while edits fall between two polls, no revocation is refused and the grace
\* setting stays (jobFor, scriptForLocation, applyRouterReport of pppoe.js).
THEOREM RouterServesAsBilled == ASSUME SteadyRouter PROVE Spec => []RouterFollowsServer
  <1>1. Init => RouterInv
    BY RouterStarts
  <1>2. RouterInv /\ [Next]_vars => RouterInv'
    BY RouterSteps
  <1> QED BY <1>1, <1>2, InvFollows, PTL DEF Spec
=============================================================================
