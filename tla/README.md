# Wi-Fi Fiti in TLA+

TLA+ models of Wi-Fi Fiti, a service that sells internet time by M-Pesa and
runs the MikroTik routers it is used on. They follow a customer's money from
the prompt to the login on the router and from the login's last second to its
removal, and the rest of the system that decides who gets what: vouchers,
PPPoE subscribers, the business's own bill, trials, payout accounts, sign-in,
router pairing, changes on live routers, remote access and its terminal,
messages, and the original single-site hotspot. The models are translated from
`src/src/server.js`, `src/src/lib/*.js`, `src/vpn-gateway/agent.js` and the
RouterOS scripts (paths are relative to the checkout, whose server lives in its
own `src/`). `PROJECT.json` maps every definition to the lines it stands for.

## 1. The system

One Node process with one synchronous SQLite database serves many businesses;
each has locations, and each location one MikroTik router that polls the
server. Between two `await`s a handler runs alone; SQLite transactions
(`BEGIN IMMEDIATE`) add atomicity across statements when something throws or
the process dies. So the interleavings that matter are those at the awaits
(requests to Daraja, Tuma and the SMS provider), between the process and a
router or the VPN agent (polls over an unreliable link), and at restarts.

| Component | State | Operations | Talks to |
|---|---|---|---|
| Packages and jobs (`tenant.js`) | `tenant_subscriptions`, `tenant_jobs` | grant (with release, renewal, fresh cycle), transfer, connect, queue expiry | everything that sells; the router queue |
| Hotspot payments (`server.js`, `tenant.js`) | `tenant_transactions`, `tenant_payment_claims`, `tenant_payment_grants` | pay, callbacks, status, sweep, claim, recover, owner retry, C2B confirm and reverse | Daraja, Tuma, packages |
| Vouchers (`tenant.js`) | `tenant_vouchers` | issue, redeem, delete, pause, resume, extend | packages |
| Router poll queue (`server.js`, `rsc.js`, `*.rsc`) | delivered and acked marks; on the router: users, `fitiAck` | sync, telemetry reconnect, run script | packages |
| Setup kit (`router-setup.js`) | on the router: bridge, addresses, hotspot, schedulers | paste, import, clean up, retry | pairing |
| Pairing and mapping (`tenant.js`) | tokens, receipts, topology, map, deployments | stage, paste, poll, report, confirm, deploy, acknowledge | router |
| Change plans (`router-changes.js`) | `tenant_router_changes`; on the router: undo and boot scripts | plan, apply, confirm, settle, undo, cancel | router |
| PPPoE (`pppoe.js`, `pppoe-billing.js`) | accounts, ledger, jobs; on the router: secrets | pay, renew, credit, upgrade, boost, reverse, lock | payments, router |
| Business billing (`service-billing.js`) | service subscriptions, invoices | trial, pay, callback, sweep, activate, remind | payments, payouts |
| Trial guard (`trial-guard.js`) | fingerprints, phone codes | check, verify, backfill | sign-up, payouts |
| Payout accounts (`tuma-tenants.js`) | `tenant_tuma_accounts` | save, link, disconnect, suspend, resume | Tuma, billing |
| Remote access (`tenant.js`, `agent.js`) | access, peers, controls; the agent's state file | request, prepare, activate, revoke, reconcile | router, gateway |
| Remote terminal (`terminal-link.js`, `router-terminal.js`, `agent.js`) | tickets, sessions, relays, shells | open, relay, close, time out | gateway |
| Teams and sign-in (`team.js`, `profile.js`) | owners, members, invites, codes, sessions | register, log in, reset, invite, accept, remove | email |
| SMS credits, WhatsApp notes (`fiti-signal.js`, `whatsapp-notifications.js`) | wallet, texts, notes | buy, reserve, send, refund, retry | payments, providers |
| Legacy single site (`fulfil.js`, `grant.js`, `db.js`) | accounts, transactions, vouchers, jobs | pay, redeem, transfer, lend to a TV, poll | M-Pesa, router |
| Offboarding, edge gateway, reports, demo, pages | - | - | - |

What makes the parts hard, and what makes them right:

* **Payments.** Three handlers learn of one payment independently and act on
  answers others may have overtaken; banking and provisioning are separate
  transactions with a possible crash between them. Right: money taken is never
  forgotten and credited exactly once, to the payer's device.
* **Packages, vouchers.** Rows are reused, renamed and released while payments
  and vouchers still point at them; time moves between the row and the voucher.
  Right: one package per device and login, no package loses its device while it
  runs, only the clock uses up paid time, a revocation is the last word.
* **Router queue, PPPoE jobs.** Replies and acknowledgements get lost, scripts
  stop half way, globals vanish in a power cut. Right: what the server believes
  done is done, ceilings never fall, every running package, and only those, ends
  up on the router.
* **Ledgers** (PPPoE, SMS credits, the business's bill). Every operation in any
  order on one balance. Right: no shilling, credit or paid day is lost or
  counted twice.
* **Routers in motion** (pairing, setup kit, changes). Two boards poll for one
  location; a script cuts its own connection. Right: only a router that proved
  itself takes over and the map is its own; a half-built network can be resumed;
  what stays was confirmed and what is left can be put back.
* **Remote access.** Locations, agent and routers agree late or never. Right:
  no two locations share a tunnel, a wanted tunnel comes up, an unwanted peer
  and a half-closed session go away.
* **People** (sign-in, trial, payouts). Rows of one person in several tables,
  checked before an email or Tuma answers and used after. Right: an email signs
  in one person, an invite admits one, nobody gets two trials (but see section 5), a tenant has one
  payout account.

`PROJECT.json` "hazards" lists each of these at its line, with the properties
that watch it, or the reason none does.

## 2. The modules

| Module | Models | EXTENDS |
|---|---|---|
| `Subscriptions` | the two tables all sales write, and the operations the others share | - |
| `Vouchers` | redemption and `manageVouchers` | `Subscriptions` |
| `RouterQueue` | the sync protocol and the router, over sales by voucher | `Vouchers` |
| `Sale` | abstract: money moves, and each payment is credited once after it was taken | - |
| `TenantPayments` | the payment path; refines `Sale` | `Subscriptions` |
| `PppoeBilling`, `PppoeRouter` | the ledger; its jobs' way to the router and back | `PppoeRouter` extends `PppoeBilling` |
| `PairedRouter` | abstract: one kit serves, it takes over only once proved | - |
| `RouterPairing` | kits, receipts, topology, map and deployment; refines `PairedRouter` | - |
| `RouterSetup` | the kits as the lines they run: automatic, existing hotspot, and new networks with DHCP, a fixed address or PPPoE | - |
| `RouterChanges` | changes and tools on a live router | - |
| `RemoteAccess`, `Terminal` | the tunnel and the agent; the sessions over it | - |
| `PlatformBilling`, `Payouts`, `TrialGuard`, `Accounts`, `Messages`, `LegacySite` | the components of those names | - |
| `...Proofs` | the theorems on the module they name (`BusinessProofs`: payouts, billing, trial guard, accounts, messages, legacy site; `RouterSideProofs`: setup kit, change plans, remote access) | those modules, `TLAPS` |
| `Sums` | lemmas on the sum of a function over a finite set, for the proofs about credits, paid time and PPPoE money | `FiniteSetTheorems`, `TLAPS` |
| `MC...` | TLC instances. `MCAccess`, `MCPppoeTerminal` and `MCBusiness` put side by side components that share no state: a behaviour is one of one of them | |

**State.** Where a table has one writer at a time it is a record or a function;
a row of `tenant_subscriptions` is an element of the sequence `subs`, whose
position is its id. `name` is `router_username`: the payer, the device and a
tag, because `usernameFor` hashes the first two and `releaseEndedSubscription`
appends the row's id. A payment is one record that joins its transaction, claim
code and grant. Things on a router (users, secrets, pieces of a change, undo
scripts, setup parts) are variables of their own: the server knows of them only
what an acknowledgement told it. Wording, addresses, passwords, prices beyond
"enough or not" and other data no property tells apart are left out.

**Actions.** One per handler, or per half of a handler around an await
(`CallbackAsk`/`CallbackResume`, `PayAsk`/`PayStore`, the stages of a payout
save, of an SMS batch, of an agent's reconcile). An answer on its way is a
variable, fixed when it is computed; everything may happen before it is read. A
poll is one step on the server, the router's run of the reply another, and
losing the reply, restarting or stopping half way come between. Synchronous
loops (the sweep's backlog) exclude every other handler but not a crash.

**Bounds.** Constants called `Max...` and budgets stop the clock, count
failures, or stop customers (not the server) from asking for more work. They
are guards of the actions they bound; the runs' values are in section 3.

## 3. The runs

| Run | Question | Distinct states |
|---|---|---|
| `Access` | vouchers: a revocation stays the last word, no paid time is lost; accounts: one person per email, one member per invite; trial guard: two workspaces, a number both may verify and one they can only type, a payout account, a name, restarts that switch texts on and off: one trial per person, but for a number only typed; messages: credits add up, a receipt goes out once | 1.4 M |
| `RouterQueue` | with a lost reply, a script that stops between two blocks, a restart, a transfer and one job per poll: acknowledged means done, ceilings never drop, the router converges to exactly the running packages | 0.32 M |
| `Payments` | two payments, numbers and devices, any rail for one of them: each sale is made once, for good, to its payer, on a device nobody else runs; the path implements `Sale` | 2.0 M |
| `PaymentSettles` | a Daraja and a PayBill payment, phone or TV, one restart, under fairness: a lost callback is found, paid means switched on or reported, ceilings are the time sold | 0.27 M |
| `PppoeMoney` | two plans, prompts, PayBill money, upgrades, boosts, reversals, edits in any order: money is conserved, paid days are kept | 1.2 M |
| `PppoeRouter` | a lost reply or report, a router that refuses logins, retries: once its jobs are done a subscriber has the service the server bills; who lapsed is cut; terminal: two sessions, both transports, timers and half-closed sockets: both ends of a session go together | 0.32 M |
| `LiveRouter` | changes: a lost answer, a restart, a piece the router refuses to remove, a script slower than the cloud waits, the owner's tools: what stays was confirmed, what is left can be removed, every change and every undo ends | 0.60 M |
| `RouterPairing` | a board replaced by another while both poll, one fault: the map is the serving router's, the protocol implements `PairedRouter`, pairing completes | 0.25 M |
| `RemoteAccess` | two locations, two addresses, each kind of fault once: no shared tunnel, a wanted one comes up, an unwanted peer goes | 0.28 M |
| `Business` | setup kits cut off and pasted again; the plan's payment; the payout account; the legacy site: gifts are made once, time left can be used | 0.48 M |
| `ReleasedLogin`, `OverlappingEdit` | counterexamples, see section 5 | |

**Why the bounds are enough.** Two devices make a transfer and a conflict, two
numbers a release, two payments a renewal and a race between two grants. One
fault of each kind loses each message once; two together would need a retry of
a retry, and the retries carry no count except PPPoE's attempts, whose limit is
2 in the run. A queue limit of one makes the LIMIT bite. Two boards and two
kits make a replacement; two locations and two addresses a conflict. Two
workspaces, emails and invites make every pair of rows that could hold one
person. One person changes a password, once; what the others' passwords are is
no part of who may sign in. One person behind both workspaces of the trial guard
reads the texts of one number and can only type the other, which makes every
pair of typed and verified; one piece in `Stubborn` makes an undo incomplete.
`LiveRouter` has two changes, or one and the owner's tools beside it; the safety
theorems cover any number with both. The legacy site has two devices at one moment and
one from then on (`OneDevice`), because its four units of time are what it takes
to use up a sale, run past its end and buy again. A lost reply and a
rebuilt balance, which `PaidTimeUsable` excepts and `GivenOnce` does not depend
on, come there without another fault (`Alone`).

`PppoeRouter` has one grace, no refused revocation and no edit between a poll
and its report, because `RouterFollowsServer` fails without each of the three;
`OverlappingEdit` lifts the last (section 5 has all three). Of payments it
has one prompt or PayBill payment, with the edits, the renewal from credit and
the clock; `RouterServesAsBilled` covers any number.

**Symmetry** is used in `Payments` and `Access`, for sets no step prefers a
member of; their properties are invariants, action properties and a refinement
without fairness.

**Fairness.**

| Where | Assumed | Because |
|---|---|---|
| `TenantPayments` | `SweepFairness`, weak | `setInterval` starts a sweep whenever none runs; every await in it has a 15-second timeout |
| | `DarajaFairness`, strong for an answer to the sweep and the end of a callback's wait | one request may fail any number of times in between, not all of them for ever; the first seconds of a payment pass |
| `RouterQueue`, `PppoeRouter` | the router polls (strong in `RouterQueue`: a poll waits for the script before it), runs what arrives, and reports | the `fiti-poll` scheduler fires for ever; losses are bounded |
| `RouterPairing` | a board with a kit polls and runs its reply | the same scheduler |
| `RouterChanges` | the cloud's clock passes, silent rows are settled, a queued change is sent | the settle limits are clock time; the router polls. Nothing is assumed of its scripts: they may hang, or outlast the cloud's wait |
| `RemoteAccess` | the router polls, the agent runs its round | scheduler; the agent's loop restarts itself |
| `Terminal` | sockets report their close, timers fire | the event loop of Node |
| `PlatformBilling`, `Payouts` | the sweeps run | `setInterval` |

Nothing is assumed of customers, owners, callbacks or status pages.
`LiveReachesRouter` and `EndedLeavesRouter` are stated of the limit, once the
bounds have stopped customers.

**`SlowAnswers`.** With `SlowAnswers = FALSE` no answer is on its way while a
payment's age class changes. With slow answers the sweep can believe a failure
that was asked for inside the grace window, because it reads the age after the
await (`server.js:4476`), where the status page reads it before
(`server.js:2942`). A later success callback repairs it. The safety theorems
hold for both values; `LostCallbackRecovered` is checked without.

**Mutants.** Every property of every passing run has one: a plausible bug in a
mapped definition (the `Mutant of` comments) under which TLC finds the property
violated with the run's own configuration.

## 4. The proofs

For every value of the constants that satisfies the named assumptions (device
ids differ from the placeholders; budgets are numbers; ids are counted from 1;
`-` is no email; a business has plans; ids of different kinds differ; the texts
and the vouchers are finitely many; no plan has the name of a secret's state), which TLC
evaluates on every run:

| Module | Theorem | States of the specification |
|---|---|---|
| `TenantPaymentsProofs` | `TypeCorrect` | `[]TypeOK` |
| | `OnePackagePerDevice` | `[]KeysUnique` |
| | `GrantsArePaidFor` | `[]GrantIsForPayer` |
| | `PaidPaymentsStay` | `PaidStays` |
| | `FirstDeviceWins` | `FirstDeviceKeepsPayment` |
| | `RunningPackagesKeepTheirDevice` | `LivePackageKeepsDevice` |
| | `PaymentsImplementSale` | `ImplementsSale`: a refinement, by step simulation |
| | `TimeSoldIsPaidFor` | `[]TimeMatchesSales` |
| `RouterQueueProofs` | `EndedPackagesStayCut`, `EndedStayCutOnRouter` | `[]RevokedStaysRevoked`, without and with the router's polls |
| | `AcknowledgedIsDone` | `[]AckedIsDone` |
| | `OnlyTheClockTakesTime` | `PaidTimeKept` |
| | `CeilingsOnlyRise` | `CeilingNeverDrops`, where `LoginsSoldOnce` holds and the expiry pilot is off |
| `RouterPairingProofs` | `PairingTypes`, `MapStaysWithItsRouter` | `[]TypeOK`, `[]MapIsOfThisRouter` |
| | `PairingImplementsPromise` | `ImplementsPairing`: a refinement of `PairedRouter` |
| `RouterSideProofs` | `ChangesTypes` | `[]TypeOK` |
| | `OnlyConfirmedChangesStay`, `ChangesCanBePutBack` | `[]KeptOnlyIfConfirmed`, `[]CanBePutBack` |
| | `KitsResume` | `[]HalfBuiltResumes` |
| | `OneTunnelEach` | `[]OneTunnelPerSite` |
| `BusinessProofs` | `OneAccountAtTuma`, `PaidDaysAreServed` | `[]OneTumaAccount`, `[]PaidDaysAreGiven` |
| | `TimeIsGivenOnce`, `MessagesGoOutOnce` | `[]GivenOnce`, `[]SentOnce` |
| | `EmailIsOnePersons`, `InviteIsUsedOnce` | `[]OneLoginPerEmail`, `[]InviteAdmitsOne` |
| | `PaidTimeIsUsable` | `[]PaidTimeUsable` |
| | `NoSecondTrial`, `CreditsAreKept` | `[]OneTrialPerPerson`, `[]CreditsAddUp` |
| `PppoeProofs` | `PaidDaysStay` | `PaidDaysAreKept` |
| | `MoneyIsAccounted` | `[]MoneyAccounted` |
| | `RouterServesAsBilled` | `[]RouterFollowsServer`, where `SteadyRouter` holds |

`MCAccess`, `MCPppoeTerminal` and `MCBusiness` run several components under one
next-state relation; the theorems are about each component's own specification (`Spec` of
`Vouchers` and `PppoeRouter`, `AcSpec`, `TgSpec`, `PySpec`, `PbSpec`, `LegacySpec`, `MsSpec`,
`SetupSpec`), of which a behaviour of that part is one. `AcknowledgedIsDone`,
`EndedStayCutOnRouter` and `CeilingsOnlyRise` are about `RQSpec`, vouchers and
transfers with the poll queue and the router. `PaidDaysStay` and `MoneyIsAccounted`
are about `BillingSpec`, the money of PPPoE alone; `RouterServesAsBilled` about `PppoeRouter`'s `Spec`, the money
and the jobs. `SteadyRouter` is a hypothesis and no assumption of the module: no
edit between a poll and its report, no refused revocation, one grace. The run
`PppoeRouter` satisfies it.

**Payments.** `KeysUnique` needs to know why a release cannot produce a name
that exists: `TablesInv` adds that a tag is 0 or the row's own id, and that a
released row is never live (so a foreign row is never released twice into one
name). `SubscriptionsProofs` shows that each table operation keeps `TablesInv`
and says what it leaves of older rows (`GrantFrame`, `RowsKept`). `PayInv` adds,
for each payment: a paid or provisioned payment's money was taken or returned;
an answer "paid" is only on its way when the money was taken; the grant points
at a row of its payer and kind; `credits` is 1 exactly when `sub` is set. That
is the refinement's core: a grant requires `sub = 0`, hence `credits = 0`, hence
`Sale`'s `Credit`. Each action is one of a few shapes (rewrites one row, grants,
touches no payment); `Good` collects what every step must give.

**Time on the books.** Each step of `TenantPayments` either sells (`Sells`: one
more row, one more `GRANTED` and the sale's days on it) or leaves each row's
time and the sales alone (`TotalsKept`); `EveryStepSellsOrKeeps` sorts the
actions, and `SoldInv` ties the totals to the rows that exist, so that a sale on
a new row cannot touch an old one's.

**Ended packages.** A router removes a user that has ended and stays so because
whatever is queued after the end is a removal too. The invariant is the property
with `TablesInv` and the types: a grant inserts its row with the job, a transfer
or more time ends in a row that is not cut, and each of the other operations
queues at most a removal. `EndedPackagesStayCut` is about `Vouchers`;
`EndedStayCutOnRouter` adds that a poll and the router's report change only
marks on a job, and that a reconnect queues nothing for a row that has ended. In
`TenantPayments` a reversal or the owner's requeue writes later jobs for the row
of its own, and the property is not stated there.

**Poll queue.** That an acknowledged job is what the router has does not follow
from the acknowledgement alone: the server may have queued more since, the router
may have run more without telling, or forgotten `fitiAck` in a power cut.
`QueueInv` therefore follows the order of a login's jobs from the table through
the reply to the router: whatever a reply still has to run for a login comes
behind whatever ran for it (`InTurn`); a job counts as acknowledged only if it
ran (`AckedRan`), because `fitiAck` is set after the last block and nothing
else acknowledges a job that writes; and a login is on the router as the last of
its jobs to run asked (`LastIsDone`). `AcknowledgedIsDone` is these three.

**Ceilings.** `CeilingInv` over it: a job carries the ceiling its row had when it
was queued (`JobsHaveRows`, `CeilingsAreSold`), and rows only grow (`TotalsRise`),
so what runs later is never lower. `CeilingsOnlyRise` has two hypotheses and
needs both. `LoginsSoldOnce`: a login that was released and is sold again starts
at a lower ceiling while the router still has the old one, which is the defect of
`ReleasedLogin` seen from another side. `ExpiryPilot` off: its fresh start
resets the count and with it the ceiling, on purpose.

**Paid time.** A pause moves the row's remaining time to the voucher and a
resume moves it back, onto a row that others may have extended or paused too.
`TimeInv` adds to the types that only the paused, redeemed vouchers hold time
(`HeldInv`), so that `BalanceStays` can compare the sum over a row's vouchers
before and after: one voucher's share changes, the others' do not.

**Pairing.** That the map is the serving router's is inductive only with what
the 24 hours of a staged kit mean: while it is open there is no map and no
report (`KitsInv`, `LivePending`), so the step that promotes it finds nothing
of the old board, and reports are refused in between. That a kit serves only
after its router ran a script needs `BoardInv`: what a board echoes it has run.
Each poll maps to `TakeOver` or to a stutter, each reply that carries a
challenge to `RunScript`.

**Changes.** What stays on a router without being confirmed has its boot guard
and the script that guard runs (`Guarded`), or is what an undo could not remove
(`LeftOver`): when the confirm loop gives up, the script goes even after an
incomplete undo (`GuardStaysArmed`, section 5). `ChangeInv` says per change how it gets there:
which scripts may be at work and where they stand (`OneScript`, `BeforeAsking`,
`WhileAsking`, `UndoAsked`), what a restart runs (`BootGuards`), the rows the
cloud has not heard of yet (`KeptUnheard`), what has not begun (`Begun`,
`NotForUndo`), and the two properties (`StaysIfConfirmed`, `Removable`). No part
speaks of another change, so a step owes an argument for its own change only
(`SameRow`, `SameDevice` for the others). The row and the script are
independent: the cloud may give up on a router that is still asking.

**Setup kits.** A paste may stop after any line, and the next starts from the
first again. `SetupInv` says that the lines still to run fit what is on the
router: what the kit adds under a guard or after its own cleaning is not there yet
(`AddedOnce`), the check at the head has refused or cleaned (`CheckedClean`), and
the bridge comes before what hangs on it (`BridgeFirst`); `PartsStand` ties what
is there to the kit that put it there. The cleaning leaves the internet line
alone, and the check refuses one that another kit made (`OwnWan`): the property
is about the other refusals, and `EveryKitResumes` would cover this one.

**Remote access.** A peer is written in one place, under the server's question
whether another location has the key or the address; the work is that nothing
else makes two peers alike: a moved router's key arrives in the locations' own
rows first, never in a peer.

**Payouts.** "One account at Tuma" survives overlapping requests because the
guard lets one save through (`OneSave`) and an account that exists is either in
the tenant's row or in the hands of the save that made it (`OneCreated`), so a
save that finds no row may create. Only an answer lost on the way breaks the
chain, and the property excepts it.

**Paid days.** A service's days are the served and the remaining ones, and
remaining is counted from the end of the trial while it runs. `DaysInv` says
what the property leaves out: during the trial nothing is served, a date lies
beyond the trial's end or there is none, and the days are exactly those sold;
afterwards they exceed them by at most the trial that was ended early.
`PeriodBought` shows that a purchase adds one period in both cases, `DayPasses`
that a day moves from remaining to served.

**Accounts.** `OnePerson` says per email what the property counts: one owner
row, or one active member row, not both. The steps that give out an email ask
both tables in the same transaction, also when a code sent long before comes
back. `InviteInv` ties the links that open an invite to the last one handed
out, and its use to its state.

**Trial guard.** The rows of fingerprints are only added to, behind what is there,
also when the backfill after a restart records what was typed (`RowsBehind`). So it
is enough that for each running trial its payout account, its name and the numbers
the guard checked for it (`StandsOn`) each have a row that no other workspace's row
precedes (`TrialsStandFirst`): two trials with one value would both stand first.
A verified number is checked (`VerifiedIsChecked`), so while texts are sent there
is no exception. With the switch off a workspace also sells with a number it
only typed, which the backfill recorded and no check saw; that number is the
exception of the property.

**Time given.** A prompt of the original hotspot stops giving once its mark is
stored or its row went with the lost database (`Closed`). `PromptInv` says that
it has given once at most while it is open, and that an open prompt that has
given means a crash between gift and mark; so only the next attempt gives again,
and closes it. A code has given exactly when it is spent.

**Time left.** A login has time left (`TimeLeft`), and the ledger, the jobs that
wait and the router's ceiling each say how much it may use in all. `TimeInv` says
of every login that the total covers the use and the time left, by the router's
count and by the last report (`HasRoom`): a report that finds the counter back
lowers the total by as much as the use fell, and the room stays. Of the ceiling
it says so for the last of the jobs that wait, or for the router where none waits
(`ComingRoom`), because a poll runs them in order: `ScriptFor` follows the script
block by block. A login that is used past its end, because no poll came to switch
it off, still stays under its total, as long as ceilings only rise (`Rising`);
counters that started again take that away, and the next purchase is then added
to a total the use has passed. So the property excepts the two together. Without
the exception TLC finds the violation at the bounds of the run; an earlier form
of the property, checked with less time, did not have it.

**Messages.** What may still be sent has been sent before a restart, or before
an error that was counted, and no more often. For texts this needs that only one
batch has rows, each once and still queued (`BatchesInv`): the worker's flag. For
receipts, of which several rounds read the same rows, it needs that a claimed
row is one round's (`RoundsInv`): the conditional UPDATE.

**Credits.** `CreditsInv` is the property with the types of what it adds up:
each step moves the segments of one text between available, reserved and used,
or adds a pack, once, because a purchase is granted under its own mark.

**Sums.** Credits, paid time and PPPoE money need facts about a fold over a set, and the library's induction
takes an operator as a parameter, which the provers cannot use. `Sums` looks
instead at a smallest set that would be an exception to the lemma
(`SmallestSet`, from the library's well-founded minimum on numbers): taking one
element away gives a smaller one, which is none.

**PPPoE days.** `paid_until` only grows in a payment because whatever it starts
from is not before it: the cut-off is never before `paid_until`
(`AccountOK`), also after a change of grace and a reversal, and a subscriber who
was never set up has no days that `Create` could overwrite. `AppliedGrows` is the
lemma about `applyPayment`; under it, that conversion spends no more than the
credit (`PeriodsAreAffordable`) and that an upgrade or a boost leaves the days
alone. `ReverseStep` shows that a reversal keeps the rest in order; it is the
one step that the property excepts.

**PPPoE money.** Each operation that spends writes on its row what it took from
the credit; `MoneyAccounted` adds up a subscriber's rows. A step changes one row
or none, and the sums move by that row (`RowsAddUp`, `RowSums`): `RowIsBooked`
says what a new payment adds, `ConvertedCharges` that a conversion into days
charges its price times the periods, `RowIsReversed` that a reversal takes its
subscriber out of the property. Days are charged at their plan's price, whatever
the row says it took; an upgrade or a boost is charged what left the credit.

**PPPoE router.** The property speaks of a moment when nothing is on its way;
`RouterInv` says what holds in between. `UserOK`, per subscriber: an open
revocation beside a closed login belongs to somebody who may be cut, a
subscriber who was never set up has nothing on the router, and a subscriber all of whose jobs are
closed has the service the account calls for (`Followed`). `FlightInv`: a script
was made of the accounts as they are, is the answer to every open revocation,
and a report names only jobs that are delivered and whose line the router has
run; while either is on its way nobody's days run out unseen. The steps follow
the path of a job: what each payment and edit queues (`PaymentShows` and its
kin), the poll, the script, where a subscriber's login line outranks the
removal, the report, the loss of either. Each part of `SteadyRouter` is used
once. Without `~Overlap` a report closes a job queued after its script
(`OverlappingEdit`); with a second grace an account stops being one that may be
cut while its revocation is open; with refused revocations an
open one outlives the login that came after it. `Reported` was
corrected on the way: the arms of a `CASE` overlapped, which TLC resolves by
order and the semantics of TLA+ does not, so the proof did not go through; it is
an `IF` chain now, in the order of the code's statements.

**Only model-checked, and why.**

* Liveness (`LostCallbackRecovered`, `PaidIsSwitchedOn`, `LiveReachesRouter`,
  `EndedLeavesRouter`, `LapsedIsCut`, `EveryChangeSettles`, `PairingCompletes`,
  `RequestedGetsTunnel`, `UnwantedPeerLeavesGateway`, `EndsGoTogether`,
  `PlatformPaymentActivates`, `EntitledGetsAccountBack`): fairness and ENABLED
  are beyond the prover.

The refinements and every safety and action property of the passing runs have a
theorem.

## 5. What disagrees with the documentation, and what the models found

Two runs end in a counterexample that is kept:

1. `ReleasedLogin`: a package that was released to the device's next customer
   before its revocation was queued can never be removed from the router: the
   job carries the renamed login, which the script generator refuses
   (`tenant.js:4188`, `rsc.js:16`).
2. `OverlappingEdit`: a speed changed between a poll and its report queues the
   delivered row again under its id, which the late report then acknowledges
   (`pppoe.js:206`, `pppoe.js:408`): the new speed is never sent.

Four more properties stand in the modules beside those the runs check, as the
documentation has them, and do not hold: TLC finds a counterexample when the
named cfg has them as its INVARIANT.

3. `GuardStaysArmed` (`LiveRouter.cfg`): when the confirm loop gives up,
   `confirmLines` removes the script `fiti-reboot-<id>` whatever the undo achieved
   (`router-changes.js:830`), and the boot guard that is left has nothing to run;
   `router-changes.js:720` promises "a guard that runs it if the router restarts
   before the cloud confirms", and `:795` that a partial undo "runs again".
4. `OneTrialPerNumber` (`Access.cfg`): one workspace verified a number, another
   typed it; a restart that switches texts off (`server.js:53-57`) records the
   typed one without a check, and both sell on a trial with one number
   (`trial-guard.js:6`: "once per owner phone number").
5. `TypedNumbersEndNoTrial` (`Access.cfg`): the backfill records typed,
   unverified numbers at every start (`trial-guard.js:74`), and the trial of
   whoever verifies such a number afterwards ends; `phone-verify.js:7` says
   "nobody can end someone else's trial by typing their number first".
6. `EveryKitResumes` (`Business.cfg`): a kit for a new network whose internet
   line is PPPoE, a fixed address or DHCP on another port stops half-way; the
   automatic kit cleans up all but the line, and may then refuse the router for
   it (`router-setup.js:656`), although `router-setup.js:923` says that the
   tagged state "is safely rebuilt automatically".

TLC found these with earlier runs of the same modules, or finds them when the
bound or condition named here is lifted; the passing runs exclude the trigger
and nothing else:

7. Buy for A, transfer to B, buy for A again: the new package's login name
   exists already, the INSERT fails on every retry, and neither customer nor
   operator is told (`tenant.js:131`; `PaymentSettles` has one device).
8. Jobs the script generator refuses are never marked, and starve all others
   once they fill a batch (`rsc.js:10` says they are dropped).
9. The owner's retry of a payment whose package ended puts its login back for
   good (`business-operations.js:288`); `RevokedStaysRevoked` is checked without
   payments.
10. Expiry pilot: the reset of a new cycle is not idempotent (`rsc.js:213`), and
   is dropped when a newer job of the login supersedes it (`tenant.js:1620`).
   The runs have the pilot off; the theorems hold with it.
11. The adoption by the outgoing router outlives the pairing (`tenant.js:3511`):
   the new board is shown as configured before it reported anything, which the
   comment at `tenant.js:3852` means to prevent.
12. With email codes on, a code sent for the old password signs in after the
   password changed (`server.js:1238`; `team.js:437`: "the old password (and
   anyone signed in with it) stops working").
13. A peer the agent set but did not write down before a crash stays on the
    gateway when it is revoked meanwhile (`agent.js:280`).
14. A router moved while its activation is on its way never gets its tunnel,
    because the row waits for an acknowledgement of the other location.
15. Terminal: the registry of sessions is keyed by location and emptied by any
    session's close, so that a third session opens beside the first
    (`router-terminal.js:246`); the timer of a request frame is never cleared
    (`terminal-link.js:120`); a relay's connect timeout stays armed on the open
    socket (`agent.js:514`); and `POST /terminal` calls a function that
    `terminal-link.js` does not export (`server.js:2379`), so that every request
    for a ticket fails.
16. A WhatsApp receipt claimed by a process that restarts within ten minutes
    stays `sending` until a later restart. Business reminders can be recorded
    as sent although the provider refused them.
17. Legacy site: a redelivered older job lowers the ceiling of a newer one
    (`rsc.js:94`, `db.js:62`: "redelivery is a no-op"); a PayBill
    receipt is looked up among the prompts' receipts but never kept
    (`server.js:4936`), so a repeated confirmation gives its time again
    (`GivenOnce` is about prompts and vouchers); a package moved by
    transfer comes back to the old device with its next purchase; a fresh
    database locks customers out, although `grant.js:28-37` says the grant
    corrects itself; a voucher claimed before a crash is lost. After a reset of
    the router's counters the report lowers the total and the router keeps its
    higher ceiling (`server.js:6163`, `db.js:674`: "so the customer's remaining
    time is unchanged"). A login that is then used past its end before a poll
    switches it off has used more than its total, and the next purchase's ceiling
    is too low by the difference: the customer is locked out of time just paid
    for.
18. A PPPoE revocation that the router refused is tried again after its
    back-off although a payment switched the login on meanwhile
    (`pppoe.js:413`), and cuts a subscriber who paid. The script's removal
    lines are not known to fail; `Refusable` excludes them.
19. A PPPoE payment too small for a period queues a revocation for a subscriber
    who is past the cut-off and whose router has not polled yet (`pppoe.js:194`).
    If a longer grace then brings the subscriber back, `regraceBusiness` queues a
    login only for those already `expired` (`pppoe-billing.js:233`: "Back inside
    the longer grace: switch the login back on"). The waiting revocation cuts an
    active subscriber, and no job is left.
20. Read in the code, and left open by the model: the confirm loop of a change
    can outlast the cloud's eight minutes, with 26 tries, each a delay of 3
    seconds and two fetches, which need take no more than 9 seconds to time out
    (`router-changes.js:809-816`). The comments say "up to 16 times ... under 7
    minutes at worst" (`router-changes.js:30`) and "well inside the cloud's
    8-minute wait" (`:808`). The cloud may settle the row while the router asks.

## 6. Not modelled

* Offboarding: tables and jobs exist, but no route of this commit requests one.
* The direct RouterOS API mode of the legacy site (`mikrotik.js`); the default,
  polling, is modelled.
* The administrator's refund (`fiti-signal-admin-controls.js:62-77`): it ends
  the package in the database only, queues no revocation, and gives the payment
  a status no other handler knows.
* A location's jobs across two routers (`tenant.js:878`): `RouterPairing`
  follows identity and map, `RouterQueue` the jobs of one router.
* TVs linked to a phone's package (`tenant_devices`, kept from before TVs bought
  their own); usage counters; the sandbox mode in which a callback is believed
  without a query; the 24-hour limit of the provisioning backlog.
* The edge gateway, reports, documents, demo data and browser pages: caches,
  queries and clients of the routes above.

## 7. Plan

Modelled, checked and proved as above: no safety or action property of a passing
run is without a theorem. What is left are the hazards without a property
(`PROJECT.json`), most of which are defects of section 5: a property there
belongs beside a fix.
