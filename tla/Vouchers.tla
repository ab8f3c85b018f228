------------------------------ MODULE Vouchers ------------------------------
(***************************************************************************)
(* Prepaid vouchers of one location: redemption at the portal              *)
(* (redeemVoucher) and the owner's bulk actions (manageVouchers), on top   *)
(* of the subscription and job tables.  Every handler runs inside one      *)
(* BEGIN IMMEDIATE transaction and awaits nothing, so each is one action.  *)
(***************************************************************************)
EXTENDS Subscriptions, FiniteSets, FiniteSetsExt

CONSTANTS
    Codes,          \* voucher codes of one printed batch
    VoucherSeconds, \* time each one is sold with
    ExtendBy,       \* the time the owner adds with one Extend
    MaxSeconds      \* the trial limit on one voucher's value (also a bound)

\* tenant_vouchers: [state: "open", "redeemed" or "deleted", seconds, paused,
\* held: paused_seconds, row: redeemed_subscription_id, 0 when there is none]
VARIABLE vouchers

vars == <<tables, vouchers>>

ASSUME VouchersAssumption ==
    /\ IsFiniteSet(Codes)
    /\ VoucherSeconds \in Nat \ {0}
    /\ ExtendBy \in Nat \ {0}
    /\ MaxSeconds \in Nat

Init ==
    /\ now = 0
    /\ subs = << >>
    /\ jobs = << >>
    /\ vouchers = [c \in Codes |-> [state |-> "open", seconds |-> VoucherSeconds,
                                    paused |-> FALSE, held |-> 0, row |-> 0]]

-----------------------------------------------------------------------------
(* Helpers of manageVouchers *)

\* provision: send the login again with the new ceiling.
Provision(i, total) ==
    jobs' = Append(jobs, NewJob(subs[i].name, UpsertAction(subs[i].kind), total, subs[i].mac))

\* Mutants of GiveTime: the time left is thrown away, or the revocation of the
\* ended session is not forgotten.
GiveTimeFromNow(i, extra) ==
    LET total == subs[i].total + extra IN
    /\ subs' = [subs EXCEPT ![i].expires = now + extra, ![i].total = total, ![i].expiryJob = 0]
    /\ Provision(i, total)

GiveTimeKeepsExpiryJob(i, extra) ==
    LET total == subs[i].total + extra IN
    /\ subs' = [subs EXCEPT ![i].expires = Later(now, @) + extra, ![i].total = total]
    /\ Provision(i, total)

\* giveTime: `extra` more seconds from now, or on top of what is left.
GiveTime(i, extra) ==
    LET total == subs[i].total + extra IN
    /\ subs' = [subs EXCEPT ![i].expires = Later(now, @) + extra,
                            ![i].total = total,
                            ![i].expiryJob = 0]
    /\ Provision(i, total)

\* pause of a running session: end it now and queue its revocation.
Disconnect(i) ==
    /\ jobs' = Append(jobs, NewJob(subs[i].name, "revoke", 1, subs[i].mac))
    /\ subs' = [subs EXCEPT ![i].expires = now - 1, ![i].expiryJob = Len(jobs) + 1]

-----------------------------------------------------------------------------
(* Actions *)

\* POST voucher/redeem.  A grant that fails rolls the claim back.
Redeem(c, p, m) ==
    /\ Len(jobs) < MaxJobs
    /\ vouchers[c].state = "open"
    /\ ~vouchers[c].paused
    /\ GrantSubscription(p, m, "phone", vouchers[c].seconds)
    /\ vouchers' = [vouchers EXCEPT ![c].state = "redeemed", ![c].row = GrantedRow(p, m, "phone")]
    /\ UNCHANGED now

Delete(c) ==
    /\ vouchers[c].state = "open"
    /\ vouchers' = [vouchers EXCEPT ![c].state = "deleted", ![c].paused = FALSE]
    /\ UNCHANGED tables

PauseUnused(c) ==
    /\ vouchers[c].state = "open"
    /\ ~vouchers[c].paused
    /\ vouchers' = [vouchers EXCEPT ![c].paused = TRUE]
    /\ UNCHANGED tables

PauseSession(c) ==
    LET i == vouchers[c].row IN
    /\ Len(jobs) < MaxJobs
    /\ vouchers[c].state = "redeemed"
    /\ ~vouchers[c].paused
    /\ ~Gone(i)
    /\ Remaining(i) > 0
    /\ vouchers' = [vouchers EXCEPT ![c].paused = TRUE, ![c].held = Remaining(i)]
    /\ Disconnect(i)
    /\ UNCHANGED now

ResumeUnused(c) ==
    /\ vouchers[c].state = "open"
    /\ vouchers[c].paused
    /\ vouchers' = [vouchers EXCEPT ![c].paused = FALSE, ![c].held = 0]
    /\ UNCHANGED tables

ResumeSession(c) ==
    /\ Len(jobs) < MaxJobs
    /\ vouchers[c].state = "redeemed"
    /\ vouchers[c].paused
    /\ ~Gone(vouchers[c].row)
    /\ GiveTime(vouchers[c].row, vouchers[c].held)
    /\ vouchers' = [vouchers EXCEPT ![c].paused = FALSE, ![c].held = 0]
    /\ UNCHANGED now

ExtendUnused(c) ==
    /\ vouchers[c].state = "open"
    /\ vouchers[c].seconds + ExtendBy <= MaxSeconds
    /\ vouchers' = [vouchers EXCEPT ![c].seconds = @ + ExtendBy]
    /\ UNCHANGED tables

ExtendPaused(c) ==
    /\ vouchers[c].state = "redeemed"
    /\ vouchers[c].paused
    /\ vouchers[c].held + ExtendBy <= MaxSeconds
    /\ vouchers' = [vouchers EXCEPT ![c].held = @ + ExtendBy]
    /\ UNCHANGED tables

ExtendSession(c) ==
    LET i == vouchers[c].row IN
    /\ Len(jobs) < MaxJobs
    /\ vouchers[c].state = "redeemed"
    /\ ~vouchers[c].paused
    /\ ~Gone(i)
    /\ Remaining(i) + ExtendBy <= MaxSeconds
    /\ GiveTime(i, ExtendBy)
    /\ UNCHANGED <<now, vouchers>>

Manage(c) ==
    \/ Delete(c)
    \/ PauseUnused(c)   \/ PauseSession(c)
    \/ ResumeUnused(c)  \/ ResumeSession(c)
    \/ ExtendUnused(c)  \/ ExtendPaused(c)  \/ ExtendSession(c)

CustomerStep ==
    /\ \E i \in DOMAIN subs : Connect(i) \/ \E m \in Macs : Transfer(i, m)
    /\ UNCHANGED vouchers

Next ==
    \/ \E c \in Codes : Manage(c) \/ \E p \in Phones, m \in Macs : Redeem(c, p, m)
    \/ CustomerStep
    \/ Tick /\ UNCHANGED vouchers

Spec == Init /\ [][Next]_vars

-----------------------------------------------------------------------------
(* Properties *)

Held == [c \in Codes |-> vouchers[c].held]
VouchersOf(i) == {c \in Codes : vouchers[c].row = i}
TimeIn(held, S) == MapThenSumSet(LAMBDA c : held[c], S)

\* The time a package still has: what runs, and what its paused vouchers hold.
Balance(i) == Remaining(i) + TimeIn(Held, VouchersOf(i))

\* Only the clock uses up paid time: pausing, resuming, extending, moving or
\* reconnecting a package, and other customers' purchases, never shorten what
\* the customer still has (manageVouchers: "pausing disconnects them and holds
\* the time left, resuming gives it back").
PaidTimeKept ==
    [][now' = now => \A i \in DOMAIN subs : Balance(i)' >= Balance(i)]_vars

=============================================================================
