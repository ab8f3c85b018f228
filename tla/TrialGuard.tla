------------------------------ MODULE TrialGuard ------------------------------
(***************************************************************************)
(* One free trial per person (src/src/lib/trial-guard.js), and the text     *)
(* message that proves an owner's number (src/src/lib/phone-verify.js).     *)
(* Workspaces report an owner's number, a payout account and a name on an   *)
(* ID; the guard keeps who used each of them first and ends the trial of    *)
(* whoever comes later.                                                     *)
(***************************************************************************)
EXTENDS Naturals, Sequences, SequencesExt

CONSTANTS
    TgBusinesses,     \* 1..n, in the order they sign up
    TgPhones, TgPayouts, TgNames,
    TgHolds      \* the numbers whose text messages the person behind a workspace reads

ASSUME TrialGuardAssumption ==
    /\ IsFiniteSet(TgBusinesses) /\ TgBusinesses = 1..Cardinality(TgBusinesses)
    /\ TgHolds \in [TgBusinesses -> SUBSET TgPhones]

VARIABLES
    sms,       \* phoneVerification.available(): a switch read when the server starts
    account,   \* businesses: [trial, phone, verified, payout, name]
    texted,    \* owner_phone_codes: the number each workspace's code was sent to
    prints,    \* trial_fingerprints: who used each value, the oldest row first
    checked    \* history: the numbers each workspace had checked by the guard

tgVars == <<sms, account, texted, prints, checked>>

Unset == "-"
\* trial: none (no account), running, guarded (ended by the guard), over
NotSignedUp == [trial |-> "none", phone |-> Unset, verified |-> Unset, payout |-> Unset, name |-> Unset]
\* A row of trial_fingerprints is looked up among those of its value only.
Fingerprints == ({"phone"} \X TgPhones) \cup ({"payout"} \X TgPayouts) \cup ({"name"} \X TgNames)

\* What is reported in one call: a value of each kind, or none of it.
TgKinds == {"phone", "payout", "name"}
NoValues == [kind \in TgKinds |-> Unset]

TgInit ==
    /\ sms \in BOOLEAN
    /\ account = [b \in TgBusinesses |-> NotSignedUp]
    /\ texted = [b \in TgBusinesses |-> Unset]
    /\ prints = [f \in Fingerprints |-> << >>]
    /\ checked = [b \in TgBusinesses |-> {}]

-----------------------------------------------------------------------------
(* The guard *)

\* INSERT OR IGNORE of what was given: the row a workspace has of a value keeps
\* its place.
Recorded(rows, values, b) ==
    [f \in Fingerprints |-> IF values[f[1]] = f[2] /\ b \notin Range(rows[f]) THEN Append(rows[f], b) ELSE rows[f]]

\* firstOther: the value is known of another workspace whose row is older.
UsedBefore(users, b) == b \in Range(users) /\ users[1] # b
Second(rows, values, b) == \E f \in Fingerprints : values[f[1]] = f[2] /\ UsedBefore(rows[f], b)

\* Mutant of CheckedTrial: the other workspaces are looked up before the row is there.
CheckedTrialFirst(trial, values, b) ==
    IF trial = "running" /\ Second(prints, values, b) THEN "guarded" ELSE trial
\* check: records the values, then ends a trial that is still running.
CheckedTrial(trial, values, b) ==
    IF trial = "running" /\ Second(Recorded(prints, values, b), values, b) THEN "guarded" ELSE trial

\* The row of workspace b becomes acc, and the guard checks these values.
SavedAndChecked(b, acc, values) ==
    /\ account' = [account EXCEPT ![b] = [acc EXCEPT !.trial = CheckedTrial(@, values, b)]]
    /\ prints' = Recorded(prints, values, b)
Saved(b, acc) ==
    /\ account' = [account EXCEPT ![b] = acc]
    /\ UNCHANGED prints

-----------------------------------------------------------------------------
(* What reports to it *)

PhoneChecked(b, acc) ==
    /\ SavedAndChecked(b, acc, [NoValues EXCEPT !["phone"] = acc.phone])
    /\ checked' = [checked EXCEPT ![b] = @ \cup {acc.phone}]
\* Where text messages are sent, a number is not checked before it is verified.
PhoneSaved(b, acc) ==
    IF sms \/ acc.phone = Unset THEN Saved(b, acc) /\ UNCHANGED checked ELSE PhoneChecked(b, acc)

\* Sign-up; with Google, or a short form, the number comes later.
SignUp(b, p) ==
    /\ account[b].trial = "none" /\ \A c \in TgBusinesses : c < b => account[c].trial # "none"
    /\ PhoneSaved(b, [NotSignedUp EXCEPT !.trial = "running", !.phone = p])
    /\ UNCHANGED <<sms, texted>>
SaveOrganisation(b, p) ==
    /\ account[b].trial # "none"
    /\ PhoneSaved(b, [account[b] EXCEPT !.phone = p])
    /\ UNCHANGED <<sms, texted>>

\* start; a code sent to a number of somebody else is never typed.
StartVerify(b, p) ==
    /\ sms /\ account[b].trial # "none" /\ p \in TgHolds[b]
    /\ texted' = [texted EXCEPT ![b] = p]
    /\ UNCHANGED <<sms, account, prints, checked>>
\* confirm, which does not ask whether text messages are still sent.
Confirm(b) ==
    LET p == texted[b] IN
    /\ p # Unset
    /\ texted' = [texted EXCEPT ![b] = Unset]
    /\ PhoneChecked(b, [account[b] EXCEPT !.phone = p, !.verified = p])
    /\ UNCHANGED sms
\* The code expires, or five wrong ones were typed.
CodeSpent(b) ==
    /\ texted[b] # Unset
    /\ texted' = [texted EXCEPT ![b] = Unset]
    /\ UNCHANGED <<sms, account, prints, checked>>

\* A Tuma payout account (with the name on the ID), a linked Tuma account, or
\* a PayBill or Till of one's own.
SavePayout(b, x, n) ==
    /\ account[b].trial # "none"
    /\ SavedAndChecked(b, [account[b] EXCEPT !.payout = x, !.name = IF n = Unset THEN @ ELSE n],
                       [NoValues EXCEPT !["payout"] = x, !["name"] = n])
    /\ UNCHANGED <<sms, texted, checked>>

\* The seven days run out, or a plan is bought.
TrialEnds(b) ==
    /\ account[b].trial = "running"
    /\ account' = [account EXCEPT ![b].trial = "over"]
    /\ UNCHANGED <<sms, texted, prints, checked>>

\* backfillPhones: every owner's number that has no row gets one, in the order of
\* the workspaces, verified or not, and no trial ends.
Unrecorded(p) == {b \in TgBusinesses : account[b].phone = p /\ b \notin Range(prints[<<"phone", p>>])}
BackfillPhones ==
    \E late \in [TgPhones -> BoundedSeq(TgBusinesses, Cardinality(TgBusinesses))] :
        /\ \A p \in TgPhones :
              /\ Range(late[p]) = Unrecorded(p)
              /\ \A i, j \in DOMAIN late[p] : i < j => late[p][i] < late[p][j]
        /\ prints' = [f \in Fingerprints |-> IF f[1] = "phone" THEN prints[f] \o late[f[2]] ELSE prints[f]]
\* The server starts again, with a provider of texts or without one
\* (OWNER_PHONE_VERIFICATION_DISABLED, AFRICASTALKING_API_KEY).
RestartServer ==
    /\ BackfillPhones
    /\ sms' \in BOOLEAN
    /\ UNCHANGED <<account, texted, checked>>

TgNext ==
    \/ \E b \in TgBusinesses, p \in TgPhones \cup {Unset} : SignUp(b, p)
    \/ \E b \in TgBusinesses, p \in TgPhones : SaveOrganisation(b, p) \/ StartVerify(b, p)
    \/ \E b \in TgBusinesses : Confirm(b) \/ CodeSpent(b) \/ TrialEnds(b)
    \/ \E b \in TgBusinesses, x \in TgPayouts, n \in TgNames \cup {Unset} : SavePayout(b, x, n)
    \/ RestartServer

TgSpec == TgInit /\ [][TgNext]_tgVars

-----------------------------------------------------------------------------

\* A workspace that sells on its free trial (ownerPhoneBlock lets it).
SellsOnTrial(b) ==
    account[b].trial = "running" /\ (sms => account[b].phone # Unset /\ account[b].verified = account[b].phone)

\* "One free trial per person": no two workspaces sell on a trial with one
\* payout account, one name or one number, in whatever order they sign up,
\* verify, change their details and the server restarts in between.  While text
\* messages are sent there is no exception.  With the switch off there is one: a
\* number that was only typed while they were sent was recorded at the restart,
\* but never checked.
OnlyTyped(b) == ~sms /\ account[b].phone \notin checked[b]
OneTrialPerPerson ==
    \A b, c \in {d \in TgBusinesses : SellsOnTrial(d)} :
        \A f \in {"phone", "payout", "name"} : b # c /\ account[b][f] # Unset /\ account[b][f] = account[c][f] =>
            f = "phone" /\ (OnlyTyped(b) \/ OnlyTyped(c))

\* "The 7-day trial is given once per owner phone number" (trial-guard.js:6).  It
\* is not: a number typed while text messages were sent and another verified sells
\* beside it once a restart switched them off.
OneTrialPerNumber ==
    \A b, c \in {d \in TgBusinesses : SellsOnTrial(d)} :
        b # c /\ account[b].phone # Unset => account[b].phone # account[c].phone

\* "Until it is verified it never counts as used: nobody can end someone else's
\* trial by typing their number first" (phone-verify.js:7-8): a trial the guard
\* ended shared a payout account, a name or a checked number with another
\* workspace.  It does not hold: a restart records numbers that were only typed.
SharedWith(b, c) ==
    \/ checked[b] \cap checked[c] # {}
    \/ \E f \in Fingerprints : f[1] # "phone" /\ {b, c} \subseteq Range(prints[f])
TypedNumbersEndNoTrial ==
    \A b \in TgBusinesses : account[b].trial = "guarded" => \E c \in TgBusinesses \ {b} : SharedWith(b, c)

=============================================================================
