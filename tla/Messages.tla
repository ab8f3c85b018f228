------------------------------- MODULE Messages -------------------------------
(***************************************************************************)
(* Messages to customers (fiti-signal.js, whatsapp-notifications.js and    *)
(* their workers in server.js).  Texts cost credits, which the business    *)
(* buys from Wi-Fi Fiti; a credit is reserved while its text is queued and *)
(* used or given back when the provider has answered.  WhatsApp notes are  *)
(* free, claimed one by one and tried again.  A worker keeps the rows it   *)
(* read while it waits for the provider; every write of it is synchronous. *)
(*                                                                         *)
(* The owner's limits count queued and sent segments like the trial's, and *)
(* skip a text without a trace; services and wording are left out.         *)
(***************************************************************************)
EXTENDS Integers, Sequences, FiniteSets, FiniteSetsExt

CONSTANTS
    Texts,       \* events that send a text
    Notes,       \* payments that send a WhatsApp note
    Segments,    \* [Texts -> Nat \ {0}]: what each text costs
    Purchases,   \* purchases of credits
    PackSize,    \* credits of a purchase
    TrialLimit,  \* free segments of the trial
    NoteTries,   \* attempts before a note is given up
    MaxStops     \* bound: restarts, pauses and corrections by the administrator

ASSUME MessagesAssumption ==
    /\ Segments \in [Texts -> Nat \ {0}] /\ PackSize \in Nat \ {0}
    /\ TrialLimit \in Nat /\ NoteTries \in Nat \ {0} /\ MaxStops \in Nat
    /\ IsFiniteSet(Texts) /\ IsFiniteSet(Notes) /\ Texts \cap Notes = {}

VARIABLES
    credits,   \* fiti_signal_accounts: [available, reserved, used]
    bought,    \* purchases: [paid: the purchase, granted: its platform payment]
    corrected, \* history: the administrator's adjustments together
    onTrial, paused,
    texts,     \* fiti_signal_messages: [status, trial]
    batches,   \* the SMS worker's runs: rows still to send, and whether the
               \* provider has taken the first
    notes,     \* whatsapp_notifications: [status, attempts, due, old]
    rounds,    \* the WhatsApp worker's runs: [rows, at: "read", "claimed", "taken"]
    out,       \* history: how often a message went out
    errors,    \* history: how often a note was answered with an error
    stops

smsVars == <<credits, bought, corrected, onTrial, paused, texts, batches>>
waVars == <<notes, rounds>>
msVars == <<smsVars, waVars, out, errors, stops>>

Runs == {1, 2}
Idle == [rows |-> <<>>, taken |-> FALSE]
NoRound == [rows |-> <<>>, at |-> "read"]

MsInit ==
    /\ credits = [available |-> 0, reserved |-> 0, used |-> 0] /\ corrected = 0
    /\ bought = [p \in Purchases |-> [paid |-> FALSE, granted |-> FALSE]]
    /\ onTrial \in BOOLEAN /\ paused = FALSE
    /\ texts = [t \in Texts |-> [status |-> "none", trial |-> FALSE]]
    /\ batches = [r \in Runs |-> Idle]
    /\ notes = [n \in Notes |-> [status |-> "none", attempts |-> 0, due |-> TRUE, old |-> FALSE]]
    /\ rounds = [r \in Runs |-> NoRound]
    /\ out = [m \in Texts \cup Notes |-> 0] /\ errors = [n \in Notes |-> 0]
    /\ stops = 0

Orders(S) == {q \in [1..Cardinality(S) -> S] : \A i, j \in DOMAIN q : q[i] = q[j] => i = j}
Stop == stops < MaxStops /\ stops' = stops + 1
NoStop == UNCHANGED stops

----------------------------------------------------------------------------
(* Credits                                                                  *)

\* completePurchase: once, whoever finds the payment settled.
Paid(p) == bought[p].paid
\* Mutant of Completed: a purchase is credited by every settled report of it.
CompletedAgain(p) == [credits EXCEPT !.available = @ + PackSize]
Completed(p) == IF Paid(p) THEN credits ELSE [credits EXCEPT !.available = @ + PackSize]

\* activateSmsPurchase, from the callback, the status page or the sweep: the
\* purchase in one transaction, the grant of its payment in the next.
ActivateSmsPurchase(p) ==
    /\ ~bought[p].granted
    /\ credits' = Completed(p)
    /\ \/ NoStop /\ bought' = [bought EXCEPT ![p] = [paid |-> TRUE, granted |-> TRUE]]
       \/ Stop /\ bought' = [bought EXCEPT ![p].paid = TRUE]
    /\ UNCHANGED <<corrected, onTrial, paused, texts, batches, waVars, out, errors>>

\* The administrator adds credits, or takes back what is still available.
Adjust(delta) ==
    /\ Stop /\ credits.available + delta >= 0
    /\ credits' = [credits EXCEPT !.available = @ + delta]
    /\ corrected' = corrected + delta
    /\ UNCHANGED <<bought, onTrial, paused, texts, batches, waVars, out, errors>>

\* Pausing keeps the next batch from starting.
Pause ==
    /\ IF paused THEN NoStop ELSE Stop
    /\ paused' = ~paused
    /\ UNCHANGED <<credits, bought, corrected, onTrial, texts, batches, waVars, out, errors>>

TrialOver ==
    /\ onTrial /\ onTrial' = FALSE
    /\ UNCHANGED <<credits, bought, corrected, paused, texts, batches, waVars, out, errors, stops>>

----------------------------------------------------------------------------
(* Texts                                                                    *)

SumOf(S) == MapThenSumSet(LAMBDA t : Segments[t], S)
TrialUsed == SumOf({t \in Texts : texts[t].trial /\ texts[t].status \in {"queued", "sent"}})

\* enqueue: an event that is known already adds nothing.
Enqueue(t) ==
    /\ texts[t].status = "none"
    /\ IF onTrial /\ TrialUsed + Segments[t] <= TrialLimit
       THEN /\ texts' = [texts EXCEPT ![t] = [status |-> "queued", trial |-> TRUE]]
            /\ UNCHANGED credits
       ELSE /\ credits.available >= Segments[t]
            /\ credits' = [credits EXCEPT !.available = @ - Segments[t], !.reserved = @ + Segments[t]]
            /\ texts' = [texts EXCEPT ![t].status = "queued"]
    /\ UNCHANGED <<bought, corrected, onTrial, paused, batches, waVars, out, errors, stops>>

\* smsBatchRunning: one batch at a time.
MayStart(r) == \A s \in Runs : batches[s].rows = <<>>

\* The worker's timer: processQueue reads what is queued.
SmsBatch(r) ==
    /\ MayStart(r) /\ ~paused
    /\ \E rows \in Orders({t \in Texts : texts[t].status = "queued"}) :
           rows # <<>> /\ batches' = [batches EXCEPT ![r].rows = rows]
    /\ UNCHANGED <<credits, bought, corrected, onTrial, paused, texts, waVars, out, errors, stops>>

\* The provider takes the text.
SmsTaken(r) ==
    /\ batches[r].rows # <<>> /\ ~batches[r].taken
    /\ batches' = [batches EXCEPT ![r].taken = TRUE]
    /\ out' = [out EXCEPT ![Head(batches[r].rows)] = @ + 1]
    /\ UNCHANGED <<credits, bought, corrected, onTrial, paused, texts, waVars, errors, stops>>

Less(a, b) == IF a > b THEN a - b ELSE 0
Settlement(t, ok) ==
    IF ok THEN [credits EXCEPT !.reserved = Less(@, Segments[t]), !.used = @ + Segments[t]]
          ELSE [credits EXCEPT !.reserved = Less(@, Segments[t]), !.available = @ + Segments[t]]

\* Its answer, or an error: a refusal, or a timeout of ten seconds though the
\* text went out.  The row's status is checked, the account's update is not.
SmsAnswered(r, ok) ==
    /\ batches[r].rows # <<>> /\ (ok => batches[r].taken)
    /\ LET t == Head(batches[r].rows) IN
       /\ texts' = [texts EXCEPT ![t].status =
                       IF @ = "queued" THEN (IF ok THEN "sent" ELSE "failed") ELSE @]
       /\ credits' = IF texts[t].trial THEN credits ELSE Settlement(t, ok)
    /\ batches' = [batches EXCEPT ![r] = [rows |-> Tail(@.rows), taken |-> FALSE]]
    /\ UNCHANGED <<bought, corrected, onTrial, paused, waVars, out, errors, stops>>

----------------------------------------------------------------------------
(* WhatsApp notes                                                           *)

\* enqueuePayment: INSERT OR IGNORE.
EnqueuePayment(n) ==
    /\ notes[n].status = "none"
    /\ notes' = [notes EXCEPT ![n].status = "pending"]
    /\ UNCHANGED <<smsVars, rounds, out, errors, stops>>

\* The worker's timer does not wait for the last run.
WaRound(r) ==
    /\ rounds[r].rows = <<>>
    /\ \E rows \in Orders({n \in Notes : notes[n].status = "pending" /\ notes[n].due}) :
           rows # <<>> /\ rounds' = [rounds EXCEPT ![r].rows = rows]
    /\ UNCHANGED <<smsVars, notes, out, errors, stops>>

\* Mutant of Claims: a note that was read is claimed.
ClaimsUnread(n) == TRUE
\* markSending: only what is still pending is claimed.
Claims(n) == notes[n].status = "pending"
Next1(round) == [rows |-> Tail(round.rows), at |-> "read"]
WaClaim(r) ==
    /\ rounds[r].rows # <<>> /\ rounds[r].at = "read"
    /\ LET n == Head(rounds[r].rows) IN
       IF Claims(n)
       THEN /\ notes' = [notes EXCEPT ![n] = [notes[n] EXCEPT !.status = "sending", !.attempts = @ + 1,
                                                              !.old = FALSE]]
            /\ rounds' = [rounds EXCEPT ![r].at = "claimed"]
       ELSE rounds' = [rounds EXCEPT ![r] = Next1(@)] /\ UNCHANGED notes
    /\ UNCHANGED <<smsVars, out, errors, stops>>

WaTaken(r) ==
    /\ rounds[r].rows # <<>> /\ rounds[r].at = "claimed"
    /\ rounds' = [rounds EXCEPT ![r].at = "taken"]
    /\ out' = [out EXCEPT ![Head(rounds[r].rows)] = @ + 1]
    /\ UNCHANGED <<smsVars, notes, errors, stops>>

\* markSent, or markRetry until the attempts are used up.
WaAnswered(r, ok) ==
    /\ rounds[r].rows # <<>> /\ rounds[r].at \in {"claimed", "taken"}
    /\ ok => rounds[r].at = "taken"
    /\ LET n == Head(rounds[r].rows) IN
       /\ notes' = [notes EXCEPT ![n] =
              IF ok THEN [@ EXCEPT !.status = "sent"]
              ELSE [@ EXCEPT !.due = FALSE,
                             !.status = IF notes[n].attempts >= NoteTries THEN "failed" ELSE "pending"]]
       /\ errors' = IF ok THEN errors ELSE [errors EXCEPT ![n] = @ + 1]
    /\ rounds' = [rounds EXCEPT ![r] = Next1(@)]
    /\ UNCHANGED <<smsVars, out, stops>>

\* A retry's delay is over; a claim is ten minutes old.
WaitsOver(n) ==
    /\ \/ notes[n].status = "pending" /\ ~notes[n].due /\ notes' = [notes EXCEPT ![n].due = TRUE]
       \/ notes[n].status = "sending" /\ ~notes[n].old /\ notes' = [notes EXCEPT ![n].old = TRUE]
    /\ UNCHANGED <<smsVars, rounds, out, errors, stops>>

----------------------------------------------------------------------------

\* The process stops: the runs are gone.  At its start only claims that are ten
\* minutes old are taken back.
MsRestart ==
    /\ Stop
    /\ batches' = [r \in Runs |-> Idle] /\ rounds' = [r \in Runs |-> NoRound]
    /\ notes' = [n \in Notes |-> IF notes[n].status = "sending" /\ notes[n].old
                                 THEN [notes[n] EXCEPT !.status = "pending"] ELSE notes[n]]
    /\ UNCHANGED <<credits, bought, corrected, onTrial, paused, texts, out, errors>>

SmsNext ==
    \/ \E p \in Purchases : ActivateSmsPurchase(p)
    \/ \E delta \in {-PackSize, 1} : Adjust(delta)
    \/ Pause \/ TrialOver \/ MsRestart
    \/ \E t \in Texts : Enqueue(t)
    \/ \E r \in Runs, ok \in BOOLEAN : SmsBatch(r) \/ SmsTaken(r) \/ SmsAnswered(r, ok)
WaNext ==
    \/ MsRestart
    \/ \E n \in Notes : EnqueuePayment(n) \/ WaitsOver(n)
    \/ \E r \in Runs, ok \in BOOLEAN :
           WaRound(r) \/ WaClaim(r) \/ WaTaken(r) \/ WaAnswered(r, ok)
MsNext == SmsNext \/ WaNext
MsSpec == MsInit /\ [][MsNext]_msVars

----------------------------------------------------------------------------
(* Properties                                                               *)

\* Every credit bought or given is available, reserved for a text that is still
\* queued, or used, whatever the provider answers, however often a payment is
\* reported and wherever the server stops; the trial's texts cost none.
Queued == {t \in Texts : texts[t].status = "queued" /\ ~texts[t].trial}
CreditsAddUp ==
    /\ credits.available + credits.reserved + credits.used =
           PackSize * Cardinality({p \in Purchases : Paid(p)}) + corrected
    /\ credits.reserved = SumOf(Queued)

\* A message goes out once, but for a restart between the provider and its
\* answer, and a note's retry after an error: two runs of a worker never send
\* the same row ("a slow provider must not let the next tick pick up the same
\* queued messages and send each of them twice").
SentOnce ==
    /\ \A t \in Texts : out[t] <= 1 + stops
    /\ \A n \in Notes : out[n] <= 1 + stops + errors[n]
===============================================================================
