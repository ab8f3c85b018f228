------------------------------- MODULE MCAccess -------------------------------
(***************************************************************************)
(* Model-checking instance of parts that share no state: vouchers and the   *)
(* packages they open, the accounts of owners and their teams, the trial    *)
(* guard, and messages (texts and WhatsApp notes apart).  A behaviour is    *)
(* one of one of them; the others keep one of their initial states.         *)
(***************************************************************************)
EXTENDS Vouchers, Accounts, TrialGuard, Messages, TLC

VARIABLE part   \* whose behaviour this is

partVars == <<part, vars, acVars, tgVars, msVars>>

\* One person behind all the workspaces, and a second number somebody typed.
Holds == [b \in TgBusinesses |-> {"p"}]

\* A short text and a long one.
OneAndTwo == [t \in Texts |-> IF t = "short" THEN 1 ELSE 2]

\* No step prefers one address to another.
Symmetry == Permutations(Emails)

PartInit ==
    /\ part \in {"vouchers", "accounts", "guard", "texts", "notes"}
    /\ Init /\ AcInit /\ TgInit /\ MsInit
    /\ part # "accounts" => mailOn
    /\ part # "guard" => sms
    /\ part # "texts" => ~onTrial

PartNext ==
    \/ part = "vouchers" /\ Next /\ UNCHANGED <<part, acVars, tgVars, msVars>>
    \/ part = "accounts" /\ AcNext /\ UNCHANGED <<part, vars, tgVars, msVars>>
    \/ part = "guard" /\ TgNext /\ UNCHANGED <<part, vars, acVars, msVars>>
    \/ part = "texts" /\ SmsNext /\ UNCHANGED <<part, vars, acVars, tgVars>>
    \/ part = "notes" /\ WaNext /\ UNCHANGED <<part, vars, acVars, tgVars>>

PartSpec == PartInit /\ [][PartNext]_partVars
=============================================================================
