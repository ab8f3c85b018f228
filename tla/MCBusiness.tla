------------------------------ MODULE MCBusiness ------------------------------
(***************************************************************************)
(* Model-checking instance of the parts of the system that share no state:  *)
(* a router's setup kit, the owner's bill, the payout account, and the      *)
(* original hotspot without tenants.  A behaviour is one of one of them;    *)
(* the others keep one of their initial states.                             *)
(***************************************************************************)
EXTENDS RouterSetup, PlatformBilling, Payouts, LegacySite

VARIABLE part   \* whose behaviour this is

vars == <<part, setupVars, pbVars, pyVars, legacyVars>>

\* What the owner may have on the router.
Parts == {{}, {"bridge"}, {"nat"}, {"bridge", "address", "dhcp", "nat", "hotspot"}}

\* Renewals of 1, 2 or 3 hotspot customers, with and without PPPoE users; how
\* often the owner asks, the reminders run, and the server stops.
Users_(h, p) == [s \in Services |-> IF s = "hotspot" THEN h ELSE p]
Wants == {Users_(1, 0), Users_(2, 0), Users_(3, 1)}
Plans == {[asks |-> 2, runs |-> 0, crashes |-> 0], [asks |-> 1, runs |-> 1, crashes |-> 1],
          [asks |-> 0, runs |-> 2, crashes |-> 0]}

\* Bound: after its first unit of time the legacy site has one device.
OneDevice(time) ==
    LET m == CHOOSE m \in Macs : TRUE IN
    time > 1 => /\ \A l \in Logins : acct'[l].mac \in {None, m}
                /\ \A p \in Pushes : tx'[p].mac \in {None, m}

\* Bound: a lost reply and a rebuilt balance, which PaidTimeUsable excepts and
\* GivenOnce does not depend on, come alone.
Alone == faults' \cap {"loss", "rebuild"} # {} => Cardinality(faults') + moves'.login + moves'.tv = 1

Init ==
    /\ part \in {"setup", "bill", "payouts", "legacy"}
    /\ SetupInit /\ PbInit /\ PyInit /\ LegacyInit
    /\ part # "setup" => foreign = {}
    /\ part # "bill" => pbLeft = CHOOSE p \in Plans : TRUE

Next ==
    \/ part = "setup" /\ SetupNext /\ UNCHANGED <<part, pbVars, pyVars, legacyVars>>
    \/ part = "bill" /\ PbNext /\ UNCHANGED <<part, setupVars, pyVars, legacyVars>>
    \/ part = "payouts" /\ PyNext /\ UNCHANGED <<part, setupVars, pbVars, legacyVars>>
    \/ part = "legacy" /\ LegacyNext /\ OneDevice(now') /\ Alone /\ UNCHANGED <<part, setupVars, pbVars, pyVars>>

\* The fairness of the bill and of the payouts, while it is their behaviour.
Fairness ==
    /\ \A i \in PbIds : WF_pbVars(part = "bill" /\ SweepBilling(i, TRUE))
    /\ WF_pyVars(part = "payouts" /\ PySweep)

Spec == Init /\ [][Next]_vars /\ Fairness
=============================================================================
