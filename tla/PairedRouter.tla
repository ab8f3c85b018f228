---------------------------- MODULE PairedRouter ----------------------------
(***************************************************************************)
(* What the pairing of a location promises, whatever is lost on the way.   *)
(* Connection kits are numbered in the order the owner makes them.  One    *)
(* kit serves at a time; a kit takes over only after a router that holds   *)
(* it has run a script the server sent it, and a kit that was overtaken    *)
(* or replaced never serves again.                                         *)
(***************************************************************************)
EXTENDS Naturals

CONSTANTS
    MaxKits,  \* bound: kits made for the location, at least one
    OldKits   \* the first kit may be one from before the receipt protocol

VARIABLES
    serving,  \* the kit whose router gets the location's work, 0: none yet
    offered,  \* kits that may still take over
    ran       \* kits whose router has run a script the server sent it

vars == <<serving, offered, ran>>

Kits == 1..MaxKits

TypeOK ==
    /\ serving \in {0} \cup Kits
    /\ offered \subseteq Kits
    /\ ran \subseteq Kits

\* The location is created with its first kit.
Init == serving = 0 /\ offered = {1} /\ ran = {}

\* A new kit takes the place of the one that was waiting; the first kit stays
\* good until a router is paired.
Offer(k) ==
    /\ k > serving /\ \A j \in offered : k > j
    /\ offered' = (IF serving = 0 THEN offered \cap {1} ELSE {}) \cup {k}
    /\ UNCHANGED <<serving, ran>>

\* A kit that waited too long.
Lapse(k) ==
    /\ k \in offered \ {1}
    /\ offered' = offered \ {k}
    /\ UNCHANGED <<serving, ran>>

RunScript(k) ==
    /\ ran' = ran \cup {k}
    /\ UNCHANGED <<serving, offered>>

TakeOver(k) ==
    /\ k \in offered
    /\ k \in ran \/ (OldKits /\ k = 1)
    /\ serving' = k
    /\ offered' = {j \in offered : j > k}
    /\ UNCHANGED ran

Next == \E k \in Kits : Offer(k) \/ Lapse(k) \/ RunScript(k) \/ TakeOver(k)

Spec == Init /\ [][Next]_vars

=============================================================================
