---------------------------- MODULE MCRemoteAccess ----------------------------
(* One gateway, two locations, one owner who asks, and one thing at a time   *)
(* that goes wrong; a router that is moved takes the other location with it. *)
EXTENDS RemoteAccess

TwoSites == {"north", "south"}
TwoAddresses == {1, 2}

Budget(a, k, n, g) ==
    [asks |-> [l \in TwoSites |-> IF l = "north" THEN a ELSE 0],
     faults |-> [x \in Kinds |-> IF x = k THEN n ELSE 0], gateway |-> g]
AllBudgets ==
    {Budget(1, "move", 1, TRUE), Budget(2, "loss", 2, TRUE), Budget(2, "crash", 1, TRUE),
     Budget(2, "wipe", 2, TRUE), Budget(2, "move", 0, FALSE)}
===============================================================================
