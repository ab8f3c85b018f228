------------------------------ MODULE MCPppoeMoney ------------------------------
(***************************************************************************)
(* Model-checking instance of PppoeBilling: a slow plan   *)
(* and one at twice its price, which a boost may also give for a day.      *)
(***************************************************************************)
EXTENDS PppoeBilling, TLC

CONSTANTS slow, fast

TwoPrices == slow :> 2 @@ fast :> 4
BoostOnFast == slow :> 0 @@ fast :> 1
=============================================================================
