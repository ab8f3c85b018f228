------------------------------ MODULE MCPppoe ------------------------------
(***************************************************************************)
(* Model-checking instances of PppoeBilling and PppoeRouter: a slow plan   *)
(* and one at twice its price, which a boost may also give for a day.      *)
(***************************************************************************)
EXTENDS PppoeRouter, TLC

CONSTANTS slow, fast

TwoPrices == slow :> 2 @@ fast :> 4
BoostOnFast == slow :> 0 @@ fast :> 1
=============================================================================
