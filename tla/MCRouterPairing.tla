--------------------------- MODULE MCRouterPairing ---------------------------
(* Model-checking instance of RouterPairing: two boards. *)
EXTENDS RouterPairing, TLC

CONSTANTS b1, b2

OneOfEach == b1 :> {"stable"} @@ b2 :> {"universal"}
=============================================================================
