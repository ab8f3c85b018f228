---------------------------- MODULE MCRouterQueue ----------------------------
(* Model-checking instance of RouterQueue. *)
EXTENDS RouterQueue, TLC

Symmetry == Permutations(Phones) \cup Permutations(Macs) \cup Permutations(Codes)
=============================================================================
