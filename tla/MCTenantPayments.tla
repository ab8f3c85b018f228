-------------------------- MODULE MCTenantPayments --------------------------
(***************************************************************************)
(* Model-checking instance of TenantPayments: two payments at most, and    *)
(* which rails each of them may take.                                      *)
(***************************************************************************)
EXTENDS TenantPayments, TLC

CONSTANTS t1, t2

Symmetry == Permutations(Phones) \cup Permutations(Macs)

DarajaAndAny == [t \in Checkouts |-> IF t = t1 THEN {"daraja"} ELSE {"tuma", "c2b"}]
PromptAndPayBill == [t \in Checkouts |-> IF t = t1 THEN {"daraja"} ELSE {"c2b"}]
=============================================================================
