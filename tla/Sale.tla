-------------------------------- MODULE Sale --------------------------------
(***************************************************************************)
(* What selling a package by M-Pesa promises, seen from the money: nothing *)
(* is credited before the money is taken, and a payment is credited at     *)
(* most once, however many callbacks, status polls, sweeps, retries and    *)
(* crashes are between the two.                                            *)
(***************************************************************************)
EXTENDS Naturals

CONSTANT Checkouts  \* payments

VARIABLES
    money,      \* where the customer's money is
    credits     \* how many times each payment has given its package

saleVars == <<money, credits>>

Money == {"none", "prompt", "taken", "declined", "returned"}

SaleInit ==
    /\ money = [t \in Checkouts |-> "none"]
    /\ credits = [t \in Checkouts |-> 0]

\* The ways money moves: a prompt is answered, a PayBill payment is made
\* without one, and only money that was taken is given back.
Moves == {<<"none", "prompt">>, <<"prompt", "taken">>, <<"prompt", "declined">>,
          <<"none", "taken">>, <<"taken", "returned">>}

Move(t) ==
    /\ \E m \in Moves : money[t] = m[1] /\ money' = [money EXCEPT ![t] = m[2]]
    /\ UNCHANGED credits

Credit(t) ==
    /\ money[t] \in {"taken", "returned"}
    /\ credits[t] = 0
    /\ credits' = [credits EXCEPT ![t] = 1]
    /\ UNCHANGED money

SaleNext == \E t \in Checkouts : Move(t) \/ Credit(t)

SaleSpec == SaleInit /\ [][SaleNext]_saleVars
=============================================================================
