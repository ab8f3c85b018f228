---------------------------- MODULE MCPppoeTerminal ----------------------------
(***************************************************************************)
(* Model-checking instance of two parts that share no state: subscribers'   *)
(* logins on the router, and the terminal sessions on it.  A behaviour is   *)
(* one of one of them; the other keeps its initial state, in which nothing  *)
(* that fairness asks for can happen.                                       *)
(***************************************************************************)
EXTENDS MCPppoe, Terminal

VARIABLE part   \* whose behaviour this is

partVars == <<part, vars, terminalVars>>

\* Two dashboards, one on each transport.
OneOfEach == [s \in Sessions |-> IF s = "s1" THEN "direct" ELSE "gateway"]

PartInit == part \in {"logins", "terminal"} /\ Init /\ TerminalInit

PartNext ==
    \/ part = "logins" /\ Next /\ UNCHANGED <<part, terminalVars>>
    \/ part = "terminal" /\ TerminalNext /\ UNCHANGED <<part, vars>>

PartSpec == PartInit /\ [][PartNext]_partVars /\ Fairness /\ TerminalFairness
=============================================================================
