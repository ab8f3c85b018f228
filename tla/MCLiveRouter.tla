----------------------------- MODULE MCLiveRouter -----------------------------
(***************************************************************************)
(* Model-checking instance of the changes of a live router's map.  A        *)
(* behaviour has two changes, or one and the owner's tools beside it.       *)
(***************************************************************************)
EXTENDS RouterChanges

VARIABLE tools   \* whether the owner uses tools

\* A map may ask for a bridge with a hotspot.
HotspotOnly == {[kind |-> "bridge", job |-> "hotspot"]}

\* The bounds leave out requests of the owner, and nothing that fairness asks for.
ToolsInit == tools \in BOOLEAN /\ Init
ToolsNext ==
    /\ Next /\ UNCHANGED tools
    /\ IF tools THEN Len(row') <= 1 ELSE tool' = NoTool

ToolsSpec == ToolsInit /\ [][ToolsNext]_<<tools, vars>> /\ Fairness
=============================================================================
