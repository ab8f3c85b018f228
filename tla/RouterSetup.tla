----------------------------- MODULE RouterSetup -----------------------------
(***************************************************************************)
(* The setup kit an owner pastes into a router (src/src/lib/router-setup.js *)
(* and the installer it fetches).  The kit looks at the router, refuses it, *)
(* pairs the hotspot it finds, or builds a customer network line by line.   *)
(* A paste can be cut off after any line (the owner's session drops, the    *)
(* power goes, RouterOS rejects a line) and pasted again.  What is on the   *)
(* router is a set of parts: those of a kit, and those of the owner.        *)
(***************************************************************************)
EXTENDS Sequences, SequencesExt, FiniteSets, Naturals

CONSTANTS
    OwnerParts,  \* what the owner may have on the router before: a set of sets
    Kits_,       \* the kits pasted: "auto", "existing", and new kits: "new" (DHCP on
                 \* the automatic kit's internet port), "port" (DHCP on another
                 \* port), "pppoe", "fixed" (a fixed internet address)
    MaxCuts      \* bound: pastes and imports cut off

ASSUME SetupAssumption ==
    /\ OwnerParts \subseteq SUBSET {"bridge", "address", "dhcp", "nat", "hotspot"}
    /\ Kits_ \subseteq {"auto", "existing", "new", "port", "pppoe", "fixed"} /\ MaxCuts \in Nat

VARIABLES
    own,     \* parts a kit has put on the router
    foreign, \* parts of the owner
    todo,    \* the lines the paste has still to run
    refused, \* the refusals of a paste, or of a line of it, on a router with nothing
             \* of the owner's: "own-wan" if the router had an internet line that
             \* only an advanced kit makes, else "plain"
    paired,  \* the first sync was answered
    cuts

setupVars == <<own, foreign, todo, refused, paired, cuts>>

Add(p) == [op |-> "add", part |-> p]
Drop(p) == [op |-> "drop", part |-> p]
Check == [op |-> "check", part |-> "none"]
Adds(ps) == [i \in DOMAIN ps |-> Add(ps[i])]
Drops(ps) == [i \in DOMAIN ps |-> Drop(ps[i])]

\* buildAutomaticRouterKit and buildNewRouterKit, from the bridge on.
Network == <<"ports", "wan", "address", "pool", "dhcp", "network", "nat", "profile", "hotspot",
             "list", "member", "accepts", "drops", "scheduler">>

\* newRouterWanLines, and the port the kit was asked for (config.wanInterface).
WanPart(kit) == CASE kit = "fixed" -> "fixed-wan" [] kit = "pppoe" -> "pppoe-wan"
                  [] kit = "port" -> "port-wan" [] OTHER -> "wan"
BuildLines(kit) == Adds([i \in DOMAIN Network |-> IF Network[i] = "wan" THEN WanPart(kit) ELSE Network[i]])

\* Mutant of CleanupLines: the login profile is left behind.
CleanupKeepsProfile == Drops(<<"scheduler", "drops", "accepts", "nat", "network", "dhcp", "pool",
                               "address", "ports", "member", "list">>)

\* An interrupted setup: everything of ours but the bridge goes.
CleanupLines == Drops(<<"scheduler", "drops", "accepts", "nat", "network", "dhcp", "pool", "profile",
                        "address", "ports", "member", "list">>)

Count(p) == Cardinality({s \in {own, foreign} : p \in s})
Hotspots == IF "hotspot" \in own /\ "hotspot" \in foreign THEN 2 ELSE Count("hotspot")
Bridges == IF "bridge" \in own /\ "bridge" \in foreign THEN 2 ELSE Count("bridge")
HalfBuilt == Hotspots = 0 /\ Bridges = 1 /\ "bridge" \in own

\* automaticRouterDetectionLines: what the kit will run, <<>> when it refuses.
AutoLines ==
    CASE Hotspots = 1 /\ Bridges >= 1 -> <<Add("scheduler")>>
      [] HalfBuilt /\ "poller" \notin own -> CleanupLines \o <<Check>> \o BuildLines("auto")
      [] Hotspots = 0 /\ Bridges = 0 -> <<Check, Add("bridge")>> \o BuildLines("auto")
      [] OTHER -> <<>>
NewLines(kit) ==
    IF Bridges > 0 \/ Hotspots > 0 THEN <<>> ELSE <<Add("bridge")>> \o BuildLines(kit)
\* assertExistingHotspotLines
ExistingLines == IF Hotspots > 0 /\ Bridges > 0 THEN <<Add("scheduler")>> ELSE <<>>
LinesOf(kit) == CASE kit = "auto" -> AutoLines [] kit = "existing" -> ExistingLines
                  [] OTHER -> NewLines(kit)

\* No DHCP server, no NAT, no address but a dynamic one of the automatic kit's
\* internet port, and no DHCP client on another port.  A PPPoE line has an
\* address while its session is up.
CheckPasses(up) ==
    LET bad == {"dhcp", "nat", "address", "fixed-wan", "port-wan"} \cup (IF up THEN {"pppoe-wan"} ELSE {})
    IN  bad \cap (own \cup foreign) = {}

\* The internet lines that no cleanup takes away and the check objects to.
OwnWan == {"fixed-wan", "pppoe-wan", "port-wan"}

\* What RouterOS lets exist once only.
Unique == {"bridge", "ports", "address", "pool", "dhcp", "profile", "hotspot", "list"}

SetupInit ==
    /\ own = {} /\ foreign \in OwnerParts /\ todo = <<>>
    /\ refused = {} /\ paired = FALSE /\ cuts = 0

\* The owner pastes a kit.
SetupPaste(kit) ==
    /\ todo = <<>>
    /\ todo' = LinesOf(kit)
    /\ refused' = refused \cup {w \in {"plain"} : kit = "auto" /\ todo' = <<>> /\ foreign = {}}
    /\ UNCHANGED <<own, foreign, paired, cuts>>

\* One line, while the PPPoE session is up or not.  A line that fails stops the
\* kit (wrapRouterScript).
SetupLine(up) ==
    /\ todo # <<>>
    /\ LET line == Head(todo)
           fails == \/ line.op = "check" /\ ~CheckPasses(up)
                    \/ line.op = "add" /\ line.part \in Unique \cap own
           why == IF own \cap OwnWan = {} THEN "plain" ELSE "own-wan"
           added == IF line.op = "add" THEN {line.part} ELSE {}
           dropped == IF line.op = "drop" THEN {line.part} ELSE {}
       IN  /\ own' = IF fails THEN own ELSE (own \cup added) \ dropped
           /\ todo' = IF fails THEN <<>> ELSE Tail(todo)
           /\ refused' = refused \cup {w \in {why} : fails /\ foreign = {}}
    /\ UNCHANGED <<foreign, paired, cuts>>

SetupCut ==
    /\ todo # <<>> /\ cuts < MaxCuts
    /\ todo' = <<>> /\ cuts' = cuts + 1
    /\ UNCHANGED <<own, foreign, refused, paired>>

\* Every 15 seconds the scheduler fetches the installer and imports it; the
\* installer wants the hotspot, removes the old poller and adds the new one.
SetupInstall(whole) ==
    /\ "scheduler" \in own /\ Hotspots = 1
    /\ whole \/ cuts < MaxCuts
    /\ cuts' = IF whole THEN cuts ELSE cuts + 1
    /\ own' = IF whole THEN own \cup {"poller"} ELSE own \ {"poller"}
    /\ UNCHANGED <<foreign, todo, refused, paired>>

\* The poller's first answered sync ends the retries.
SetupSync ==
    /\ "poller" \in own /\ (~paired \/ "scheduler" \in own)
    /\ paired' = TRUE
    /\ own' = own \ {"scheduler"}
    /\ UNCHANGED <<foreign, todo, refused, cuts>>

SetupNext ==
    \/ \E kit \in Kits_ : SetupPaste(kit)
    \/ \E up \in BOOLEAN : SetupLine(up)
    \/ SetupCut \/ SetupSync
    \/ \E whole \in BOOLEAN : SetupInstall(whole)

SetupSpec == SetupInit /\ [][SetupNext]_setupVars

-----------------------------------------------------------------------------

\* Wherever an earlier kit was cut off, the automatic kit takes it up: it does
\* not refuse a router that holds only what a kit left there, nor does one of
\* its lines meet something left over (setupSummary: "It can resume one clearly
\* tagged, incomplete Wi-Fi Fiti setup").  The exceptions are the networks of
\* an advanced kit whose internet line is a fixed address, a PPPoE client, or a
\* DHCP client on another port than the automatic kit would choose: the cleanup
\* leaves that line, and the check may refuse it.
HalfBuiltResumes == "plain" \notin refused

\* The same without the exceptions: whatever kit was cut off, "that tagged state
\* is safely rebuilt automatically" (buildRouterSetup's warnings).  The code
\* does not keep it: the cleanup removes the half-built network, then the check
\* refuses the internet line it left.
EveryKitResumes == refused = {}

=============================================================================
