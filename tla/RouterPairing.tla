---------------------------- MODULE RouterPairing ----------------------------
(***************************************************************************)
(* Pairing a location with a router and mapping its ports (tenant.js and   *)
(* the sync route of server.js).  The owner makes a connection kit and     *)
(* pastes it into a router board; the board polls with the kit's token;    *)
(* the server answers with a challenge until the board echoes it, which    *)
(* proves that the board runs what it is sent.  A kit made for a location  *)
(* that already has one is staged beside it: the old router serves until   *)
(* the new one has proved itself.  The paired router reports its ports,    *)
(* the owner confirms the map, and a signed action puts it to use.         *)
(*                                                                         *)
(* A poll is one step on the server; its reply is run or lost later, so    *)
(* everything the owner does may come in between.  The location's names    *)
(* and addresses, copied from the staged kit on promotion, are data here   *)
(* and left out.                                                           *)
(***************************************************************************)
EXTENDS Naturals, Sequences, FiniteSets

CONSTANTS
    Boards,     \* router boards the owner has
    Styles,     \* the styles of kit each board may be given, see AllStyles
    Layouts,    \* how the ports of a board may be arranged
    Choices,    \* what the owner may pick on the map
    MaxKits,    \* bound: kits made for the location
    MaxMaps,    \* bound: maps confirmed
    MaxFaults   \* bound: lost replies, restarts and rewired boards

VARIABLES
    loc,      \* the locations row: see Location
    topo,     \* tenant_router_topologies: the ports a kit's router reported
    map,      \* tenant_router_mappings: what the owner confirmed of that report
    deploys,  \* tenant_mapped_deployments, oldest first
    board,    \* each board: see Board
    ran,      \* history: kits whose board has run a challenge
    maps,     \* bound: maps confirmed so far
    faults    \* bound: faults so far

serverVars == <<loc, topo, map, deploys>>
vars == <<serverVars, board, ran, maps, faults>>

\* The standard kit, the one for any network, and one from before receipts.
AllStyles == {"stable", "universal", "legacy"}

ASSUME RouterPairingAssumption ==
    /\ Layouts # {}
    /\ Styles \in [Boards -> SUBSET AllStyles]
    /\ MaxKits \in Nat \ {0}
    /\ MaxMaps \in Nat /\ MaxFaults \in Nat

Kits == 1..MaxKits
Healths == {"unknown", "ready", "portal-missing", "awaiting-map", "bridge-missing", "legacy"}
Open == {"queued", "delivered"}

\* A kit's one challenge is named by the kit: it is kept until it is used.
\* adopt: the kit whose router runs the owner's adopted hotspot, 0: none.
Location == [active : Kits, verified : BOOLEAN, nonce : BOOLEAN, health : Healths,
             pending : 0..MaxKits, live : BOOLEAN, pnonce : BOOLEAN,
             universal : BOOLEAN, adopt : 0..MaxKits]
NoTopo == [kit |-> 0, layout |-> "none"]
Topology == [kit : Kits, layout : Layouts]
NoMap == [kit |-> 0, layout |-> "none", choice |-> "none"]
Mapping == [kit : Kits, layout : Layouts, choice : Choices]
Deployment == [layout : Layouts, choice : Choices,
               status : Open \cup {"acknowledged", "cancelled", "stale"}]

\* What a board keeps: its kit, the two acknowledgements it will send, and the
\* reply on its way.
NoReply == [kit |-> 0, challenge |-> FALSE, portal |-> FALSE, deploy |-> 0]
Reply == [kit : 0..MaxKits, challenge : BOOLEAN, portal : BOOLEAN, deploy : Nat]
NoAnswer == [id |-> 0, blocked |-> FALSE]
Answer == [id : Nat, blocked : BOOLEAN]
Board == [kit : 0..MaxKits, style : AllStyles \cup {"none"}, health : Healths, layout : Layouts,
          setupAck : 0..MaxKits, supportAck : Answer, reply : Reply]
NewBoard(layout) ==
    [kit |-> 0, style |-> "none", health |-> "unknown", layout |-> layout, setupAck |-> 0,
     supportAck |-> NoAnswer, reply |-> NoReply]

\* hasLivePendingRouterPairing
LivePending == loc.pending # 0 /\ loc.live

\* createLocationRow, with the kit that comes with it.
Init ==
    /\ loc = [active |-> 1, verified |-> FALSE, nonce |-> FALSE, health |-> "unknown",
              pending |-> 0, live |-> FALSE, pnonce |-> FALSE, universal |-> FALSE, adopt |-> 0]
    /\ topo = NoTopo /\ map = NoMap /\ deploys = <<>>
    /\ board = [b \in Boards |-> NewBoard(CHOOSE l \in Layouts : TRUE)]
    /\ ran = {} /\ maps = 0 /\ faults = 0

-----------------------------------------------------------------------------
(* The owner *)

Closed(ds) ==
    [i \in DOMAIN ds |-> IF ds[i].status \in Open THEN [ds[i] EXCEPT !.status = "cancelled"]
                                                  ELSE ds[i]]
NextKit == (IF loc.pending > loc.active THEN loc.pending ELSE loc.active) + 1

\* Mutant of Stage: the old router's map outlives it.
StageKeepsMap ==
    /\ NextKit \in Kits
    /\ loc' = [loc EXCEPT !.pending = NextKit, !.live = TRUE, !.pnonce = FALSE]
    /\ UNCHANGED <<topo, map, deploys, board, ran, maps, faults>>

\* rotateLocationToken: a new kit, good for 24 hours.  It ends the map of the
\* router it is to replace.
Stage ==
    /\ NextKit \in Kits
    /\ loc' = [loc EXCEPT !.pending = NextKit, !.live = TRUE, !.pnonce = FALSE]
    /\ deploys' = Closed(deploys)
    /\ topo' = NoTopo /\ map' = NoMap
    /\ UNCHANGED <<board, ran, maps, faults>>

\* 24 hours pass before the staged kit is used.
Expire ==
    /\ LivePending
    /\ loc' = [loc EXCEPT !.live = FALSE]
    /\ UNCHANGED <<topo, map, deploys, board, ran, maps, faults>>

\* authenticateRouter: the active credential, or the staged one while it lasts.
Auth(k) == IF k = loc.active THEN "active"
           ELSE IF k = loc.pending /\ loc.live THEN "pending" ELSE "none"

\* The owner pastes a kit into a board, or its one-line loader, which serves
\* the universal kit only while the kit is open.  The installer starts the
\* poller; a reply still on its way to the board runs all the same.  (Bound: a
\* board is given newer kits only.)
CanLoad(k) == Auth(k) = "pending" \/ (Auth(k) = "active" /\ ~loc.verified)
Made(k) == k = loc.active \/ k = loc.pending
Paste(b, k, style) ==
    /\ style \in Styles[b]
    /\ Made(k) /\ k > board[b].kit
    /\ style = "universal" => CanLoad(k)
    /\ style = "legacy" => k = 1
    /\ board' = [board EXCEPT ![b] =
           [NewBoard(board[b].layout) EXCEPT !.kit = k, !.style = style, !.reply = board[b].reply,
               !.health = IF style = "universal" THEN "awaiting-map" ELSE "portal-missing"]]
    /\ UNCHANGED <<serverVars, ran, maps, faults>>

\* confirmRouterMapping, with a map that fits a fresh report.
ConfirmMap(choice) ==
    /\ ~LivePending /\ loc.verified
    /\ topo # NoTopo /\ maps < MaxMaps
    /\ map' = [kit |-> topo.kit, layout |-> topo.layout, choice |-> choice]
    /\ deploys' = Closed(deploys)
    /\ maps' = maps + 1
    /\ UNCHANGED <<loc, topo, board, ran, faults>>

\* mappedDeploymentCurrentContext, for the report t.
MapIsCurrent(t) == ~LivePending /\ t # NoTopo /\ map # NoMap /\ map.layout = t.layout
Fits(d, t) == MapIsCurrent(t) /\ d.layout = map.layout /\ d.choice = map.choice

\* reconcileMappedDeployment
Reconciled(ds, t) ==
    [i \in DOMAIN ds |->
        IF ds[i].status \in Open /\ ~Fits(ds[i], t)
        THEN [ds[i] EXCEPT !.status = IF LivePending THEN "cancelled" ELSE "stale"] ELSE ds[i]]

RequestDeployment ==
    LET ds == Reconciled(deploys, topo) IN
    /\ \A i \in DOMAIN ds : ds[i].status \notin Open
    /\ MapIsCurrent(topo)
    /\ Len(ds) < MaxMaps
    /\ deploys' = Append(ds, [layout |-> map.layout, choice |-> map.choice,
                              status |-> "queued"])
    /\ UNCHANGED <<loc, topo, map, board, ran, maps, faults>>

-----------------------------------------------------------------------------
(* A poll *)

\* Mutant of ReceiptHealthOk: the deadlock the code's comment tells of.
ReceiptHealthOkReadyOnly(b) == board[b].health = "ready"

ReceiptHealthOk(b) ==
    \/ board[b].health \in {"ready", "portal-missing"}
    \/ (board[b].health = "awaiting-map" /\ board[b].style = "universal")

\* Mutant of Proved: a healthy router counts as proved.
ProvedByHealth(b) == ReceiptHealthOk(b)

\* The board echoes the challenge of its own kit.
Proved(b) ==
    /\ ReceiptHealthOk(b)
    /\ IF Auth(board[b].kit) = "active" THEN loc.nonce ELSE loc.pnonce
    /\ board[b].setupAck = board[b].kit

\* issueSetupChallenge, verifyActiveRouterSetup, promotePendingLocationToken
Challenged(l, b) ==
    IF Auth(board[b].kit) = "active" THEN [l EXCEPT !.nonce = TRUE, !.health = board[b].health]
                                     ELSE [l EXCEPT !.pnonce = TRUE, !.health = board[b].health]
Verified(l, health) == [l EXCEPT !.nonce = FALSE, !.verified = TRUE, !.health = health]
Promoted(l, b) ==
    [Verified(l, board[b].health) EXCEPT !.active = l.pending, !.pending = 0, !.live = FALSE,
                                         !.pnonce = FALSE]

\* processRouterSetupReceipt.  A router once verified is not asked again; one
\* with a kit from before the challenge may serve but never replace.
Receipt(l, b) ==
    CASE Auth(board[b].kit) = "active" /\ (l.verified \/ Proved(b)) -> Verified(l, board[b].health)
      [] Auth(board[b].kit) = "active" /\ ~(l.verified \/ Proved(b)) /\ board[b].style = "legacy" ->
            Verified(l, "legacy")
      [] Auth(board[b].kit) = "pending" /\ board[b].style # "legacy" /\ Proved(b) -> Promoted(l, b)
      [] OTHER -> Challenged(l, b)

\* setRouterKit: the universal kit announces itself.
Announced(b) == [loc EXCEPT !.universal = loc.universal \/ board[b].style = "universal"]

\* recordRouterTopology, when this poll carries the report (one in six does).
Reported(l, b, report) ==
    IF report /\ ~(l.pending # 0 /\ l.live)
    THEN [kit |-> board[b].kit, layout |-> board[b].layout] ELSE topo

\* acknowledgeMappedDeploymentForRouter
Acked(ds, answer, t) ==
    [i \in DOMAIN ds |->
        IF i # answer.id \/ ds[i].status \notin Open THEN ds[i]
        ELSE [ds[i] EXCEPT !.status =
                 IF LivePending THEN "cancelled"
                 ELSE IF ~Fits(ds[i], t) \/ answer.blocked THEN "stale" ELSE "acknowledged"]]

\* pendingMappedDeploymentForRouter: what goes out with this reply.  `ripe` are
\* the statuses it looks at: none unless the tunnel was seen recently and no
\* support work waits, and a delivered one when that was over a minute ago.
Ripe == {{}, {"queued"}, {"queued", "delivered"}}
Outgoing(ds, ripe) == {i \in DOMAIN ds : ds[i].status \in ripe}

\* POST /api/router/sync
Poll(b, report, ripe) ==
    /\ board[b].reply = NoReply
    /\ Auth(board[b].kit) # "none"
    /\ LET next == Receipt(Announced(b), b)
           verified == next.verified /\ next.active = board[b].kit
           awaiting == next.universal /\ next.health = "awaiting-map"
           t == IF verified THEN Reported(next, b, report) ELSE topo
           acked == IF verified THEN Acked(deploys, board[b].supportAck, t) ELSE deploys
           ds == IF verified /\ ~awaiting THEN Reconciled(acked, t) ELSE acked
           out == IF verified /\ ~awaiting THEN Outgoing(ds, ripe) ELSE {}
       IN  /\ loc' = next
           /\ topo' = t
           /\ deploys' = [i \in DOMAIN ds |->
                 IF i \in out THEN [ds[i] EXCEPT !.status = "delivered"] ELSE ds[i]]
           /\ board' = [board EXCEPT ![b].reply =
                 [kit |-> board[b].kit, challenge |-> ~verified, portal |-> verified /\ ~awaiting,
                  deploy |-> IF out = {} THEN 0 ELSE CHOOSE i \in out : TRUE]]
    /\ UNCHANGED <<map, ran, maps, faults>>

\* The router is silent for some minutes: a look at the waiting action (the
\* owner's page, or the next poll) finds the report it rests on too old.
ReportsStop ==
    /\ \E i \in DOMAIN deploys : deploys[i].status \in Open
    /\ deploys' = [i \in DOMAIN deploys |->
           IF deploys[i].status \in Open THEN [deploys[i] EXCEPT !.status = "stale"] ELSE deploys[i]]
    /\ UNCHANGED <<loc, topo, map, board, ran, maps, faults>>

-----------------------------------------------------------------------------
(* The board *)

\* The action checks every interface and port it names against the board.
Applies(b, i) == board[b].layout = deploys[i].layout

\* The fetch finished: the acknowledgements it carried are cleared, then the
\* reply runs.  A mapped action that finds its ports changes the Wi-Fi Fiti
\* services and asks for the login page again; when one of these cannot be
\* changed (~ok) it answers nothing and will be sent again.
RunReply(b, ok) ==
    LET reply == board[b].reply
        health == board[b].health
        i == reply.deploy
        suits == i # 0 /\ Applies(b, i)
        done == suits /\ ok IN
    /\ reply # NoReply
    /\ ~ok => suits
    /\ board' = [board EXCEPT ![b] =
           [@ EXCEPT !.reply = NoReply,
                     !.setupAck = IF reply.challenge THEN reply.kit ELSE 0,
                     !.supportAck = IF i = 0 \/ (suits /\ ~ok) THEN NoAnswer
                                      ELSE [id |-> i, blocked |-> ~suits],
                     !.health = IF done /\ health = "ready" THEN "portal-missing"
                                ELSE IF reply.portal /\ health = "portal-missing" THEN "ready"
                                ELSE health]]
    /\ ran' = IF reply.challenge THEN ran \cup {reply.kit} ELSE ran
    /\ UNCHANGED <<serverVars, maps, faults>>

Fault == faults < MaxFaults /\ faults' = faults + 1

\* The fetch failed on the way back: the acknowledgements are kept.
LoseReply(b) ==
    /\ board[b].reply # NoReply /\ Fault
    /\ board' = [board EXCEPT ![b].reply = NoReply]
    /\ UNCHANGED <<serverVars, ran, maps>>

\* The token is in the boot script; the acknowledgements are not kept.
Restart(b) ==
    /\ board[b].kit # 0 /\ Fault
    /\ board' = [board EXCEPT ![b].reply = NoReply, ![b].setupAck = 0, ![b].supportAck = NoAnswer]
    /\ UNCHANGED <<serverVars, ran, maps>>

Rewire(b, layout) ==
    /\ board[b].layout # layout /\ Fault
    /\ board' = [board EXCEPT ![b].layout = layout]
    /\ UNCHANGED <<serverVars, ran, maps>>

\* The customer bridge goes missing, and is put back.
Break(b) ==
    /\ board[b].health \in {"ready", "portal-missing"} /\ Fault
    /\ board' = [board EXCEPT ![b].health = "bridge-missing"]
    /\ UNCHANGED <<serverVars, ran, maps>>
Mend(b) ==
    /\ board[b].health = "bridge-missing"
    /\ board' = [board EXCEPT ![b].health = "portal-missing"]
    /\ UNCHANGED <<serverVars, ran, maps, faults>>

\* The owner's own hotspot is billed: an "adopt" change of RouterChanges ran
\* to its end on the paired router, which then has a Hotspot to report.
Adopt(b) ==
    /\ Auth(board[b].kit) = "active" /\ loc.verified /\ loc.universal
    /\ loc.health = "awaiting-map" /\ board[b].health = "awaiting-map" /\ loc.adopt = 0
    /\ loc' = [loc EXCEPT !.adopt = loc.active]
    /\ board' = [board EXCEPT ![b].health = "portal-missing"]
    /\ UNCHANGED <<topo, map, deploys, ran, maps, faults>>

-----------------------------------------------------------------------------

OwnerStep ==
    \/ Stage \/ Expire \/ RequestDeployment
    \/ \E choice \in Choices : ConfirmMap(choice)
    \/ \E b \in Boards, k \in Kits, style \in AllStyles : Paste(b, k, style)

PollStep(b) == \E report \in BOOLEAN, ripe \in Ripe : Poll(b, report, ripe)

BoardStep(b) ==
    \/ LoseReply(b) \/ Restart(b) \/ Break(b) \/ Mend(b) \/ Adopt(b)
    \/ \E layout \in Layouts : Rewire(b, layout)

ReplyStep(b) == \E ok \in BOOLEAN : RunReply(b, ok)

Next ==
    \/ OwnerStep \/ ReportsStop
    \/ \E b \in Boards : PollStep(b) \/ ReplyStep(b) \/ BoardStep(b)

Spec == Init /\ [][Next]_vars

\* The poller's scheduler fires every few seconds; losses are bounded.
FairSpec == Spec /\ \A b \in Boards : WF_vars(PollStep(b)) /\ WF_vars(ReplyStep(b))

-----------------------------------------------------------------------------
(* Properties *)

\* Types of the location, its map, the boards and the bounds.
TypeOK ==
    /\ loc \in Location
    /\ topo \in Topology \cup {NoTopo}
    /\ map \in Mapping \cup {NoMap}
    /\ deploys \in Seq(Deployment)
    /\ board \in [Boards -> Board]
    /\ ran \subseteq 0..MaxKits
    /\ maps \in Nat /\ faults \in Nat

\* The pairing promise: only a router that has run a reply takes the location
\* over, one kit serves at a time, and the location never goes back.
Serving == IF loc.verified THEN loc.active ELSE 0
Offered == (IF loc.verified THEN {} ELSE {loc.active})
           \cup (IF LivePending THEN {loc.pending} ELSE {})
P == INSTANCE PairedRouter WITH serving <- Serving, offered <- Offered, ran <- ran,
                                MaxKits <- MaxKits, OldKits <- \E b \in Boards : "legacy" \in Styles[b]
ImplementsPairing == P!Spec

\* The ports the owner sees and the map the server acts on are those of the
\* paired router: a poll of the outgoing router cannot refill what the new kit
\* cleared (recordRouterTopology: "Its old port list must not refill the
\* cleared mapping rows in that window").
MapIsOfThisRouter ==
    /\ topo # NoTopo => topo.kit = loc.active
    /\ map # NoMap => map.kit = loc.active

\* A healthy router with an open kit is paired in the end: it is not sent round
\* the challenge for ever (processRouterSetupReceipt: requiring the page before
\* accepting the receipt "creates a deadlock").
Waiting(b) ==
    /\ Auth(board[b].kit) # "none" /\ board[b].style # "legacy" /\ board[b].health # "bridge-missing"
    /\ Serving # board[b].kit
PairingCompletes == []<>(\A b \in Boards : ~Waiting(b))

=============================================================================
