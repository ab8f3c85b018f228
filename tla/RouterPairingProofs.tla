------------------------- MODULE RouterPairingProofs -------------------------
(***************************************************************************)
(* What pairing and mapping promise, for any number of boards, kits, maps  *)
(* and faults: types, the map is the paired router's, and RouterPairing    *)
(* implements PairedRouter.                                                *)
(***************************************************************************)
EXTENDS RouterPairing, TLAPS

USE DEF Kits, Open

-----------------------------------------------------------------------------
(* The inductive invariant *)

\* A staged kit is newer than the one in use and clears the map for as long as
\* it is open; until a router is paired the first kit is the one in use.
KitsInv ==
    /\ LivePending => topo = NoTopo /\ map = NoMap
    /\ loc.live => loc.pending # 0
    /\ loc.pending # 0 => loc.pending > loc.active
    /\ ~loc.verified => loc.active = 1

\* What a board echoes it has run; a kit from before the receipts is the first.
BoardInv(b) ==
    /\ board[b].setupAck # 0 => board[b].setupAck \in ran
    /\ board[b].reply # NoReply => board[b].reply.kit \in Kits
    /\ board[b].style = "legacy" => board[b].kit = 1 /\ "legacy" \in Styles[b]

PairInv == TypeOK /\ MapIsOfThisRouter /\ KitsInv /\ \A b \in Boards : BoardInv(b)

\* What every step keeps: the invariant, and the abstract specification's step.
Good == PairInv' /\ [P!Next]_(P!vars)

-----------------------------------------------------------------------------
(* Lemmas about the operators *)

\* A list whose entries are rewritten is a list of the same length.
LEMMA SameLength ==
    ASSUME NEW S, NEW q \in Seq(S), NEW f \in [DOMAIN q -> S]
    PROVE  f \in Seq(S) /\ Len(f) = Len(q)
  <1>1. DOMAIN q = 1..Len(q) /\ Len(q) \in Nat
    OBVIOUS
  <1> QED BY <1>1

LEMMA DeploysKept ==
    ASSUME NEW ds \in Seq(Deployment), NEW t, NEW answer, NEW out
    PROVE  /\ Closed(ds) \in Seq(Deployment)
           /\ Reconciled(ds, t) \in Seq(Deployment)
           /\ Acked(ds, answer, t) \in Seq(Deployment)
           /\ [i \in DOMAIN ds |-> IF i \in out THEN [ds[i] EXCEPT !.status = "delivered"] ELSE ds[i]]
                 \in Seq(Deployment)
  <1>1. \A i \in DOMAIN ds : ds[i] \in Deployment
    OBVIOUS
  <1>2. \A i \in DOMAIN ds, s \in Open \cup {"acknowledged", "cancelled", "stale"} :
           [ds[i] EXCEPT !.status = s] \in Deployment
    BY <1>1 DEF Deployment
  <1>3. Closed(ds) \in Seq(Deployment)
    <2>1. Closed(ds) \in [DOMAIN ds -> Deployment]
      BY <1>1, <1>2 DEF Closed
    <2> QED BY <2>1, SameLength
  <1>4. Reconciled(ds, t) \in Seq(Deployment)
    <2>1. Reconciled(ds, t) \in [DOMAIN ds -> Deployment]
      BY <1>1, <1>2 DEF Reconciled
    <2> QED BY <2>1, SameLength
  <1>5. Acked(ds, answer, t) \in Seq(Deployment)
    <2>1. Acked(ds, answer, t) \in [DOMAIN ds -> Deployment]
      BY <1>1, <1>2 DEF Acked
    <2> QED BY <2>1, SameLength
  <1>6. [i \in DOMAIN ds |-> IF i \in out THEN [ds[i] EXCEPT !.status = "delivered"] ELSE ds[i]]
           \in [DOMAIN ds -> Deployment]
    BY <1>1, <1>2
  <1> QED BY <1>3, <1>4, <1>5, <1>6, SameLength

\* What the type invariant says of the parts.
LEMMA Parts ==
    ASSUME TypeOK
    PROVE  /\ loc.active \in Kits /\ loc.pending \in 0..MaxKits /\ loc.adopt \in 0..MaxKits
           /\ loc.verified \in BOOLEAN /\ loc.nonce \in BOOLEAN /\ loc.live \in BOOLEAN
           /\ loc.pnonce \in BOOLEAN /\ loc.universal \in BOOLEAN /\ loc.health \in Healths
           /\ MaxKits \in Nat /\ MaxKits > 0
           /\ \A b \in Boards :
                 /\ board[b] \in Board
                 /\ board[b].kit \in 0..MaxKits /\ board[b].setupAck \in 0..MaxKits
                 /\ board[b].health \in Healths /\ board[b].layout \in Layouts
                 /\ board[b].reply \in Reply /\ board[b].supportAck \in Answer
                 /\ board[b].reply.kit \in 0..MaxKits /\ board[b].reply.challenge \in BOOLEAN
                 /\ board[b].reply.deploy \in Nat
  <1>1. ASSUME NEW b \in Boards
        PROVE  board[b] \in Board
    BY DEF TypeOK
  <1>2. loc \in Location
    BY DEF TypeOK
  <1> QED BY <1>1, <1>2, RouterPairingAssumption DEF Location, Board, Reply

\* A step that leaves the location and what the boards ran alone is no step of
\* the abstract specification.
LEMMA NothingPaired ==
    ASSUME loc' = loc, ran' = ran
    PROVE  [P!Next]_(P!vars)
  BY DEF P!vars, Serving, Offered, LivePending

\* A step of one board that changes neither the server nor the history.
LEMMA BoardAlone ==
    ASSUME PairInv, NEW b \in Boards, NEW v, v \in Board,
           board' = [board EXCEPT ![b] = v],
           UNCHANGED <<serverVars, ran, maps>>, faults' \in Nat,
           v.setupAck # 0 => v.setupAck = board[b].setupAck,
           v.reply # NoReply => v.reply = board[b].reply,
           v.style = "legacy" => v.kit = 1 /\ "legacy" \in Styles[b]
    PROVE  Good
  <1>1. TypeOK'
    BY DEF PairInv, TypeOK, serverVars
  <1>2. MapIsOfThisRouter' /\ KitsInv'
    BY DEF PairInv, MapIsOfThisRouter, KitsInv, LivePending, serverVars
  <1>3. ASSUME NEW c \in Boards PROVE BoardInv(c)'
    <2>1. CASE c = b
      <3>1. board'[c] = v
        BY <2>1 DEF PairInv, TypeOK
      <3> QED BY <2>1, <3>1 DEF PairInv, BoardInv, serverVars
    <2>2. CASE c # b
      <3>1. board'[c] = board[c]
        BY <2>2 DEF PairInv, TypeOK
      <3> QED BY <3>1 DEF PairInv, BoardInv, serverVars
    <2> QED BY <2>1, <2>2
  <1>4. [P!Next]_(P!vars)
    BY NothingPaired DEF serverVars
  <1> QED BY <1>1, <1>2, <1>3, <1>4 DEF Good, PairInv

-----------------------------------------------------------------------------
(* The owner *)

LEMMA StageStep ==
    ASSUME PairInv, Stage
    PROVE  Good
  <1> USE Parts DEF PairInv
  <1>1. NextKit \in Kits /\ NextKit > loc.active /\ NextKit > loc.pending
    BY DEF Stage, NextKit
  <1>2. loc' = [loc EXCEPT !.pending = NextKit, !.live = TRUE, !.pnonce = FALSE]
    BY DEF Stage
  <1>3. loc' \in Location
    <2>1. loc \in Location /\ NextKit \in 0..MaxKits
      BY <1>1 DEF TypeOK
    <2> QED BY ONLY <1>2, <2>1 DEF Location
  <1>4. /\ loc'.active = loc.active /\ loc'.verified = loc.verified
        /\ loc'.pending = NextKit /\ loc'.live
    BY <1>2 DEF TypeOK, Location
  <1>5. TypeOK'
    <2>1. deploys' \in Seq(Deployment)
      BY DeploysKept DEF TypeOK, Stage
    <2> QED BY <1>3, <2>1 DEF TypeOK, Stage
  <1>6. MapIsOfThisRouter' /\ KitsInv'
    BY <1>1, <1>4 DEF Stage, MapIsOfThisRouter, KitsInv, LivePending
  <1>7. \A b \in Boards : BoardInv(b)'
    BY DEF BoardInv, Stage
  <1>8. P!Offer(NextKit)
    <2>1. Serving' = Serving /\ (Serving = 0 <=> ~loc.verified) /\ NextKit > Serving
      BY <1>1, <1>4 DEF Serving
    <2>2. \A j \in Offered : NextKit > j
      BY <1>1 DEF Offered, LivePending
    <2>3. Offered' = (IF loc.verified THEN {} ELSE {loc.active}) \cup {NextKit}
      BY <1>1, <1>4 DEF Offered, LivePending
    <2>4. ~loc.verified => Offered \cap {1} = {loc.active}
      BY DEF KitsInv, Offered, LivePending
    <2>5. Offered' = (IF Serving = 0 THEN Offered \cap {1} ELSE {}) \cup {NextKit}
      BY <2>1, <2>3, <2>4
    <2> QED BY <2>1, <2>2, <2>5 DEF P!Offer, Stage
  <1> QED BY <1>1, <1>5, <1>6, <1>7, <1>8 DEF Good, P!Next, P!Kits

LEMMA ExpireStep ==
    ASSUME PairInv, Expire
    PROVE  Good
  <1> USE Parts DEF PairInv
  <1>1. loc' = [loc EXCEPT !.live = FALSE]
    BY DEF Expire
  <1>2. loc' \in Location
    BY <1>1 DEF TypeOK, Location
  <1>3. /\ loc'.active = loc.active /\ loc'.verified = loc.verified
        /\ loc'.pending = loc.pending /\ ~loc'.live
    BY <1>1 DEF TypeOK, Location
  <1>4. TypeOK'
    BY <1>2 DEF TypeOK, Expire
  <1>5. MapIsOfThisRouter' /\ KitsInv'
    BY <1>3 DEF Expire, MapIsOfThisRouter, KitsInv, LivePending
  <1>6. \A b \in Boards : BoardInv(b)'
    BY DEF BoardInv, Expire
  <1>7. P!Lapse(loc.pending)
    <2>1. loc.pending \in Kits /\ loc.pending > loc.active
      BY DEF Expire, LivePending, KitsInv
    <2>2. Serving' = Serving
      BY <1>3 DEF Serving
    <2>3. Offered = (IF loc.verified THEN {} ELSE {loc.active}) \cup {loc.pending}
      BY DEF Offered, Expire
    <2>4. Offered' = (IF loc.verified THEN {} ELSE {loc.active})
      BY <1>3 DEF Offered, LivePending
    <2>5. Offered' = Offered \ {loc.pending}
      BY <2>1, <2>3, <2>4
    <2> QED BY <2>1, <2>2, <2>3, <2>5 DEF P!Lapse, Expire
  <1>8. loc.pending \in P!Kits
    BY DEF Expire, LivePending, P!Kits
  <1> QED BY <1>4, <1>5, <1>6, <1>7, <1>8 DEF Good, P!Next

LEMMA PasteStep ==
    ASSUME PairInv, NEW b \in Boards, NEW k \in Kits, NEW style \in AllStyles, Paste(b, k, style)
    PROVE  Good
  <1> DEFINE v == [NewBoard(board[b].layout) EXCEPT !.kit = k, !.style = style, !.reply = board[b].reply,
                      !.health = IF style = "universal" THEN "awaiting-map" ELSE "portal-missing"]
  <1>1. board[b].layout \in Layouts /\ board[b].reply \in Reply
    BY Parts DEF PairInv
  <1>2. v \in Board /\ v.setupAck = 0 /\ v.reply = board[b].reply /\ v.kit = k /\ v.style = style
    <2>1. 0 \in 0..MaxKits /\ k \in 0..MaxKits
      BY RouterPairingAssumption
    <2>2. NewBoard(board[b].layout) \in Board /\ NewBoard(board[b].layout).setupAck = 0
      BY <1>1, <2>1 DEF NewBoard, Board, Healths, NoReply, Reply, NoAnswer, Answer
    <2> QED BY ONLY <1>1, <2>1, <2>2, style \in AllStyles DEF Board, Healths
  <1>3. board' = [board EXCEPT ![b] = v] /\ UNCHANGED <<serverVars, ran, maps>> /\ faults' \in Nat
    BY DEF Paste, PairInv, TypeOK
  <1>4. style = "legacy" => k = 1 /\ "legacy" \in Styles[b]
    BY DEF Paste
  <1> HIDE DEF v
  <1> QED BY <1>2, <1>3, <1>4, BoardAlone

LEMMA ConfirmMapStep ==
    ASSUME PairInv, NEW choice \in Choices, ConfirmMap(choice)
    PROVE  Good
  <1> USE DEF PairInv
  <1>1. topo \in Topology /\ topo.kit = loc.active
    BY DEF ConfirmMap, TypeOK, MapIsOfThisRouter
  <1>2. map' \in Mapping /\ map'.kit = topo.kit
    BY <1>1 DEF ConfirmMap, Mapping, Topology
  <1>3. TypeOK'
    <2>1. deploys' \in Seq(Deployment)
      BY DeploysKept DEF TypeOK, ConfirmMap
    <2>2. maps' \in Nat
      BY DEF TypeOK, ConfirmMap
    <2> QED BY <1>2, <2>1, <2>2 DEF TypeOK, ConfirmMap
  <1>4. MapIsOfThisRouter' /\ KitsInv'
    BY <1>1, <1>2 DEF ConfirmMap, MapIsOfThisRouter, KitsInv, LivePending
  <1>5. \A b \in Boards : BoardInv(b)'
    BY DEF BoardInv, ConfirmMap
  <1>6. [P!Next]_(P!vars)
    BY NothingPaired DEF ConfirmMap
  <1> QED BY <1>3, <1>4, <1>5, <1>6 DEF Good

\* Steps that touch nothing but the queue of mapped actions.
LEMMA DeploysOnly ==
    ASSUME PairInv, deploys' \in Seq(Deployment),
           UNCHANGED <<loc, topo, map, board, ran, maps, faults>>
    PROVE  Good
  <1> USE DEF PairInv
  <1>1. TypeOK'
    BY DEF TypeOK
  <1>2. MapIsOfThisRouter' /\ KitsInv' /\ \A b \in Boards : BoardInv(b)'
    BY DEF MapIsOfThisRouter, KitsInv, LivePending, BoardInv
  <1>3. [P!Next]_(P!vars)
    BY NothingPaired
  <1> QED BY <1>1, <1>2, <1>3 DEF Good

LEMMA RequestStep ==
    ASSUME PairInv, RequestDeployment
    PROVE  Good
  <1> DEFINE d == [layout |-> map.layout, choice |-> map.choice, status |-> "queued"]
  <1>1. map \in Mapping
    BY DEF RequestDeployment, MapIsCurrent, PairInv, TypeOK
  <1>2. d \in Deployment
    BY <1>1 DEF Mapping, Deployment
  <1>3. Reconciled(deploys, topo) \in Seq(Deployment)
    BY DeploysKept DEF PairInv, TypeOK
  <1>4. deploys' \in Seq(Deployment)
    BY <1>2, <1>3 DEF RequestDeployment
  <1> QED BY <1>4, DeploysOnly DEF RequestDeployment

LEMMA ReportsStopStep ==
    ASSUME PairInv, ReportsStop
    PROVE  Good
  <1>1. deploys \in Seq(Deployment)
    BY DEF PairInv, TypeOK
  <1>2. \A i \in DOMAIN deploys : deploys[i] \in Deployment
    BY <1>1
  <1>3. deploys' \in [DOMAIN deploys -> Deployment]
    BY <1>2 DEF ReportsStop, Deployment
  <1> QED BY <1>1, <1>3, SameLength, DeploysOnly DEF ReportsStop

-----------------------------------------------------------------------------
(* A poll *)

\* What a receipt makes of the location: the kit in use stays, or the staged
\* one takes its place.
LEMMA ReceiptResult ==
    ASSUME PairInv, NEW b \in Boards, Auth(board[b].kit) # "none"
    PROVE  LET next == Receipt(Announced(b), b) IN
           /\ next \in Location
           /\ board[b].kit \in Kits
           /\ \/ /\ next.active = loc.active /\ next.verified = loc.verified
                 /\ next.pending = loc.pending /\ next.live = loc.live
              \/ /\ ~loc.verified /\ board[b].kit = loc.active
                 /\ board[b].kit \in ran \/ (board[b].style = "legacy")
                 /\ next.active = loc.active /\ next.verified
                 /\ next.pending = loc.pending /\ next.live = loc.live
              \/ /\ LivePending /\ board[b].kit = loc.pending /\ board[b].kit \in ran
                 /\ next.active = loc.pending /\ next.verified
                 /\ next.pending = 0 /\ ~next.live
  <1> DEFINE l == Announced(b)
             k == board[b].kit
  <1>1. loc \in Location /\ board[b].health \in Healths /\ k \in 0..MaxKits /\ MaxKits \in Nat
    BY Parts DEF PairInv, TypeOK
  <1>2. /\ l \in Location /\ l.active = loc.active /\ l.verified = loc.verified
        /\ l.pending = loc.pending /\ l.live = loc.live
        /\ l.nonce = loc.nonce /\ l.pnonce = loc.pnonce
    BY <1>1 DEF Announced, Location
  <1>3. k \in Kits /\ k # 0 /\ loc.active \in Kits /\ loc.pending \in 0..MaxKits
    BY <1>1, Parts DEF Auth, PairInv, KitsInv
  <1>4. Proved(b) => k \in ran
    BY <1>3 DEF Proved, PairInv, BoardInv
  <1>5. Auth(k) = "pending" => LivePending /\ k = loc.pending /\ loc.pending \in Kits
    BY <1>3 DEF Auth, LivePending
  <1>6. Auth(k) = "active" => k = loc.active
    BY DEF Auth
  <1> HIDE DEF l, k
  <1>7. CASE Auth(k) = "active" /\ (l.verified \/ Proved(b))
    <2>1. Receipt(l, b) = Verified(l, board[b].health)
      BY <1>7 DEF Receipt, k
    <2>2. /\ Verified(l, board[b].health) \in Location
          /\ Verified(l, board[b].health).active = l.active /\ Verified(l, board[b].health).verified
          /\ Verified(l, board[b].health).pending = l.pending
          /\ Verified(l, board[b].health).live = l.live
      BY <1>1, <1>2 DEF Verified, Location
    <2> QED BY <1>1, <1>2, <1>3, <1>4, <1>6, <1>7, <2>1, <2>2 DEF l, k, Location
  <1>8. CASE /\ Auth(k) = "active" /\ ~l.verified /\ ~Proved(b) /\ board[b].style = "legacy"
    <2>1. Receipt(l, b) = Verified(l, "legacy")
      BY <1>8 DEF Receipt, k
    <2>2. /\ Verified(l, "legacy") \in Location
          /\ Verified(l, "legacy").active = l.active /\ Verified(l, "legacy").verified
          /\ Verified(l, "legacy").pending = l.pending
          /\ Verified(l, "legacy").live = l.live
      BY <1>1, <1>2 DEF Verified, Location, Healths
    <2> QED BY <1>1, <1>2, <1>3, <1>6, <1>8, <2>1, <2>2 DEF l, k
  <1>9. CASE Auth(k) = "pending" /\ board[b].style # "legacy" /\ Proved(b)
    <2>1. Receipt(l, b) = Promoted(l, b)
      BY <1>9 DEF Receipt, k
    <2>2. /\ Verified(l, board[b].health) \in Location
          /\ Verified(l, board[b].health).pending = l.pending
          /\ Verified(l, board[b].health).verified
      BY <1>1, <1>2 DEF Verified, Location
    <2>3. /\ Promoted(l, b) \in Location
          /\ Promoted(l, b).active = l.pending /\ Promoted(l, b).verified
          /\ Promoted(l, b).pending = 0 /\ ~Promoted(l, b).live
      <3>1. l.pending \in Kits /\ 0 \in 0..MaxKits
        BY <1>1, <1>2, <1>5, <1>9
      <3> QED BY ONLY <2>2, <3>1 DEF Promoted, Location
    <2> QED BY <1>1, <1>2, <1>3, <1>4, <1>5, <1>9, <2>1, <2>3 DEF l, k
  <1>10. CASE Receipt(l, b) = Challenged(l, b)
    <2>1. /\ Challenged(l, b) \in Location
          /\ Challenged(l, b).active = l.active /\ Challenged(l, b).verified = l.verified
          /\ Challenged(l, b).pending = l.pending /\ Challenged(l, b).live = l.live
      BY <1>1, <1>2 DEF Challenged, Location
    <2> QED BY <1>2, <1>3, <1>10, <2>1 DEF l, k
  <1>11. Auth(k) \in {"active", "pending"}
    BY DEF Auth, k
  <1>12. \/ Auth(k) = "active" /\ (l.verified \/ Proved(b))
         \/ Auth(k) = "active" /\ ~l.verified /\ ~Proved(b) /\ board[b].style = "legacy"
         \/ Auth(k) = "pending" /\ board[b].style # "legacy" /\ Proved(b)
         \/ Receipt(l, b) = Challenged(l, b)
    BY <1>11 DEF Receipt, k
  <1> QED BY <1>7, <1>8, <1>9, <1>10, <1>12

LEMMA PollStepGood ==
    ASSUME PairInv, NEW b \in Boards, NEW report \in BOOLEAN, NEW ripe \in Ripe,
           Poll(b, report, ripe)
    PROVE  Good
  <1> DEFINE next == Receipt(Announced(b), b)
             k == board[b].kit
             verified == next.verified /\ next.active = k
             awaiting == next.universal /\ next.health = "awaiting-map"
             t == IF verified THEN Reported(next, b, report) ELSE topo
             acked == IF verified THEN Acked(deploys, board[b].supportAck, t) ELSE deploys
             ds == IF verified /\ ~awaiting THEN Reconciled(acked, t) ELSE acked
             out == IF verified /\ ~awaiting THEN Outgoing(ds, ripe) ELSE {}
             r == [kit |-> k, challenge |-> ~verified, portal |-> verified /\ ~awaiting,
                   deploy |-> IF out = {} THEN 0 ELSE CHOOSE i \in out : TRUE]
  <1>1. /\ loc' = next /\ topo' = t
        /\ deploys' = [i \in DOMAIN ds |->
              IF i \in out THEN [ds[i] EXCEPT !.status = "delivered"] ELSE ds[i]]
        /\ board' = [board EXCEPT ![b].reply = r]
        /\ UNCHANGED <<map, ran, maps, faults>>
        /\ Auth(k) # "none"
    BY DEF Poll
  <1>2. /\ next \in Location /\ k \in Kits
        /\ \/ /\ next.active = loc.active /\ next.verified = loc.verified
              /\ next.pending = loc.pending /\ next.live = loc.live
           \/ /\ ~loc.verified /\ k = loc.active
              /\ k \in ran \/ (board[b].style = "legacy")
              /\ next.active = loc.active /\ next.verified
              /\ next.pending = loc.pending /\ next.live = loc.live
           \/ /\ LivePending /\ k = loc.pending /\ k \in ran
              /\ next.active = loc.pending /\ next.verified
              /\ next.pending = 0 /\ ~next.live
    BY <1>1, ReceiptResult
  <1>3. ds \in Seq(Deployment)
    <2>1. deploys \in Seq(Deployment)
      BY DEF PairInv, TypeOK
    <2>2. acked \in Seq(Deployment)
      BY <2>1, DeploysKept
    <2> HIDE DEF acked
    <2> QED BY <2>2, DeploysKept
  <1>4. deploys' \in Seq(Deployment)
    <2> HIDE DEF ds, out
    <2> QED BY <1>1, <1>3, DeploysKept
  <1>5. board[b].layout \in Layouts
    BY Parts DEF PairInv
  <1>6. r \in Reply /\ r.kit = k
    <2>1. DOMAIN ds \subseteq Nat
      BY <1>3
    <2>2. out \subseteq DOMAIN ds
      BY DEF Outgoing
    <2> HIDE DEF ds, out, verified, awaiting
    <2>3. (IF out = {} THEN 0 ELSE CHOOSE i \in out : TRUE) \in Nat
      BY <2>1, <2>2
    <2> HIDE DEF k
    <2>4. k \in 0..MaxKits
      BY <1>2, RouterPairingAssumption
    <2>5. (~verified) \in BOOLEAN /\ (verified /\ ~awaiting) \in BOOLEAN
      OBVIOUS
    <2> QED BY <2>3, <2>4, <2>5 DEF Reply
  <1>7. t \in {topo, [kit |-> next.active, layout |-> board[b].layout]}
    BY DEF Reported
  <1>8. next.pending # 0 /\ next.live => t = topo
    BY DEF Reported
  <1> HIDE DEF next, k, verified, awaiting, t, ds, out, r, acked
  <1>9. board'[b] = [board[b] EXCEPT !.reply = r] /\ \A c \in Boards \ {b} : board'[c] = board[c]
    BY <1>1 DEF PairInv, TypeOK
  <1>10. TypeOK'
    <2>1. t \in Topology \cup {NoTopo}
      BY <1>2, <1>5, <1>7 DEF Topology, Location, PairInv, TypeOK
    <2>2. board' \in [Boards -> Board]
      <3>1. [board[b] EXCEPT !.reply = r] \in Board
        BY <1>6, Parts DEF PairInv, Board
      <3> QED BY <1>1, <3>1 DEF PairInv, TypeOK
    <2> QED BY <1>1, <1>2, <1>4, <2>1, <2>2 DEF PairInv, TypeOK
  <1>11. LivePending => loc.live /\ loc.pending # 0
    BY DEF LivePending
  <1>12. MapIsOfThisRouter'
    <2>1. CASE next.active = loc.active
      BY <1>1, <1>7, <2>1 DEF PairInv, MapIsOfThisRouter
    <2>2. CASE LivePending /\ next.active = loc.pending
      BY <1>1, <1>7, <2>2 DEF PairInv, MapIsOfThisRouter, KitsInv
    <2> QED BY <1>2, <2>1, <2>2
  <1>13. KitsInv'
    BY <1>1, <1>2, <1>8 DEF PairInv, KitsInv, LivePending
  <1>14. \A c \in Boards : BoardInv(c)'
    <2>1. BoardInv(b)'
      <3>1. /\ board'[b].setupAck = board[b].setupAck /\ board'[b].style = board[b].style
            /\ board'[b].kit = board[b].kit /\ board'[b].reply = r
        BY <1>9, Parts DEF PairInv, Board
      <3> QED BY <1>1, <1>2, <1>6, <3>1 DEF PairInv, BoardInv
    <2>2. ASSUME NEW c \in Boards \ {b} PROVE BoardInv(c)'
      BY <1>1, <1>9 DEF PairInv, BoardInv
    <2> QED BY <2>1, <2>2
  <1>15. [P!Next]_(P!vars)
    <2>1. CASE /\ next.active = loc.active /\ next.verified = loc.verified
               /\ next.pending = loc.pending /\ next.live = loc.live
      BY <1>1, <2>1 DEF P!vars, Serving, Offered, LivePending
    <2>2. CASE /\ ~loc.verified /\ k = loc.active
               /\ k \in ran \/ (board[b].style = "legacy")
               /\ next.active = loc.active /\ next.verified
               /\ next.pending = loc.pending /\ next.live = loc.live
      <3>1. Serving' = k /\ k \in Offered
        BY <1>1, <2>2 DEF Serving, Offered
      <3>2. k \in ran \/ ((\E c \in Boards : "legacy" \in Styles[c]) /\ k = 1)
        BY <2>2 DEF PairInv, BoardInv, k
      <3>3. Offered' = {j \in Offered : j > k}
        <4>1. loc.active \in Kits /\ loc.pending \in 0..MaxKits
          BY Parts DEF PairInv
        <4> QED BY <1>1, <2>2, <4>1 DEF Offered, LivePending, PairInv, KitsInv
      <3>4. P!TakeOver(k)
        BY <1>1, <3>1, <3>2, <3>3 DEF P!TakeOver
      <3> QED BY <1>2, <3>4 DEF P!Next, P!Kits
    <2>3. CASE /\ LivePending /\ k = loc.pending /\ k \in ran
               /\ next.active = loc.pending /\ next.verified
               /\ next.pending = 0 /\ ~next.live
      <3>1. Serving' = k /\ k \in Offered
        BY <1>1, <2>3 DEF Serving, Offered
      <3>2. Offered' = {j \in Offered : j > k}
        <4>1. loc.active \in Kits /\ loc.pending \in 0..MaxKits
          BY Parts DEF PairInv
        <4> QED BY <1>1, <2>3, <4>1 DEF Offered, LivePending, PairInv, KitsInv
      <3>3. P!TakeOver(k)
        BY <1>1, <2>3, <3>1, <3>2 DEF P!TakeOver
      <3> QED BY <1>2, <3>3 DEF P!Next, P!Kits
    <2> QED BY <1>2, <2>1, <2>2, <2>3
  <1> QED BY <1>10, <1>12, <1>13, <1>14, <1>15 DEF Good, PairInv

-----------------------------------------------------------------------------
(* The board *)

LEMMA RunReplyStep ==
    ASSUME PairInv, NEW b \in Boards, NEW ok \in BOOLEAN, RunReply(b, ok)
    PROVE  Good
  <1> DEFINE reply == board[b].reply
             health == board[b].health
             i == reply.deploy
             suits == i # 0 /\ Applies(b, i)
             done == suits /\ ok
             ack == IF reply.challenge THEN reply.kit ELSE 0
             answer == IF i = 0 \/ (suits /\ ~ok) THEN NoAnswer ELSE [id |-> i, blocked |-> ~suits]
             newHealth == IF done /\ health = "ready" THEN "portal-missing"
                          ELSE IF reply.portal /\ health = "portal-missing" THEN "ready" ELSE health
             v == [board[b] EXCEPT !.reply = NoReply, !.setupAck = ack, !.supportAck = answer,
                                   !.health = newHealth]
  <1>1. /\ reply # NoReply /\ board' = [board EXCEPT ![b] = v]
        /\ ran' = IF reply.challenge THEN ran \cup {reply.kit} ELSE ran
        /\ UNCHANGED <<serverVars, maps, faults>>
    <2>1. board' = [board EXCEPT ![b] = v]
      BY DEF RunReply
    <2> HIDE DEF v
    <2> QED BY <2>1 DEF RunReply
  <1>2. reply.kit \in Kits /\ reply.challenge \in BOOLEAN /\ i \in Nat /\ health \in Healths
    BY <1>1, Parts DEF PairInv, BoardInv
  <1>3. v \in Board /\ v.setupAck = ack /\ v.reply = NoReply
        /\ v.style = board[b].style /\ v.kit = board[b].kit
    <2>1. ack \in 0..MaxKits /\ newHealth \in Healths
      BY <1>2, RouterPairingAssumption DEF Healths
    <2>2. answer \in Answer
      BY <1>2 DEF Answer, NoAnswer
    <2>3. board[b] \in Board
      BY Parts DEF PairInv
    <2>4. NoReply \in Reply
      BY RouterPairingAssumption DEF NoReply, Reply
    <2> HIDE DEF ack, answer, newHealth, done
    <2> QED BY ONLY <2>1, <2>2, <2>3, <2>4 DEF Board
  <1> HIDE DEF v, answer, newHealth, done
  <1>4. board'[b] = v /\ \A c \in Boards \ {b} : board'[c] = board[c]
    BY <1>1 DEF PairInv, TypeOK
  <1>5. ran \subseteq ran' /\ ran' \subseteq 0..MaxKits
    BY <1>1, <1>2, RouterPairingAssumption DEF PairInv, TypeOK
  <1>6. TypeOK'
    BY <1>1, <1>3, <1>5 DEF PairInv, TypeOK, serverVars
  <1>7. MapIsOfThisRouter' /\ KitsInv'
    BY <1>1 DEF PairInv, MapIsOfThisRouter, KitsInv, LivePending, serverVars
  <1>8. \A c \in Boards : BoardInv(c)'
    <2>1. BoardInv(b)'
      BY <1>1, <1>3, <1>4 DEF PairInv, BoardInv
    <2>2. ASSUME NEW c \in Boards \ {b} PROVE BoardInv(c)'
      BY <1>4, <1>5 DEF PairInv, BoardInv
    <2> QED BY <2>1, <2>2
  <1>9. [P!Next]_(P!vars)
    <2>1. Serving' = Serving /\ Offered' = Offered
      BY <1>1 DEF serverVars, Serving, Offered, LivePending
    <2>2. CASE reply.challenge
      BY <1>1, <1>2, <2>1, <2>2 DEF P!Next, P!Kits, P!RunScript
    <2>3. CASE ~reply.challenge
      BY <1>1, <2>1, <2>3 DEF P!vars
    <2> QED BY <2>2, <2>3
  <1> QED BY <1>6, <1>7, <1>8, <1>9 DEF Good, PairInv

\* The owner's hotspot is adopted: the location notes it, the kits stay.
LEMMA AdoptStep ==
    ASSUME PairInv, NEW b \in Boards, Adopt(b)
    PROVE  Good
  <1>1. /\ loc' = [loc EXCEPT !.adopt = loc.active]
        /\ board' = [board EXCEPT ![b].health = "portal-missing"]
        /\ UNCHANGED <<topo, map, deploys, ran, maps, faults>>
    BY DEF Adopt
  <1>2. /\ loc' \in Location /\ loc'.active = loc.active /\ loc'.verified = loc.verified
        /\ loc'.pending = loc.pending /\ loc'.live = loc.live
    <2>1. loc \in Location /\ loc.active \in 0..MaxKits
      BY Parts, RouterPairingAssumption DEF PairInv, TypeOK
    <2> QED BY ONLY <1>1, <2>1 DEF Location
  <1>3. [board[b] EXCEPT !.health = "portal-missing"] \in Board
    BY Parts DEF PairInv, Board, Healths
  <1>4. TypeOK'
    BY <1>1, <1>2, <1>3 DEF PairInv, TypeOK
  <1>5. MapIsOfThisRouter' /\ KitsInv'
    BY <1>1, <1>2 DEF PairInv, MapIsOfThisRouter, KitsInv, LivePending
  <1>6. ASSUME NEW c \in Boards PROVE BoardInv(c)'
    <2>1. /\ board'[c].setupAck = board[c].setupAck /\ board'[c].reply = board[c].reply
          /\ board'[c].style = board[c].style /\ board'[c].kit = board[c].kit
      BY <1>1, Parts DEF PairInv, TypeOK, Board
    <2> QED BY <1>1, <2>1 DEF PairInv, BoardInv
  <1>7. [P!Next]_(P!vars)
    BY <1>1, <1>2 DEF P!vars, Serving, Offered, LivePending
  <1> QED BY <1>4, <1>5, <1>6, <1>7 DEF Good, PairInv

LEMMA BoardSteps ==
    ASSUME PairInv, NEW b \in Boards, BoardStep(b)
    PROVE  Good
  <1>0. board[b] \in Board
    BY Parts DEF PairInv
  <1>1. /\ board[b].setupAck # 0 => board[b].setupAck \in ran
        /\ board[b].style = "legacy" => board[b].kit = 1 /\ "legacy" \in Styles[b]
        /\ faults \in Nat /\ (Fault => faults' \in Nat)
    BY Parts DEF PairInv, BoardInv, TypeOK, Fault
  <1>2. NoReply \in Reply /\ NoAnswer \in Answer /\ 0 \in 0..MaxKits
    BY RouterPairingAssumption DEF NoReply, Reply, NoAnswer, Answer
  <1>3. CASE LoseReply(b)
    <2> DEFINE v == [board[b] EXCEPT !.reply = NoReply]
    <2>1. /\ v \in Board /\ v.setupAck = board[b].setupAck /\ v.reply = NoReply
          /\ v.style = board[b].style /\ v.kit = board[b].kit
      BY ONLY <1>0, <1>2 DEF Board
    <2>2. board' = [board EXCEPT ![b] = v]
      BY <1>3 DEF LoseReply
    <2> HIDE DEF v
    <2> QED BY <1>1, <1>3, <2>1, <2>2, BoardAlone DEF LoseReply
  <1>4. CASE Restart(b)
    <2> DEFINE v == [board[b] EXCEPT !.reply = NoReply, !.setupAck = 0, !.supportAck = NoAnswer]
    <2>1. /\ v \in Board /\ v.setupAck = 0 /\ v.reply = NoReply
          /\ v.style = board[b].style /\ v.kit = board[b].kit
      BY ONLY <1>0, <1>2 DEF Board
    <2>2. board' = [board EXCEPT ![b] = v]
      <3>1. \A c \in Boards : board'[c] = IF c = b THEN v ELSE board[c]
        BY <1>1, <1>4 DEF Restart, PairInv, TypeOK, Board
      <3>2. board' \in [Boards -> {board'[c] : c \in Boards}]
        BY <1>4 DEF Restart, PairInv, TypeOK
      <3> HIDE DEF v
      <3> QED BY <3>1, <3>2 DEF PairInv, TypeOK
    <2> HIDE DEF v
    <2>3. faults' \in Nat /\ UNCHANGED <<serverVars, ran, maps>>
      BY <1>1, <1>4 DEF Restart
    <2>4. v.style = "legacy" => v.kit = 1 /\ "legacy" \in Styles[b]
      BY <1>1, <2>1
    <2> QED BY <2>1, <2>2, <2>3, <2>4, BoardAlone
  <1>5. CASE Break(b) \/ Mend(b)
    <2> DEFINE v == [board[b] EXCEPT !.health = IF Break(b) THEN "bridge-missing" ELSE "portal-missing"]
    <2>1. /\ v \in Board /\ v.setupAck = board[b].setupAck /\ v.reply = board[b].reply
          /\ v.style = board[b].style /\ v.kit = board[b].kit
      BY ONLY <1>0 DEF Board, Healths
    <2>2. board' = [board EXCEPT ![b] = v] /\ faults' \in Nat /\ UNCHANGED <<serverVars, ran, maps>>
      BY <1>1, <1>5 DEF Break, Mend
    <2> HIDE DEF v
    <2> QED BY <1>1, <2>1, <2>2, BoardAlone
  <1>6. CASE \E layout \in Layouts : Rewire(b, layout)
    <2> PICK layout \in Layouts : Rewire(b, layout)
      BY <1>6
    <2> DEFINE v == [board[b] EXCEPT !.layout = layout]
    <2>0. layout \in Layouts
      OBVIOUS
    <2>1. /\ v \in Board /\ v.setupAck = board[b].setupAck /\ v.reply = board[b].reply
          /\ v.style = board[b].style /\ v.kit = board[b].kit
      BY ONLY <1>0, <2>0 DEF Board
    <2>2. board' = [board EXCEPT ![b] = v] /\ faults' \in Nat /\ UNCHANGED <<serverVars, ran, maps>>
      BY <1>1 DEF Rewire
    <2> HIDE DEF v
    <2> QED BY <1>1, <2>1, <2>2, BoardAlone
  <1>7. CASE Adopt(b)
    BY <1>7, AdoptStep
  <1> QED BY <1>3, <1>4, <1>5, <1>6, <1>7 DEF BoardStep

-----------------------------------------------------------------------------
(* The invariant *)

LEMMA InitPairInv == Init => PairInv /\ P!Init
  <1> SUFFICES ASSUME Init PROVE PairInv /\ P!Init
    OBVIOUS
  <1> USE RouterPairingAssumption
  <1>1. loc \in Location
    BY DEF Init, Location, Healths
  <1>2. \A b \in Boards : board[b] = NewBoard(CHOOSE l \in Layouts : TRUE)
    BY DEF Init
  <1>3. NewBoard(CHOOSE l \in Layouts : TRUE) \in Board
    <2>1. (CHOOSE l \in Layouts : TRUE) \in Layouts
      OBVIOUS
    <2> QED BY <2>1 DEF NewBoard, Board, NoReply, Reply, NoAnswer, Answer, Healths
  <1>4. TypeOK
    <2>1. <<>> \in Seq(Deployment) /\ {} \subseteq 0..MaxKits /\ 0 \in Nat
      OBVIOUS
    <2> HIDE DEF Kits, Open
    <2> QED BY ONLY <1>1, <1>3, <2>1, Init DEF Init, TypeOK
  <1>5. MapIsOfThisRouter /\ KitsInv
    BY DEF Init, MapIsOfThisRouter, KitsInv, LivePending
  <1>6. ASSUME NEW b \in Boards PROVE BoardInv(b)
    <2>1. board[b].setupAck = 0 /\ board[b].reply = NoReply /\ board[b].style = "none"
      <3>1. \A l : NewBoard(l).setupAck = 0 /\ NewBoard(l).reply = NoReply /\ NewBoard(l).style = "none"
        BY DEF NewBoard
      <3> QED BY <1>2, <3>1
    <2> QED BY <2>1 DEF BoardInv
  <1>7. P!Init
    BY DEF Init, P!Init, Serving, Offered, LivePending
  <1> QED BY <1>4, <1>5, <1>6, <1>7 DEF PairInv

\* Every step of the owner, of a poll and of a board, one action at a time.
LEMMA EveryStepIsGood ==
    ASSUME PairInv, [Next]_vars
    PROVE  Good
  <1>1. CASE Stage
    BY <1>1, StageStep
  <1>2. CASE Expire
    BY <1>2, ExpireStep
  <1>3. CASE RequestDeployment
    BY <1>3, RequestStep
  <1>4. CASE \E choice \in Choices : ConfirmMap(choice)
    BY <1>4, ConfirmMapStep
  <1>5. CASE \E b \in Boards, k \in Kits, style \in AllStyles : Paste(b, k, style)
    BY <1>5, PasteStep
  <1>6. CASE ReportsStop
    BY <1>6, ReportsStopStep
  <1>7. CASE \E b \in Boards : PollStep(b)
    BY <1>7, PollStepGood DEF PollStep
  <1>8. CASE \E b \in Boards : ReplyStep(b)
    BY <1>8, RunReplyStep DEF ReplyStep
  <1>9. CASE \E b \in Boards : BoardStep(b)
    BY <1>9, BoardSteps
  <1>10. CASE UNCHANGED vars
    <2>1. deploys' \in Seq(Deployment)
      BY <1>10 DEF PairInv, TypeOK, vars, serverVars
    <2> QED BY <1>10, <2>1, DeploysOnly DEF vars, serverVars
  <1> QED BY <1>1, <1>2, <1>3, <1>4, <1>5, <1>6, <1>7, <1>8, <1>9, <1>10 DEF Next, OwnerStep

LEMMA PairInvHolds == Spec => []PairInv
  <1>1. Init => PairInv
    BY InitPairInv
  <1>2. PairInv /\ [Next]_vars => PairInv'
    BY EveryStepIsGood DEF Good
  <1> QED BY <1>1, <1>2, PTL DEF Spec

-----------------------------------------------------------------------------
(* The theorems *)

\* The location, its map and the boards keep their types.
THEOREM PairingTypes == Spec => []TypeOK
  <1>1. PairInv => TypeOK
    BY DEF PairInv
  <1> QED BY <1>1, PairInvHolds, PTL

\* What the owner sees of the ports, and the map the server acts on, are the
\* paired router's, for any number of kits, boards, lost replies and restarts
\* (rotateLocationToken, recordRouterTopology, promotePendingLocationToken).
THEOREM MapStaysWithItsRouter == Spec => []MapIsOfThisRouter
  <1>1. PairInv => MapIsOfThisRouter
    BY DEF PairInv
  <1> QED BY <1>1, PairInvHolds, PTL

\* The kits, challenges and receipts implement the pairing promise: one kit
\* serves at a time, it takes over only after its router ran what the server
\* sent it, and the location never goes back to an older one
\* (processRouterSetupReceipt).
THEOREM PairingImplementsPromise == Spec => ImplementsPairing
  <1>1. Init => P!Init
    BY InitPairInv
  <1>2. PairInv /\ [Next]_vars => [P!Next]_(P!vars)
    BY EveryStepIsGood DEF Good
  <1> QED BY <1>1, <1>2, PairInvHolds, PTL DEF Spec, ImplementsPairing, P!Spec
=============================================================================
