----------------------------- MODULE RemoteAccess -----------------------------
(***************************************************************************)
(* Remote access: the owner's consent, the control the router collects with *)
(* its poll (prepare, activate, revoke), the WireGuard peer the server      *)
(* wants, and the agent on the gateway that reconciles the peers it finds   *)
(* with the peers it is sent (src/src/lib/tenant.js, the sync and enrolment *)
(* routes of src/src/server.js, the scripts of src/src/lib/rsc.js, the      *)
(* installer's bootstrap and src/vpn-gateway/agent.js).                     *)
(*                                                                          *)
(* A location has at most one control that is neither acknowledged nor      *)
(* cancelled: queueRemoteSupportControl cancels the others first, and an    *)
(* activation is queued only when there is none.  So ctl holds the last.    *)
(***************************************************************************)
EXTENDS Naturals, FiniteSets, FiniteSetsExt

CONSTANTS
    Sites_,      \* locations
    Addresses,   \* addresses of the management network
    MaxKeys,     \* bound: keys made by routers
    Budgets      \* bounds: the requests each owner makes, and how often each kind
                 \* of thing goes wrong, and whether the gateway is there
                 \* from the start: a set of [asks, faults, gateway]

Kinds == {"move", "loss", "crash", "wipe"}

ASSUME RemoteAssumption ==
    /\ Addresses \subseteq Nat \ {0} /\ IsFiniteSet(Addresses) /\ MaxKeys \in Nat
    /\ Budgets \subseteq [asks : [Sites_ -> Nat], faults : [Kinds -> Nat], gateway : BOOLEAN]

VARIABLES
    access,   \* tenant_remote_access: [st, gw, addr, key]
    peer,     \* tenant_vpn_peers: [des, gs, ver, key, addr]
    ctl,      \* the last tenant_remote_support_controls row: [id, act, ver, open]
    lastAct,  \* version of the last acknowledged activation
    board,    \* the paired router: [key, tag, on] of fiti-support-wg
    reply,    \* the answer to its poll, on the way
    ack,      \* its fitiSupportAck
    wg,       \* peers of the gateway's interface: a set of [key, addr]
    agent,    \* the agent's file: [managed, applied, removed]
    cycle,    \* the agent's running cycle: [at, next]
    keys,     \* keys routers have made
    asks,     \* requests still to come
    faults,   \* faults still to come
    enabled,  \* the gateway is configured
    broke     \* the kinds of it that leave something behind

remoteVars == <<access, peer, ctl, lastAct, board, reply, ack, wg, agent, cycle, keys,
                asks, faults, enabled, broke>>
serverVars == <<access, peer, ctl, lastAct>>
routerVars == <<board, reply, ack, keys>>
gatewayVars == <<wg, agent, cycle>>
remoteBounds == <<asks, faults, enabled, broke>>

NoAccess == [st |-> "none", gw |-> FALSE, addr |-> 0, key |-> 0]
NoPeer == [des |-> "none", gs |-> "none", ver |-> 0, key |-> 0, addr |-> 0]
NoCtl == [id |-> 0, act |-> "none", ver |-> 0, open |-> FALSE]
NoIface == [key |-> 0, tag |-> "none", on |-> FALSE]
NoAnswer == [id |-> 0, act |-> "none", ver |-> 0, open |-> TRUE]
Idle == [at |-> "idle", next |-> {}]

RemoteInit ==
    /\ access = [l \in Sites_ |-> NoAccess] /\ peer = [l \in Sites_ |-> NoPeer]
    /\ ctl = [l \in Sites_ |-> NoCtl] /\ lastAct = [l \in Sites_ |-> 0]
    /\ board = [l \in Sites_ |-> NoIface] /\ reply = [l \in Sites_ |-> NoCtl]
    /\ ack = [l \in Sites_ |-> 0] /\ keys = 0
    /\ wg = {} /\ agent = [managed |-> {}, applied |-> {}, removed |-> {}] /\ cycle = Idle
    /\ \E b \in Budgets : asks = b.asks /\ faults = b.faults /\ enabled = b.gateway
    /\ broke = {}

Fault(k) ==
    /\ faults[k] > 0
    /\ faults' = [faults EXCEPT ![k] = @ - 1]
    /\ broke' = broke \cup ({k} \cap {"move", "crash"})

(* ------------------------------ the server ------------------------------ *)

Queued(l, act, ver) == [id |-> ctl[l].id + 1, act |-> act, ver |-> ver, open |-> TRUE]

RevokeOpen(l) == ctl[l].open /\ ctl[l].act = "revoke"

\* queueReadyVpnActivation, with the peer and the control the transaction has written.
ActivationDue(l, p, c) ==
    /\ p.des = "active" /\ p.gs = "ready" /\ ~c.open
    /\ lastAct[l] # p.ver

TakenAddresses ==
    {peer[m].addr : m \in {x \in Sites_ : peer[x].des = "active"}}
        \cup {access[m].addr : m \in {x \in Sites_ : access[x].st = "configured"}}

\* Mutant of KeyTaken: only the location's own row is looked at.
KeyNeverTaken(l, k) == FALSE

KeyTaken(l, k) == \E m \in Sites_ \ {l} : peer[m].des = "active" /\ peer[m].key = k
AddrTaken(l, a) == \E m \in Sites_ \ {l} : peer[m].des = "active" /\ peer[m].addr = a

\* allocateDesiredVpnPeerInTransaction for a configured record a: the peer it
\* leaves (the same one when nothing changed), and whether it refuses.
AllocateRefused(l, a) == AddrTaken(l, a.addr) \/ KeyTaken(l, a.key)
Allocated(l, a) ==
    IF peer[l].des = "active" /\ peer[l].key = a.key /\ peer[l].addr = a.addr THEN peer[l]
    ELSE [des |-> "active", gs |-> "pending", ver |-> peer[l].ver + 1, key |-> a.key, addr |-> a.addr]

Cancel(c) == IF c.act = "activate" THEN [c EXCEPT !.open = FALSE] ELSE c

\* provisionRemoteVpn: approves and configures what was requested, takes over
\* what an administrator configured, and asks the router for its key again.
Provision(l, a) ==
    CASE a.st \in {"requested", "approved"} /\ Addresses \subseteq TakenAddresses ->
            /\ access' = [access EXCEPT ![l] = a]        \* refused: rolled back
            /\ UNCHANGED <<peer, ctl>>
      [] a.st \in {"requested", "approved"} /\ ~(Addresses \subseteq TakenAddresses) ->
            /\ access' = [access EXCEPT ![l] =
                   [st |-> "configured", gw |-> TRUE, addr |-> Min(Addresses \ TakenAddresses), key |-> 0]]
            /\ ctl' = [ctl EXCEPT ![l] = Queued(l, "prepare", 0)]
            /\ UNCHANGED peer
      [] a.st = "configured" /\ a.key = 0 ->
            /\ access' = [access EXCEPT ![l] = [a EXCEPT !.gw = TRUE]]
            /\ ctl' = [ctl EXCEPT ![l] = IF ctl[l].open /\ ctl[l].act = "prepare" THEN @
                                         ELSE Queued(l, "prepare", 0)]
            /\ UNCHANGED peer
      [] a.st = "configured" /\ a.key # 0 ->
            IF AllocateRefused(l, a) THEN UNCHANGED <<access, peer, ctl>>
            ELSE /\ access' = [access EXCEPT ![l] = [a EXCEPT !.gw = TRUE]]
                 /\ peer' = [peer EXCEPT ![l] = Allocated(l, a)]
                 /\ ctl' = [ctl EXCEPT ![l] = IF peer'[l] = peer[l] THEN @ ELSE Cancel(@)]

\* POST /api/business/locations/:id/remote-access, and autoRequestRemoteAccess
\* at the first verified poll.
RequestAccess(l) ==
    /\ asks[l] > 0 /\ ~RevokeOpen(l)
    /\ asks' = [asks EXCEPT ![l] = @ - 1]
    /\ LET a == IF access[l].st \in {"none", "revoked"}
                THEN [NoAccess EXCEPT !.st = "requested"] ELSE access[l]
       IN IF enabled THEN Provision(l, a)
          ELSE access' = [access EXCEPT ![l] = a] /\ UNCHANGED <<peer, ctl>>
    /\ UNCHANGED <<lastAct, routerVars, gatewayVars, faults, enabled, broke>>

\* A deployment with a gateway follows one without.
TurnOn ==
    /\ ~enabled /\ enabled' = TRUE
    /\ UNCHANGED <<serverVars, routerVars, gatewayVars, asks, faults, broke>>

\* manageRemoteAccess by an administrator: approve, then record an address.
Approve(l) ==
    /\ access[l].st = "requested"
    /\ access' = [access EXCEPT ![l].st = "approved"]
    /\ UNCHANGED <<peer, ctl, lastAct, routerVars, gatewayVars, remoteBounds>>

Configure(l) == \E a \in Addresses :
    /\ access[l].st = "approved"
    /\ \A m \in Sites_ : access[m].st = "configured" => access[m].addr # a
    /\ access' = [access EXCEPT ![l].st = "configured", ![l].addr = a]
    /\ ctl' = [ctl EXCEPT ![l] = Queued(l, "prepare", 0)]
    /\ UNCHANGED <<peer, lastAct, routerVars, gatewayVars, remoteBounds>>

\* revokeVpnPeerDesiredInTransaction.
Withdrawn(p) ==
    IF p.des # "active" THEN p
    ELSE [p EXCEPT !.des = "revoked", !.ver = @ + 1, !.gs = "revoke_pending"]

\* revokeRemoteAccessForBusiness, manageRemoteAccess and revokeVpnPeer.
RevokeAccess(l) ==
    /\ access[l].st \in {"requested", "approved", "configured"}
    /\ access' = [access EXCEPT ![l] = [NoAccess EXCEPT !.st = "revoked"]]
    /\ peer' = [peer EXCEPT ![l] = Withdrawn(@)]
    /\ ctl' = [ctl EXCEPT ![l] = Queued(l, "revoke", 0)]
    /\ UNCHANGED <<lastAct, routerVars, gatewayVars, remoteBounds>>

\* markRemoteSupportControlAcked, then the control the poll hands out.

\* Mutant of Released: the activation is not queued when the prepare is acknowledged.
ReleasedLater(l, c) == c

Released(l, c) == IF c.act = "prepare" /\ ActivationDue(l, peer[l], c) THEN Queued(l, "activate", peer[l].ver) ELSE c

Acknowledge(l) ==
    LET hit == ctl[l].open /\ ctl[l].id = ack[l]
        done == IF hit THEN [ctl[l] EXCEPT !.open = FALSE] ELSE ctl[l]
    IN /\ lastAct' = [lastAct EXCEPT ![l] = IF hit /\ done.act = "activate" THEN done.ver ELSE @]
       /\ ctl' = [ctl EXCEPT ![l] = IF hit THEN Released(l, done) ELSE @]

Poll(l) ==
    /\ reply[l] = NoCtl
    /\ ctl[l].open \/ ack[l] # 0
    /\ Acknowledge(l)
    /\ reply' = [reply EXCEPT ![l] = IF ctl'[l].open THEN ctl'[l] ELSE NoAnswer]
    /\ UNCHANGED <<access, peer, board, ack, keys, gatewayVars, remoteBounds>>

(* ------------------------------ the router ------------------------------ *)

Finish(l, i) ==
    /\ reply' = [reply EXCEPT ![l] = NoCtl] /\ ack' = [ack EXCEPT ![l] = i]

\* recordRemoteAccessEnrollment accepts the key.
Enrolled(l, k) ==
    /\ access[l].st = "configured" /\ access[l].key \in {0, k}
    /\ access[l].gw => ~AllocateRefused(l, [access[l] EXCEPT !.key = k])

\* The bootstrap reports the key; only then is the prepare acknowledged.  An
\* interface activated before carries another tag: it is left alone, nothing
\* is reported, and the prepare is acknowledged all the same.
RunPrepare(l) ==
    LET k == IF board[l].key = 0 THEN keys + 1 ELSE board[l].key IN
    /\ reply[l].act = "prepare" /\ k <= MaxKeys
    /\ keys' = Max({keys, k})
    /\ board' = [board EXCEPT ![l] = IF @.key = 0 THEN [key |-> k, tag |-> "support", on |-> FALSE] ELSE @]
    /\ \/ /\ board[l].tag = "vpn"
          /\ Finish(l, reply[l].id) /\ UNCHANGED serverVars
       \/ /\ board[l].tag # "vpn" /\ Enrolled(l, k)
          /\ access' = [access EXCEPT ![l].key = k]
          /\ peer' = [peer EXCEPT ![l] = IF access[l].gw THEN Allocated(l, access'[l]) ELSE @]
          /\ ctl' = [ctl EXCEPT ![l] = IF peer'[l] = peer[l] THEN @ ELSE Cancel(@)]
          /\ Finish(l, reply[l].id) /\ UNCHANGED lastAct
       \/ /\ board[l].tag # "vpn" /\ ~Enrolled(l, k)
          /\ Finish(l, 0) /\ UNCHANGED serverVars
    /\ UNCHANGED <<gatewayVars, remoteBounds>>

RunActivate(l) ==
    /\ reply[l].act = "activate"
    /\ IF board[l].key = 0 THEN Finish(l, 0) /\ UNCHANGED board
       ELSE /\ board' = [board EXCEPT ![l].tag = "vpn", ![l].on = TRUE]
            /\ Finish(l, reply[l].id)
    /\ UNCHANGED <<serverVars, keys, gatewayVars, remoteBounds>>

RunRevoke(l) ==
    /\ reply[l].act = "revoke"
    /\ board' = [board EXCEPT ![l] = NoIface]
    /\ Finish(l, reply[l].id)
    /\ UNCHANGED <<serverVars, keys, gatewayVars, remoteBounds>>

RunNothing(l) ==
    /\ reply[l] = NoAnswer
    /\ Finish(l, 0)
    /\ UNCHANGED <<serverVars, board, keys, gatewayVars, remoteBounds>>

RunScript(l) == RunPrepare(l) \/ RunActivate(l) \/ RunRevoke(l) \/ RunNothing(l)

LoseAnswer(l) ==
    /\ reply[l] # NoCtl /\ Fault("loss")
    /\ reply' = [reply EXCEPT ![l] = NoCtl]
    /\ UNCHANGED <<serverVars, board, ack, keys, gatewayVars, asks, enabled>>

Reboot(l) ==
    /\ Fault("loss")
    /\ Finish(l, 0)
    /\ UNCHANGED <<serverVars, board, keys, gatewayVars, asks, enabled>>

(* A router is paired at another location; the place it leaves gets a new one. *)
(* There its first verified poll may ask (autoRequestRemoteAccess).           *)
Move(l, m) ==
    /\ l # m /\ Fault("move")
    /\ asks' = [asks EXCEPT ![m] = @ + 1]
    /\ board' = [board EXCEPT ![m] = board[l], ![l] = NoIface]
    /\ reply' = [reply EXCEPT ![l] = NoCtl, ![m] = NoCtl]
    /\ ack' = [ack EXCEPT ![l] = 0, ![m] = 0]
    /\ UNCHANGED <<serverVars, keys, gatewayVars, enabled>>

(* deleteLocationForOwner, and the same router set up as a new location. *)
SetUpAnew(l) ==
    /\ Fault("move")
    /\ access' = [access EXCEPT ![l] = NoAccess] /\ peer' = [peer EXCEPT ![l] = NoPeer]
    /\ ctl' = [ctl EXCEPT ![l] = NoCtl] /\ lastAct' = [lastAct EXCEPT ![l] = 0]
    /\ Finish(l, 0)
    /\ UNCHANGED <<board, keys, gatewayVars, asks, enabled>>

(* ----------------------------- the gateway ------------------------------ *)

\* desiredVpnPeersForGateway, and the part of it the agent is sent.
Known(l) == peer[l].des = "active" \/ peer[l].gs \notin {"none", "revoked"}
Snapshot == {[key |-> peer[l].key, addr |-> peer[l].addr] : l \in {m \in Sites_ : peer[m].des = "active"}}

\* reportForState: what the interface confirms of what the agent did.
Confirmed == agent.applied \cap wg
Gone == {k \in agent.removed : \A p \in wg : p.key # k}

\* Locations whose peer the report makes ready, and whose removal it proves.
\* Of two rows with one key the route's map keeps the one written last.
ReadyPeers ==
    {l \in Sites_ : peer[l].des = "active" /\ [key |-> peer[l].key, addr |-> peer[l].addr] \in Confirmed}
RemovedPeers ==
    {l \in Sites_ : /\ peer[l].des = "revoked" /\ Known(l) /\ peer[l].key \in Gone
                    /\ \A m \in Sites_ : peer[m].key = peer[l].key => peer[m].des # "active"}

\* POST /api/internal/vpn-gateways/:id/sync; the snapshot's digest only saves
\* sending what the agent already holds.
Report ==
    /\ \E one \in {S \in SUBSET RemovedPeers :
                     /\ \A l, m \in S : peer[l].key = peer[m].key => l = m
                     /\ \A l \in RemovedPeers : \E m \in S : peer[m].key = peer[l].key} :
         peer' = [l \in Sites_ |-> IF l \in ReadyPeers THEN [peer[l] EXCEPT !.gs = "ready"]
                                  ELSE IF l \in one THEN [peer[l] EXCEPT !.gs = "revoked"] ELSE peer[l]]
    /\ ctl' = [l \in Sites_ |-> IF l \in ReadyPeers /\ ActivationDue(l, peer'[l], ctl[l])
                               THEN Queued(l, "activate", peer[l].ver) ELSE ctl[l]]

\* A cycle that finds everything as it left it changes nothing and is left out.
SomethingToDo == wg # Snapshot \/ agent # [managed |-> Snapshot, applied |-> {}, removed |-> {}]

Sync ==
    /\ enabled /\ cycle = Idle /\ SomethingToDo
    /\ Report
    /\ cycle' = [at |-> "answered", next |->
          [desired |-> Snapshot, dump |-> wg,
           managed |-> agent.managed, applied |-> agent.applied \ Confirmed, removed |-> agent.removed \ Gone]]
    /\ UNCHANGED <<access, lastAct, routerVars, wg, agent, remoteBounds>>

\* The answer does not arrive: the server has taken the report in, the agent has not.
SyncAnswerLost ==
    /\ enabled /\ cycle = Idle /\ SomethingToDo /\ Fault("loss")
    /\ Report
    /\ UNCHANGED <<access, lastAct, routerVars, gatewayVars, asks, enabled>>

KeysOf(ps) == {p.key : p \in ps}
OffWire(ps, want) ==  \* an allowed address belongs to one peer of the interface
    {IF \E q \in want : q.addr = p.addr THEN [p EXCEPT !.addr = 0] ELSE p : p \in {x \in ps : x.key \notin KeysOf(want)}}

\* Mutant of Unwanted: a peer once confirmed is forgotten.
UnwantedUnconfirmed(n) == KeysOf(n.applied) \ KeysOf(n.desired)

Unwanted(n) == KeysOf(n.managed) \ KeysOf(n.desired)

\* reconcile: set what is missing, adopt what matches, remove what is managed
\* and no longer wanted.
Reconcile ==
    /\ cycle.at = "answered"
    /\ LET n == cycle.next
           setNow == n.desired \ n.dump
           adopted == (n.desired \cap n.dump) \ n.managed
           unwanted == Unwanted(n)
           kept == {p \in OffWire(wg, setNow) : p.key \notin unwanted}
       IN /\ wg' = kept \cup setNow
          /\ cycle' = [at |-> "reconciled", next |->
                [managed |-> n.desired,
                 applied |-> {p \in n.applied : p.key \notin unwanted \cup KeysOf(setNow \cup adopted)}
                               \cup setNow \cup adopted,
                 removed |-> (n.removed \ KeysOf(n.desired)) \cup unwanted]]
    /\ UNCHANGED <<serverVars, routerVars, agent, remoteBounds>>

WriteState ==
    /\ cycle.at = "reconciled"
    /\ agent' = cycle.next /\ cycle' = Idle
    /\ UNCHANGED <<serverVars, routerVars, wg, remoteBounds>>

AgentCrash ==
    /\ cycle.at = "reconciled" /\ Fault("crash")
    /\ cycle' = Idle
    /\ UNCHANGED <<serverVars, routerVars, wg, agent, asks, enabled>>

GatewayReboot ==
    /\ Fault("wipe")
    /\ wg' = {} /\ cycle' = Idle
    /\ UNCHANGED <<serverVars, routerVars, agent, asks, enabled>>

OwnerAct(l) == RequestAccess(l) \/ Approve(l) \/ Configure(l) \/ RevokeAccess(l) \/ SetUpAnew(l)

RemoteNext ==
    \/ \E l \in Sites_ : OwnerAct(l) \/ Poll(l) \/ RunScript(l) \/ LoseAnswer(l) \/ Reboot(l)
    \/ \E l, m \in Sites_ : Move(l, m)
    \/ TurnOn \/ Sync \/ SyncAnswerLost \/ Reconcile \/ WriteState \/ AgentCrash \/ GatewayReboot

\* Routers poll, the agent runs its loop (main); nobody has to ask or revoke.
RemoteFairness ==
    /\ \A l \in Sites_ : WF_remoteVars(Poll(l)) /\ WF_remoteVars(RunScript(l))
    /\ WF_remoteVars(Sync) /\ WF_remoteVars(Reconcile) /\ WF_remoteVars(WriteState)

RemoteSpec == RemoteInit /\ [][RemoteNext]_remoteVars /\ RemoteFairness

(* ------------------------------ properties ------------------------------ *)

Carried(l) == board[l].on /\ [key |-> board[l].key, addr |-> access[l].addr] \in wg

\* No two locations want a peer with one key or one address, whatever is asked
\* for again, revoked, moved to another router or wiped there: the agent refuses
\* a snapshot that names a key twice, for every location of the gateway.
OneTunnelPerSite ==
    \A l, m \in Sites_ : l # m /\ peer[l].des = "active" /\ peer[m].des = "active" =>
        peer[l].key # peer[m].key /\ peer[l].addr # peer[m].addr

\* What the owner asked for comes about: with the gateway chosen, the tunnel
\* of a router that stays where it is carries traffic in the end, whatever was
\* lost on the way, unless access is withdrawn.
Asked(l) == access[l].st = "configured" /\ access[l].gw
RequestedGetsTunnel ==
    \A l \in Sites_ : (Asked(l) /\ "move" \notin broke) ~> (Carried(l) \/ ~Asked(l) \/ "move" \in broke)

\* Withdrawn consent, and a deleted location, take the router's key off the
\* gateway, also when the router itself is never heard of again.
Wanted(k) == \E l \in Sites_ : peer[l].des = "active" /\ peer[l].key = k

\* The same as long as the agent writes down what it has set.
UnwantedPeerLeavesGateway ==
    \A k \in 1..MaxKeys : (k \in KeysOf(wg) /\ ~Wanted(k)) ~> (k \notin KeysOf(wg) \/ Wanted(k) \/ "crash" \in broke)
=============================================================================
