------------------------------- MODULE Terminal -------------------------------
(***************************************************************************)
(* The router terminal: sessions that the dashboard opens with a ticket,   *)
(* the control channel that the gateway's agent holds to the server, and   *)
(* the two transports on it - a TCP relay through which the server speaks  *)
(* SSH itself, and a shell that the agent opens with the router's password *)
(* (router-terminal.js, terminal-link.js, the sockets of server.js and the *)
(* second half of vpn-gateway/agent.js).  One router, one gateway.         *)
(*                                                                         *)
(* Tickets come from createTicket, as the tests take them: the route that  *)
(* should mint them, POST /terminal, calls terminalLink.getSession, which  *)
(* does not exist, and answers every request with an error.  The limits of *)
(* ten tickets an hour and five sessions a business are beyond the bounds. *)
(***************************************************************************)
EXTENDS Naturals, Sequences, FiniteSetsExt

CONSTANTS
    Sessions,      \* tickets, and the sessions started with them
    Transports,    \* the transport each asks for: "direct" or "gateway"
    MaxEvents      \* bound: reconnections of the agent, and changes of the platform's
                   \* and the owner's mind

VARIABLES
    policy,      \* [approved: terminal_settings, eligible: remote access is up]
    chan,        \* the connection the server and the agent believe in, 0 is none
    made,        \* connections so far
    sess,        \* sessions: [kind, dash, shell, row]
    registered,  \* sessionsByLocation of the router
    pending,     \* the channel's route of a session's frames: [kind, chan, timer]
    toAgent, toApp,   \* frames on the way, by session
    relays,      \* relays and shells of the agent
    switches     \* bound

appVars == <<sess, registered, pending, toAgent>>
terminalVars == <<policy, chan, made, appVars, toApp, relays, switches>>

None == "none"
NoSession == [kind |-> None, dash |-> None, shell |-> None, row |-> None]
NoRoute == [kind |-> None, chan |-> 0, timer |-> FALSE]

TerminalInit ==
    /\ policy = [approved |-> TRUE, eligible |-> TRUE] /\ switches = 0
    /\ chan = [app |-> 1, agent |-> 1] /\ made = 1
    /\ sess = [s \in Sessions |-> NoSession] /\ registered = None
    /\ pending = [s \in Sessions |-> NoRoute]
    /\ toAgent = [s \in Sessions |-> <<>>] /\ toApp = [s \in Sessions |-> <<>>]
    /\ relays = [s \in Sessions |-> None]

MoreEvents == made + switches <= MaxEvents
Linked == chan.app # 0 /\ chan.app = chan.agent
\* terminalTransportStatus, and the same check again in session.start.
Available(kind) == chan.app # 0 /\ (kind = "gateway" => policy.approved)

----------------------------------------------------------------------------
(* The server's side, as functions of its state                             *)

App == [sess |-> sess, registered |-> registered, pending |-> pending, out |-> toAgent]
Becomes(a) ==
    /\ sess' = a.sess /\ registered' = a.registered
    /\ pending' = a.pending /\ toAgent' = a.out

Direct(s) == sess[s].kind = "direct"
Sent(a, s, frame) == IF Linked THEN [a EXCEPT !.out[s] = Append(@, frame)] ELSE a
Unrouted(a, s) == [a EXCEPT !.pending[s] = [@ EXCEPT !.kind = None]]

\* start() rejects: the dashboard's socket is closed, the session only then.
Failed(a, s) ==
    [a EXCEPT !.sess[s].shell = "over",
              !.sess[s].dash = IF @ = "started" THEN "closing" ELSE @]

\* shell.close: an SSH goodbye that makes the router hang up, or shell-close.
HungUp(a, s) ==
    LET b == Sent([a EXCEPT !.sess[s].shell = "over"], s, "close")
    IN  IF Direct(s) THEN b ELSE Unrouted(b, s)

\* session.close.  It empties the router's place in the registry, whoever has it.
Closed(a, s) ==
    IF a.sess[s].row # "open" THEN a
    ELSE LET b == IF a.sess[s].shell = "up" THEN HungUp(a, s) ELSE a
         IN  [b EXCEPT !.registered = None,
                       !.sess[s].row = "closed",
                       !.sess[s].dash = IF @ = "started" THEN "closing" ELSE @]

\* A shell is there: start() registers the session, closed meanwhile or not.
Opened(a, s) ==
    LET b == [a EXCEPT !.sess[s].shell = "up"]
    IN  IF a.registered = None THEN [b EXCEPT !.registered = s]
        ELSE [b EXCEPT !.sess[s].dash = IF @ = "started" THEN "closing" ELSE @]

\* The relay's socket is destroyed, by a frame, its channel or SSH itself.
Destroyed(a, s) ==
    LET b == Sent(Unrouted([a EXCEPT !.sess[s].shell = "over"], s), s, "close")
    IN  CASE a.sess[s].shell = "ssh" -> Failed(b, s)
          [] a.sess[s].shell = "up" -> Closed(b, s)
          [] OTHER -> b

Asking(a, s) == a.pending[s].kind = "ask" /\ a.sess[s].shell = "asking"
\* The channel of the route is closed: entry.reject.
Rejected(a, s) ==
    CASE a.pending[s].kind = "live" /\ Direct(s) -> Destroyed(a, s)
      [] Asking(a, s) -> Failed(Unrouted(a, s), s)
      [] OTHER -> Unrouted(a, s)

\* The route of a relay: its opening, then its end.
RelayFrame(a, s, frame) ==
    LET live == [a EXCEPT !.pending[s].kind = "live"]
    IN  CASE Asking(a, s) /\ frame = "opened" -> [live EXCEPT !.sess[s].shell = "ssh"]
          [] Asking(a, s) /\ frame \in {"error", "closed"} -> Failed(a, s)
          [] a.pending[s].kind = "live" /\ frame \in {"error", "closed"} -> Destroyed(a, s)
          [] OTHER -> a
\* The route of a shell: the password goes out when it is asked for.
ShellFrame(a, s, frame) ==
    CASE Asking(a, s) /\ frame = "opened" -> Opened([a EXCEPT !.pending[s].kind = "live"], s)
      [] Asking(a, s) /\ frame = "auth-required" -> Sent(a, s, "auth")
      [] Asking(a, s) /\ frame = "error" -> Failed(a, s)
      [] a.pending[s].kind = "live" /\ frame = "closed" -> Closed(a, s)
      [] OTHER -> a
\* routeAgentFrame: what the route's onFrame does.
Routed(a, s, frame) ==
    CASE a.pending[s].chan # chan.app -> a
      [] a.pending[s].chan = chan.app /\ Direct(s) -> RelayFrame(a, s, frame)
      [] OTHER -> ShellFrame(a, s, frame)

----------------------------------------------------------------------------
(* The dashboard                                                            *)

\* createTicket; the ticket may run out unused.
Ticket(s) ==
    /\ sess[s].dash = None
    /\ sess' = [sess EXCEPT ![s].dash = "ticket", ![s].kind = Transports[s]]
    /\ UNCHANGED <<policy, chan, made, registered, pending, toAgent, toApp, relays, switches>>
\* The socket: consumeTicket.
Connect(s) ==
    /\ sess[s].dash = "ticket"
    /\ sess' = [sess EXCEPT ![s].dash = "waiting"]
    /\ UNCHANGED <<policy, chan, made, registered, pending, toAgent, toApp, relays, switches>>

\* The start message: everything is checked again, then a frame asks the agent
\* for a relay or a shell.
Start(s) ==
    /\ sess[s].dash = "waiting"
    /\ IF policy.eligible /\ Available(sess[s].kind)
       THEN /\ Becomes(Sent([App EXCEPT !.sess[s] = [@ EXCEPT !.dash = "started", !.shell = "asking",
                                                              !.row = "open"],
                                        !.pending[s] = [kind |-> "ask", chan |-> chan.app, timer |-> TRUE]],
                            s, "open"))
       ELSE Becomes([App EXCEPT !.sess[s].dash = "closing"])
    /\ UNCHANGED <<policy, chan, made, toApp, relays, switches>>

\* The socket's close event: the owner leaves, or the server closed it.
Leave(s) ==
    /\ sess[s].dash \in {"waiting", "started", "closing"}
    /\ LET a == Closed(App, s) IN Becomes([a EXCEPT !.sess[s].dash = "gone"])
    /\ UNCHANGED <<policy, chan, made, toApp, relays, switches>>

\* sweepSessions: idle for ten minutes, or open for forty-five.
Sweep(s) ==
    /\ registered = s /\ sess[s].row = "open"
    /\ Becomes(Closed(App, s))
    /\ UNCHANGED <<policy, chan, made, toApp, relays, switches>>

\* The platform approves the proxy or not; remote access comes and goes.
Switch ==
    /\ MoreEvents /\ switches' = switches + 1
    /\ \/ policy' = [policy EXCEPT !.approved = ~@]
       \/ policy' = [policy EXCEPT !.eligible = ~@]
    /\ UNCHANGED <<chan, made, appVars, toApp, relays>>

----------------------------------------------------------------------------
(* The channel                                                              *)

\* channelRequest: the timer is cleared only when the route is rejected, so it
\* also ends the route of a relay or a shell that is open.
TimerFires(s) ==
    /\ pending[s].timer
    /\ LET a == [Unrouted(App, s) EXCEPT !.pending[s].timer = FALSE]
       IN  Becomes(IF Asking(App, s) THEN Failed(a, s) ELSE a)
    /\ UNCHANGED <<policy, chan, made, toApp, relays, switches>>

AppReceives(s) ==
    /\ Linked /\ toApp[s] # <<>>
    /\ toApp' = [toApp EXCEPT ![s] = Tail(@)]
    /\ Becomes(Routed(App, s, Head(toApp[s])))
    /\ UNCHANGED <<policy, chan, made, relays, switches>>

\* The server sees a connection close, the present one or one replaced.
ChannelCloses(n) ==
    LET a == FoldSet(LAMBDA s, b : IF pending[s].kind # None /\ pending[s].chan = n
                                   THEN Rejected(b, s) ELSE b, App, Sessions)
    IN  /\ n # 0
        /\ n = chan.app \/ \E s \in Sessions : pending[s].kind # None /\ pending[s].chan = n
        /\ Becomes(IF n = chan.app THEN [a EXCEPT !.out = [s \in Sessions |-> <<>>]] ELSE a)
        /\ IF n = chan.app
           THEN chan' = [chan EXCEPT !.app = 0] /\ toApp' = [s \in Sessions |-> <<>>]
           ELSE UNCHANGED <<chan, toApp>>
        /\ UNCHANGED <<policy, made, relays, switches>>

\* The agent sees it: cleanup.
AgentLosesChannel ==
    /\ chan.agent # 0 /\ (chan.app # chan.agent \/ MoreEvents)
    /\ chan' = [chan EXCEPT !.agent = 0]
    /\ relays' = [s \in Sessions |-> None]
    /\ toAgent' = [s \in Sessions |-> <<>>] /\ toApp' = [s \in Sessions |-> <<>>]
    /\ UNCHANGED <<policy, made, sess, registered, pending, switches>>

\* scheduleReconnect, attachAgent and the hello with the capabilities.
Reconnect ==
    /\ chan.agent = 0 /\ MoreEvents
    /\ made' = made + 1 /\ chan' = [app |-> made', agent |-> made']
    /\ UNCHANGED <<policy, appVars, toApp, relays, switches>>

----------------------------------------------------------------------------
(* The agent                                                                *)

Answer(s, frame) == toApp' = [toApp EXCEPT ![s] = Append(@, frame)]

AgentReceives(s) ==
    /\ Linked /\ toAgent[s] # <<>>
    /\ toAgent' = [toAgent EXCEPT ![s] = Tail(@)]
    /\ LET frame == Head(toAgent[s]) IN
       CASE frame = "open" /\ Direct(s) -> relays' = [relays EXCEPT ![s] = "dialling"] /\ UNCHANGED toApp
         [] frame = "open" /\ ~Direct(s) ->
                relays' = [relays EXCEPT ![s] = "waiting"] /\ Answer(s, "auth-required")
         [] frame = "auth" /\ relays[s] = "waiting" ->
                relays' = [relays EXCEPT ![s] = "dialling"] /\ UNCHANGED toApp
         [] frame = "close" /\ relays[s] # None ->
                relays' = [relays EXCEPT ![s] = None] /\ Answer(s, "closed")
         [] OTHER -> UNCHANGED <<relays, toApp>>
    /\ UNCHANGED <<policy, chan, made, sess, registered, pending, switches>>

AgentConnects(s) ==
    /\ relays[s] = "dialling" /\ chan.agent # 0
    /\ relays' = [relays EXCEPT ![s] = "up"]
    /\ IF Linked THEN Answer(s, "opened") ELSE UNCHANGED toApp
    /\ UNCHANGED <<policy, chan, made, appVars, switches>>

Drop(s, frame) ==
    /\ relays' = [relays EXCEPT ![s] = None]
    /\ IF Linked THEN Answer(s, frame) ELSE UNCHANGED toApp
    /\ UNCHANGED <<policy, chan, made, appVars, switches>>
\* The router refuses, or hangs up.
RouterHangsUp(s) ==
    \/ relays[s] = "dialling" /\ Drop(s, "error")
    \/ relays[s] = "up" /\ Drop(s, "closed")
\* Mutant of TimesOut: the timeout of eight seconds is for the connection only.
TimesOutDialling(s) == relays[s] = "dialling"
\* A relay's socket keeps its timeout of eight seconds when it is connected; a
\* shell's is for the connection only.
TimesOut(s) == relays[s] = "dialling" \/ (relays[s] = "up" /\ Direct(s))
SocketTimesOut(s) == TimesOut(s) /\ Drop(s, "error")

----------------------------------------------------------------------------
(* SSH, of the server's end of a relay                                      *)

SshReady(s) ==
    /\ Direct(s) /\ sess[s].shell = "ssh" /\ Linked /\ relays[s] = "up"
    /\ pending[s].kind = "live" /\ pending[s].chan = chan.app
    /\ Becomes(Opened(App, s))
    /\ UNCHANGED <<policy, chan, made, toApp, relays, switches>>

\* No frame of the router reaches the session: keepaliveInterval.
Silent(s) == ~Linked \/ relays[s] # "up" \/ pending[s].kind # "live" \/ pending[s].chan # chan.app
\* readyTimeout, a wrong password, or keepalives nobody answers.
SshDies(s) ==
    /\ Direct(s) /\ (sess[s].shell = "ssh" \/ (sess[s].shell = "up" /\ Silent(s)))
    /\ Becomes(Destroyed(App, s))
    /\ UNCHANGED <<policy, chan, made, toApp, relays, switches>>

----------------------------------------------------------------------------

DashboardNext ==
    \/ \E s \in Sessions : Ticket(s) \/ Connect(s) \/ Start(s) \/ Leave(s) \/ Sweep(s)
    \/ Switch
ChannelNext ==
    \/ \E s \in Sessions : TimerFires(s) \/ AppReceives(s)
    \/ \E n \in 1..(MaxEvents + 1) : ChannelCloses(n)
    \/ AgentLosesChannel \/ Reconnect
AgentNext ==
    \E s \in Sessions :
        AgentReceives(s) \/ AgentConnects(s) \/ RouterHangsUp(s) \/ SocketTimesOut(s)
            \/ SshReady(s) \/ SshDies(s)
TerminalNext == DashboardNext \/ ChannelNext \/ AgentNext

\* Timers fire, frames on an open connection arrive, a socket that was closed
\* says so, and a relay nobody types into falls silent.
TerminalFairness ==
    /\ \A s \in Sessions :
        /\ WF_terminalVars(Sweep(s))
        /\ WF_terminalVars(sess[s].dash = "closing" /\ Leave(s))
        /\ WF_terminalVars(TimerFires(s)) /\ WF_terminalVars(AppReceives(s))
        /\ WF_terminalVars(AgentReceives(s)) /\ WF_terminalVars(SshDies(s))
        /\ WF_terminalVars(sess[s].dash = "gone" /\ SocketTimesOut(s))
    /\ \A n \in 1..(MaxEvents + 1) :
           WF_terminalVars(~(Linked /\ n = chan.app) /\ ChannelCloses(n))
    /\ WF_terminalVars(chan.app # chan.agent /\ AgentLosesChannel)
TerminalSpec == TerminalInit /\ [][TerminalNext]_terminalVars /\ TerminalFairness

----------------------------------------------------------------------------
(* Properties                                                               *)

\* The two ends of a direct session go together, in whatever order the opening,
\* the timers, the owner's leaving and a lost channel come: no relay stays open
\* to the router for a dashboard that is gone, and no session without its relay.
HalfGone(s) ==
    \/ relays[s] # None /\ sess[s].dash = "gone"
    \/ relays[s] = None /\ sess[s].shell = "up"
EndsGoTogether ==
    \A s \in Sessions :
        (Direct(s) /\ HalfGone(s)) ~> (relays[s] = None /\ sess[s].shell # "up")
===============================================================================
