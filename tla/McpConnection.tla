---------------------------- MODULE McpConnection ----------------------------
(***************************************************************************)
(* McpRuntimeManager for one configured MCP server: connecting in steps    *)
(* (handshake, then listing what the server offers), explicit disconnects  *)
(* by the configuration operations, transports that close late, keepalive, *)
(* and the automatic reconnect with backoff, cooldown and give-up budget.  *)
(*                                                                         *)
(* A tick is the longest backoff (30 s); the cooldown is two ticks.        *)
(***************************************************************************)
EXTENDS Naturals, FiniteSets

CONSTANTS MaxTransports, \* bound on transports, the attempts that reach the server
          MaxTries,      \* bound on attempts under way when a tool starts one
          GiveUp,        \* the give-up budget, in ticks
          MaxTicks       \* bound on time

VARIABLES
    config,    \* the stored configuration: "on", "off", "quarantined" or "absent"
    entry,     \* the server's ConnectedServer
    tries,     \* connect() and #refreshServerSurface() under way
    transport, \* each transport: "none", "open", "closed" (onclose not run yet) or "gone"
    op,        \* the configuration operation that waits for a transport to close
    reached,   \* for how many ticks of reconnecting the server was there (at most 2)
    up,        \* whether the server answers
    ticks      \* the time

vars == <<config, entry, tries, transport, op, reached, up, ticks>>

Transports == 1..MaxTransports
Cooldown == 2

\* A new ConnectedServer.  counting is reconnectStartedAt, budget the time since.
Fresh == [state |-> "configured", explicit |-> FALSE, current |-> 0, failures |-> 0, cool |-> 0,
          keepalive |-> FALSE, timer |-> "off", again |-> FALSE, budget |-> 0, counting |-> FALSE]

Init ==
    /\ config = "on" /\ entry = Fresh /\ tries = {} /\ op = "none"
    /\ transport = [t \in Transports |-> "none"]
    /\ reached = 0 /\ up = TRUE /\ ticks = 0

-----------------------------------------------------------------------------
(* Failures and the reconnect timer.                                       *)

\* #recordFailure(): three failures start, or extend, the cooldown.
RecordFailure(e, detail) ==
    IF e.explicit THEN e
    ELSE [e EXCEPT !.state = detail, !.failures = IF @ < 2 THEN @ + 1 ELSE 2,
                   !.cool = IF e.failures = 2 THEN Cooldown ELSE @]

\* #scheduleReconnect(): the first backoffs are short, the later ones a tick;
\* "gave_up" is its "failed".  What the timer finds disabled by then, connect() refuses:
\* entry.config is a copy, which disableServer() and removeServer() leave as it was.
ScheduleReconnect(e) ==
    IF e.explicit THEN e
    ELSE IF e.counting /\ e.budget > GiveUp THEN [e EXCEPT !.state = "gave_up"]
    ELSE [e EXCEPT !.counting = TRUE, !.again = TRUE, !.timer = IF e.again THEN "next" ELSE "soon"]

\* What follows when connect() throws: the timer records a second failure and
\* is set again, start(), enableServer() and finishOAuth() record one,
\* retryServer() and tools only report it.
Thrown(e, who) ==
    CASE who = "timer" -> ScheduleReconnect(RecordFailure(e, "degraded"))
      [] who = "enable" -> RecordFailure(e, "failed")
      [] who = "tool" -> e

\* Mutant: a close that was asked for is taken for an unexpected one.
DegradedAlways(e) == [e EXCEPT !.state = "degraded", !.timer = "soon"]

\* An unexpected close, or a ping that fails.
Degraded(e) == IF e.explicit THEN e ELSE ScheduleReconnect([e EXCEPT !.state = "degraded"])

-----------------------------------------------------------------------------
(* connect()                                                               *)

\* The synchronous part, up to the handshake.  A connected server is refreshed;
\* nothing looks at attempts that are under way.
Connect(e, who, trusted) ==
    LET t == CHOOSE x \in Transports : transport[x] = "none"
    IN  IF ~trusted \/ (e.state # "connected" /\ e.cool > 0)
        THEN entry' = Thrown(e, who) /\ UNCHANGED <<tries, transport>>
        ELSE IF e.state = "connected"
        THEN /\ tries' = tries \cup {[who |-> who, at |-> "refresh", t |-> e.current]}
             /\ entry' = e /\ UNCHANGED transport
        ELSE /\ \E x \in Transports : transport[x] = "none"
             /\ transport' = [transport EXCEPT ![t] = "open"]
             /\ entry' = [e EXCEPT !.state = "connecting", !.current = t, !.explicit = FALSE]
             /\ tries' = tries \cup {[who |-> who, at |-> "handshake", t |-> t]}

Answers(t) == up /\ t # 0 /\ transport[t] = "open"

\* client.connect() succeeds; the tools are listed next, by the client the
\* entry has then.
HandshakeDone(a) ==
    /\ a.at = "handshake" /\ Answers(a.t)
    /\ entry' = [entry EXCEPT !.state = "connected", !.failures = 0, !.cool = 0,
                              !.counting = FALSE, !.budget = 0, !.again = FALSE]
    /\ tries' = (tries \ {a}) \cup {[a EXCEPT !.at = "list", !.t = entry.current]}
    /\ UNCHANGED <<config, transport, op, reached, up, ticks>>

\* It fails or times out; the client closes the transport.
HandshakeFails(a) ==
    /\ a.at = "handshake" /\ ~Answers(a.t)
    /\ entry' = Thrown(RecordFailure(entry, "failed"), a.who)
    /\ transport' = IF transport[a.t] = "open" THEN [transport EXCEPT ![a.t] = "closed"] ELSE transport
    /\ tries' = tries \ {a}
    /\ UNCHANGED <<config, op, reached, up, ticks>>

\* The server asks for an authorization; finishOAuth() connects anew.
Unauthorized(a) ==
    /\ a.at = "handshake" /\ Answers(a.t)
    /\ entry' = [entry EXCEPT !.state = "needs_auth"]
    /\ transport' = [transport EXCEPT ![a.t] = "closed"]
    /\ tries' = tries \ {a} /\ reached' = 0
    /\ UNCHANGED <<config, op, up, ticks>>

\* #refreshServerSurface() ends; after a handshake #startKeepalive() follows.
SurfaceDone(a) ==
    /\ a.at \in {"list", "refresh"}
    /\ LET e == IF Answers(a.t) THEN entry ELSE RecordFailure(entry, "degraded")
       IN  entry' = [e EXCEPT !.keepalive = @ \/ a.at = "list"]
    /\ tries' = tries \ {a}
    /\ UNCHANGED <<config, transport, op, reached, up, ticks>>

-----------------------------------------------------------------------------
(* What starts attempts, closes transports and lets time pass.             *)

\* The connect tool, or a tool call that finds the server not connected;
\* resource and prompt tools do so concurrently.
ConnectTool ==
    /\ Cardinality(tries) < MaxTries
    /\ Connect(entry, "tool", config = "on")
    /\ UNCHANGED <<config, op, reached, up, ticks>>

\* A listChanged notification.
ListChanged ==
    /\ Cardinality(tries) < MaxTries /\ Answers(entry.current)
    /\ tries' = tries \cup {[who |-> "tool", at |-> "refresh", t |-> entry.current]}
    /\ UNCHANGED <<config, entry, transport, op, reached, up, ticks>>

ReconnectTimer ==
    /\ entry.timer = "soon"
    /\ Connect([entry EXCEPT !.timer = "off"], "timer", config = "on")
    /\ UNCHANGED <<config, op, reached, up, ticks>>

\* transport.onclose
OnClose(t) ==
    /\ transport[t] = "closed"
    /\ transport' = [transport EXCEPT ![t] = "gone"]
    /\ entry' = Degraded(entry)
    /\ UNCHANGED <<config, tries, op, reached, up, ticks>>

\* The keepalive interval, six ticks, pings a client that does not answer.  While
\* a reconnect is due in a tick at most, a ping could only put it off once.
PingFails ==
    /\ entry.keepalive /\ entry.timer = "off" /\ ~Answers(entry.current)
    /\ entry' = Degraded(entry)
    /\ UNCHANGED <<config, tries, transport, op, reached, up, ticks>>

\* A tick goes by: short backoffs, closes and handshakes, which time out after
\* 30 s, are over before it does.
Tick ==
    /\ ticks < MaxTicks /\ ticks' = ticks + 1
    /\ entry.timer # "soon" /\ op = "none" /\ \A t \in Transports : transport[t] # "closed"
    /\ \A a \in tries : a.at # "handshake"
    /\ entry' = [entry EXCEPT !.cool = IF @ > 0 THEN @ - 1 ELSE 0,
                              !.budget = IF entry.counting THEN @ + 1 ELSE @,
                              !.timer = IF @ = "next" THEN "soon" ELSE @]
    /\ reached' = IF up /\ config = "on" /\ entry.timer = "next" /\ reached < 2 THEN reached + 1 ELSE reached
    /\ UNCHANGED <<config, tries, transport, op, up>>

\* The server ends, its transports close; later it is there again.
ServerStops ==
    /\ up /\ up' = FALSE /\ reached' = 0
    /\ transport' = [t \in Transports |-> IF transport[t] = "open" THEN "closed" ELSE transport[t]]
    /\ UNCHANGED <<config, entry, tries, op, ticks>>

ServerReturns ==
    /\ ~up /\ up' = TRUE
    /\ UNCHANGED <<config, entry, tries, transport, op, reached, ticks>>

-----------------------------------------------------------------------------
(* Configuration operations.                                               *)

\* disconnect() up to where it waits for the transport, in disableServer(),
\* which stores the configuration first, removeServer(), updateServer() and
\* retryServer().
Disconnect(o) ==
    /\ op = "none" /\ config # "absent" /\ op' = o
    /\ config' = IF o = "disable" THEN "off" ELSE config
    /\ entry' = [entry EXCEPT !.explicit = TRUE, !.keepalive = FALSE, !.timer = "off"]
    /\ transport' = [t \in Transports |-> IF t = entry.current /\ transport[t] = "open"
                                          THEN "closed" ELSE transport[t]]
    /\ reached' = 0
    /\ UNCHANGED <<tries, up, ticks>>

\* The rest of the operation.
Reconfigure ==
    LET idle == [entry EXCEPT !.state = "configured"]
    IN  /\ op # "none" /\ op' = "none"
        /\ IF op = "retry" THEN Connect(idle, "tool", config = "on")
                           ELSE entry' = idle /\ UNCHANGED <<tries, transport>>
        /\ config' \in CASE op = "remove" -> {"absent"}
                         [] op = "update" -> {"on", "quarantined"}
                         [] OTHER -> {config}
        /\ UNCHANGED <<reached, up, ticks>>

\* enableServer(): trusted from now on, and connected unless it is lazy.
Enable(lazy) ==
    /\ config \in {"off", "quarantined"} /\ config' = "on"
    /\ IF lazy THEN UNCHANGED <<entry, tries, transport>> ELSE Connect(entry, "enable", TRUE)
    /\ UNCHANGED <<op, reached, up, ticks>>

Next ==
    \/ \E a \in tries : HandshakeDone(a)
    \/ \E a \in tries : HandshakeFails(a)
    \/ \E a \in tries : Unauthorized(a)
    \/ \E a \in tries : SurfaceDone(a)
    \/ ConnectTool
    \/ ListChanged
    \/ ReconnectTimer
    \/ \E t \in Transports : OnClose(t)
    \/ PingFails
    \/ Tick
    \/ ServerStops
    \/ ServerReturns
    \/ \E o \in {"disable", "remove", "update", "retry"} : Disconnect(o)
    \/ Reconfigure
    \/ \E lazy \in BOOLEAN : Enable(lazy)

Spec == Init /\ [][Next]_vars

-----------------------------------------------------------------------------
(* Properties.                                                             *)

\* disconnect() with late closes, failed pings and attempts under way: no timer
\* brings back a server that was closed on purpose.
ClosedStaysClosed == entry.explicit => entry.timer = "off"

\* #scheduleReconnect(): the manager gives up on a server that stays away, not
\* on one that is there for as long as the longest backoff and more.
\* The code does not satisfy it, and no run checks it: README, Deviations.
GivesUpOnTheDead ==
    [][entry.state # "gave_up" /\ entry'.state = "gave_up" => reached < 2]_vars
=============================================================================
