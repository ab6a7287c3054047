------------------------------- MODULE Browser -------------------------------
(***************************************************************************)
(* BrowserRuntime with automatic reconnects, its CDP clients and its tabs: *)
(* a connection that drops at any moment, the reconnect loop that attaches *)
(* the tabs anew one after the other, the health check, and the tools that *)
(* open and close tabs and command pages meanwhile.                        *)
(*                                                                         *)
(* A closed WebSocket tells its client later; explicitDisconnect, which is *)
(* reset in the block that sets it, does not cover that event.  connect()  *)
(* runs once, at start-up.  disconnect() and recover() have no callers,    *)
(* and stopReconnect() is for the end of the process.                      *)
(***************************************************************************)
EXTENDS Naturals, FiniteSets

CONSTANTS TabSessions, \* the sessions that use the browser
          MaxClients,  \* bound on the connections that are made
          MaxAttempts, \* attempts that fit into the give-up time
          MaxOps       \* bound on the operations on tabs

VARIABLES
    runtime,  \* the status of the runtime
    client,   \* #browserCdp, the number of its connection, or 0
    conn,     \* each connection: "none", "open", "closing" (event under way) or "closed"
    reconnect,\* the reconnect loop
    active,   \* #reconnectActive
    tabs,     \* the tab of each session
    tabOp,    \* what a tool, or the restart, does with a session's tab
    tabOps    \* how many operations were started

browserVars == <<runtime, client, conn, reconnect, active, tabs, tabOp, tabOps>>

Clients == 1..MaxClients
\* A session has no tab, one that was made without a client, or a target that is
\* attached by connection c.
NoTab == [kind |-> "none", by |-> 0]
Bare == [kind |-> "bare", by |-> 0]
On(c) == [kind |-> "target", by |-> c]
HasTarget(s) == tabs[s].kind = "target"
Idle == [at |-> "none", via |-> 0]

\* runtime-status.ts; the events that do not occur here are left out.
Transition(status, event) ==
    CASE status = "offline"    /\ event = "start"              -> "starting"
      [] status = "starting"   /\ event = "connected"          -> "online"
      [] status = "starting"   /\ event = "recover_failed"     -> "failed"
      [] status = "online"     /\ event = "healthcheck_failed" -> "degraded"
      [] status = "degraded"   /\ event = "healthcheck_failed" -> "recovering"
      [] status = "recovering" /\ event = "recover_success"    -> "online"
      [] status = "recovering" /\ event = "recover_failed"     -> "failed"

Stopped == [at |-> "off", attempt |-> 0, via |-> 0, todo |-> {}]

Init ==
    /\ runtime = "offline" /\ client = 0
    /\ conn = [c \in Clients |-> "none"]
    /\ reconnect = Stopped /\ active = FALSE
    /\ tabs = [s \in TabSessions |-> NoTab]
    /\ tabOp = [s \in TabSessions |-> Idle] /\ tabOps = 0

-----------------------------------------------------------------------------
(* Connections.                                                            *)

Free == {c \in Clients : conn[c] = "none"}
NewClient == CHOOSE c \in Free : \A d \in Free : c <= d

\* connect() up to its first await.
Connect ==
    /\ runtime = "offline" /\ runtime' = Transition(runtime, "start")
    /\ UNCHANGED <<client, conn, reconnect, active, tabs, tabOp, tabOps>>

ConnectDone ==
    /\ runtime = "starting" /\ runtime' = Transition(runtime, "connected")
    /\ Free # {}
    /\ client' = NewClient /\ conn' = [conn EXCEPT ![NewClient] = "open"]
    /\ UNCHANGED <<reconnect, active, tabs, tabOp, tabOps>>

ConnectFails ==
    /\ runtime = "starting" /\ runtime' = Transition(runtime, "recover_failed")
    /\ UNCHANGED <<client, conn, reconnect, active, tabs, tabOp, tabOps>>

\* The connection breaks, or the browser ends.
Drop(c) ==
    /\ conn[c] = "open" /\ conn' = [conn EXCEPT ![c] = "closing"]
    /\ UNCHANGED <<runtime, client, reconnect, active, tabs, tabOp, tabOps>>

\* Mutant: only the connection knows that it is closed.
OpsStay(c) == tabOp

\* The commands that wait for c fail.
OpsAfter(c) == [s \in TabSessions |-> IF tabOp[s].via = c THEN Idle ELSE tabOp[s]]

\* A tab that was being made is none, one that was being closed is detached, one that
\* was being restored is forgotten.
TabsAfter(c) == [s \in TabSessions |->
    IF tabOp[s].via = c /\ tabOp[s].at \in {"close", "restore"} THEN NoTab ELSE tabs[s]]

\* healthcheck_failed, if the runtime is online, and #startReconnectLoop(), which
\* makes degraded recovering.
Unhealthy ==
    LET down == IF runtime = "online" THEN Transition(runtime, "healthcheck_failed") ELSE runtime
        next == IF ~active /\ down = "degraded" THEN Transition(down, "healthcheck_failed") ELSE down
    IN  /\ runtime' = next
        /\ IF ~active /\ next = "recovering"
           THEN active' = TRUE /\ reconnect' = [Stopped EXCEPT !.at = "delay"]
           ELSE UNCHANGED <<active, reconnect>>

-----------------------------------------------------------------------------
(* #runReconnectLoop()                                                     *)

LoopEnds(status) ==
    /\ runtime' = status /\ reconnect' = Stopped /\ active' = FALSE

\* The top of the loop: the time is over, or there is a delay.
Around(attempt) ==
    \/ attempt > 0 /\ LoopEnds(Transition(runtime, "recover_failed"))
    \/ /\ attempt < MaxAttempts
       /\ reconnect' = [Stopped EXCEPT !.at = "delay", !.attempt = attempt]
       /\ UNCHANGED <<runtime, active>>

\* #closeCdpClient()
CloseClient ==
    IF client = 0 THEN UNCHANGED <<client, conn, tabs, tabOp>>
    ELSE /\ conn' = [conn EXCEPT ![client] = IF @ = "open" THEN "closing" ELSE @]
         /\ client' = 0 /\ tabOp' = OpsAfter(client) /\ tabs' = TabsAfter(client)

\* The delay is over; #connectCdp() closes the client there is.
DelayEnds ==
    /\ reconnect.at = "delay"
    /\ IF runtime # "recovering"
       THEN LoopEnds(runtime) /\ UNCHANGED <<client, conn, tabs, tabOp>>
       ELSE /\ CloseClient
            /\ reconnect' = [reconnect EXCEPT !.at = "connect"]
            /\ UNCHANGED <<runtime, active>>
    /\ UNCHANGED tabOps

\* recover_success, unless the status has changed.
Recovered ==
    LoopEnds(IF runtime = "recovering" THEN Transition(runtime, "recover_success") ELSE runtime)

\* A client is there; its targets are attached one by one.
ReconnectDone ==
    /\ reconnect.at = "connect" /\ Free # {}
    /\ client' = NewClient /\ conn' = [conn EXCEPT ![NewClient] = "open"]
    /\ LET targets == {s \in TabSessions : HasTarget(s)}
       IN  IF targets = {} THEN Recovered
           ELSE /\ reconnect' = [reconnect EXCEPT !.at = "reattach", !.via = NewClient, !.todo = targets]
                /\ UNCHANGED <<runtime, active>>
    /\ UNCHANGED <<tabs, tabOp, tabOps>>

ReconnectFails ==
    /\ reconnect.at = "connect" /\ Around(reconnect.attempt + 1)
    /\ UNCHANGED <<client, conn, tabs, tabOp, tabOps>>

\* After s: the next target, by the client there is now.  Without one the rest of
\* the loop throws at every target, which costs it its tab.
Reattach(s, tab) ==
    LET rest == reconnect.todo \ {s}
        lost == IF client = 0 THEN rest ELSE {}
    IN  /\ tabs' = [x \in TabSessions |-> IF x \in lost THEN NoTab ELSE IF x = s THEN tab ELSE tabs[x]]
        /\ IF rest = lost THEN Recovered
           ELSE /\ reconnect' = [reconnect EXCEPT !.via = client, !.todo = rest]
                /\ UNCHANGED <<runtime, active>>

\* The browser answers Target.attachToTarget, or the target is gone.
ReattachDone(s) ==
    /\ reconnect.at = "reattach" /\ s \in reconnect.todo /\ conn[reconnect.via] = "open"
    /\ \E tab \in {On(reconnect.via), NoTab} : Reattach(s, tab)
    /\ UNCHANGED <<client, conn, tabOp, tabOps>>

-----------------------------------------------------------------------------
(* A connection tells its client that it is closed.                        *)

\* #handleUnexpectedCdpDisconnect(), whichever client it is.  If the loop waits
\* for c, it then runs to its end without a client.
OnClose(c) ==
    /\ conn[c] = "closing" /\ conn' = [conn EXCEPT ![c] = "closed"]
    /\ client' = 0 /\ tabOp' = OpsAfter(c)
    /\ IF reconnect.at = "reattach" /\ reconnect.via = c
       THEN /\ tabs' = [s \in TabSessions |-> IF s \in reconnect.todo THEN NoTab ELSE TabsAfter(c)[s]]
            /\ Recovered
       ELSE tabs' = TabsAfter(c) /\ Unhealthy
    /\ UNCHANGED tabOps

\* The health poll gets an error; without a client it finds the runtime healthy.
HealthCheckFails ==
    /\ client # 0 /\ conn[client] = "open" /\ runtime = "online"
    /\ Unhealthy
    /\ UNCHANGED <<client, conn, tabs, tabOp, tabOps>>

-----------------------------------------------------------------------------
(* Tabs.                                                                   *)

StartOp(s, at) ==
    /\ tabOp[s] = Idle /\ tabOps < MaxOps /\ tabOps' = tabOps + 1
    /\ tabOp' = [tabOp EXCEPT ![s] = [at |-> at, via |-> client]]

\* createTab(): first the target, then its session.
CreateTab(s) ==
    /\ runtime # "offline" /\ tabOp[s] = Idle
    /\ IF client = 0 THEN tabs' = [tabs EXCEPT ![s] = Bare] /\ UNCHANGED <<tabOp, tabOps>>
                     ELSE StartOp(s, "create") /\ UNCHANGED tabs
    /\ UNCHANGED <<runtime, client, conn, reconnect, active>>

\* The target is there; its session is asked of the client there is now.
TargetMade(s) ==
    /\ tabOp[s].at = "create" /\ conn[tabOp[s].via] = "open"
    /\ tabOp' = [tabOp EXCEPT ![s] = IF client = 0 THEN Idle ELSE [at |-> "attach", via |-> client]]
    /\ UNCHANGED <<runtime, client, conn, reconnect, active, tabs, tabOps>>

TabAttached(s) ==
    /\ tabOp[s].at \in {"attach", "restore"} /\ conn[tabOp[s].via] = "open"
    /\ tabs' = [tabs EXCEPT ![s] = On(tabOp[s].via)]
    /\ tabOp' = [tabOp EXCEPT ![s] = Idle]
    /\ UNCHANGED <<runtime, client, conn, reconnect, active, tabOps>>

\* closeTab()
CloseTab(s) ==
    /\ tabs[s] # NoTab /\ tabOp[s] = Idle
    /\ IF client # 0 /\ HasTarget(s) THEN StartOp(s, "close") /\ UNCHANGED tabs
       ELSE tabs' = [tabs EXCEPT ![s] = NoTab] /\ UNCHANGED <<tabOp, tabOps>>
    /\ UNCHANGED <<runtime, client, conn, reconnect, active>>

TabClosed(s) ==
    /\ tabOp[s].at = "close" /\ conn[tabOp[s].via] = "open"
    /\ tabs' = [tabs EXCEPT ![s] = NoTab] /\ tabOp' = [tabOp EXCEPT ![s] = Idle]
    /\ UNCHANGED <<runtime, client, conn, reconnect, active, tabOps>>

\* restoreAttachment() after a restart: the tab counts before the browser answers,
\* and is forgotten if the target is gone (TabForgotten).
RestoreAttachment(s) ==
    /\ runtime # "offline" /\ client # 0 /\ tabs[s] = NoTab
    /\ StartOp(s, "restore") /\ tabs' = [tabs EXCEPT ![s] = On(0)]
    /\ UNCHANGED <<runtime, client, conn, reconnect, active>>

TabForgotten(s) ==
    /\ tabOp[s].at = "restore" /\ conn[tabOp[s].via] = "open"
    /\ tabs' = [tabs EXCEPT ![s] = NoTab] /\ tabOp' = [tabOp EXCEPT ![s] = Idle]
    /\ UNCHANGED <<runtime, client, conn, reconnect, active, tabOps>>

-----------------------------------------------------------------------------
(* What the tools do in a page: they navigate, click, type, read and wait. *)

\* #getCdpSessionId(): without a client or a target the tool fails at once.
CanCommand(s) == client # 0 /\ HasTarget(s)
PageCommand(s) ==
    /\ CanCommand(s) /\ tabOp[s] = Idle
    /\ tabOp' = [tabOp EXCEPT ![s] = [at |-> "page", via |-> client]]
    /\ UNCHANGED <<runtime, client, conn, reconnect, active, tabs, tabOps>>

\* The browser answers, be it that it does not know the session of an older
\* connection.  A tool of several commands goes on with the client there is now.
PageAnswers(s) ==
    /\ tabOp[s].at = "page" /\ conn[tabOp[s].via] = "open"
    /\ \/ tabOp' = [tabOp EXCEPT ![s] = Idle]
       \/ client # 0 /\ tabOp' = [tabOp EXCEPT ![s].via = client]
    /\ UNCHANGED <<runtime, client, conn, reconnect, active, tabs, tabOps>>

Next ==
    \/ Connect \/ ConnectDone \/ ConnectFails
    \/ \E c \in Clients : Drop(c) \/ OnClose(c)
    \/ HealthCheckFails
    \/ DelayEnds \/ ReconnectDone \/ ReconnectFails
    \/ \E s \in TabSessions :
           \/ ReattachDone(s)
           \/ CreateTab(s) \/ TargetMade(s) \/ TabAttached(s)
           \/ CloseTab(s) \/ TabClosed(s)
           \/ RestoreAttachment(s) \/ TabForgotten(s)
           \/ PageCommand(s) \/ PageAnswers(s)

BrowserSpec == Init /\ [][Next]_browserVars

\* The event of a closed connection comes, timers fire, a connection attempt ends
\* (10 s for the socket), and the browser answers or its connection closes.
Progress ==
    \/ \E c \in Clients : OnClose(c)
    \/ DelayEnds \/ ReconnectDone \/ ReconnectFails
    \/ \E s \in TabSessions : ReattachDone(s)

BrowserFairSpec == BrowserSpec /\ WF_browserVars(Progress)

-----------------------------------------------------------------------------
\* #runReconnectLoop(): the runtime is not recovering.  With []<>: a recovery ends,
\* online or failed, however often the connection drops, and whatever late events,
\* health checks and tools do meanwhile; until then its sessions are blocked.
NotRecovering == runtime # "recovering"

\* A command never waits for a connection that has told its client that it is closed:
\* commands have no time limit, so it would wait for ever, with its turn.
NoCommandIsStranded ==
    \A s \in TabSessions : tabOp[s].via # 0 => conn[tabOp[s].via] # "closed"

\* develop.md:222: after CDP was cut off the runtime reconnects by default.
\* The code does not satisfy it, and no run checks it: README, Deviations.
OnlineHasClient == runtime = "online" => client # 0
=============================================================================
