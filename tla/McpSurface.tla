------------------------------ MODULE McpSurface ------------------------------
(***************************************************************************)
(* Which tools of MCP servers the registry has: the configuration with the *)
(* project's own servers, the cache of tool lists, the names built for     *)
(* tools, and the operations that replace a server's tools while lists are *)
(* fetched, servers are switched on and off, and projects change.          *)
(*                                                                         *)
(* McpConnection has the transports, timers and cooldown of one server;    *)
(* here a connection succeeds or fails.                                    *)
(***************************************************************************)
EXTENDS Naturals, FiniteSets

CONSTANTS Servers,     \* server ids; their names read alike once safePart() is done
          FromProject, \* for each project the servers of its .mcp.json
          OfferSets,   \* the sets of tools a server may offer, none called connect or list
          MaxChanges,  \* bound on changes of the configuration
          MaxFetches   \* bound on lists under way

VARIABLES
    configured, \* servers.json: the servers in it, with their configuration
    root,       \* the current project
    registry,   \* the MCP tools of the registry, with their servers
    entries,    \* #servers
    lists,      \* #refreshServerSurface() and handshakes under way
    cached,     \* cache/<id>.tools.json, or NoCache
    closing,    \* the operations that wait for a transport to close
    running,    \* whether the process is there
    overlaps,   \* servers of which two operations have overlapped, or another process
                \* has changed the configuration, since the start
    edits       \* how many changes of the configuration there were

surfaceVars == <<configured, root, registry, entries, lists, cached, closing, running, overlaps, edits>>

Projects == DOMAIN FromProject
NoCache == {} \* a server offers a tool at least

-----------------------------------------------------------------------------
(* The configuration.                                                      *)

Config(on, trust, mode, ready) == [on |-> on, trust |-> trust, mode |-> mode, ready |-> ready]
Local == DOMAIN configured

\* A project's servers are off and not trusted until the user imports them.
Discovered == Config(FALSE, "untrusted", "lazy", TRUE)
Listed == Local \cup FromProject[root]
getServer(s) == IF s \in Local THEN configured[s] ELSE Discovered
Enabled(s) == s \in Listed /\ getServer(s).on

Put(s, c) == [x \in Local \cup {s} |-> IF x = s THEN c ELSE configured[x]]
Drop(s) == [x \in Local \ {s} |-> configured[x]]

\* What can be installed from the catalog: entries that start as they are, entries
\* with a value to fill in first, and CodeGraph; those of others are quarantined.
Catalog == {Config(FALSE, "trusted", "lazy", TRUE), Config(FALSE, "trusted", "lazy", FALSE),
            Config(FALSE, "trusted", "background", TRUE), Config(FALSE, "quarantined", "lazy", TRUE)}

-----------------------------------------------------------------------------
(* Names, and the tools of a server.                                       *)

Tool(name, s, original) == [name |-> name, server |-> s, original |-> original]
Names(tools) == {t.name : t \in tools}
OthersOf(s) == {t \in registry : t.server # s}

\* Mutant: a name that is taken is taken again.
TakeName(original, reserved) == [of |-> original, n |-> 0]

\* buildToolName(): a name that is taken gets a hash.
buildToolName(original, reserved) ==
    LET free == {n \in 0..Cardinality(reserved) : [of |-> original, n |-> n] \notin reserved}
    IN  [of |-> original, n |-> CHOOSE n \in free : \A m \in free : n <= m]

\* register(): a tool of the same name is replaced.
Register(reg, tools) == {t \in reg : t.name \notin Names(tools)} \cup tools

\* registerConnectTool(): the server's tools go, its connect tool stays.
ConnectOnly(s) ==
    Register(OthersOf(s), {Tool(buildToolName("connect", Names(OthersOf(s))), s, "connect")})

\* #projectTools() and replaceBySource(): the tools as they were named, the connect
\* tool, and the tools for resources and prompts, of which "list" stands for all.
Project(s, tools, reg) ==
    LET others == {t \in reg : t.server # s}
        connect == buildToolName("connect", Names(others \cup tools))
        utility == buildToolName("list", Names(others \cup tools) \cup {connect})
    IN  Register(others, tools \cup {Tool(connect, s, "connect"), Tool(utility, s, "list")})

\* The tools of a list, named apart from those of the other servers.
NameTools(s, offered) ==
    {Tool(buildToolName(o, Names(OthersOf(s))), s, o) : o \in offered}

Entry(state) == [state |-> state, explicit |-> FALSE, tools |-> {}]
Absent == [state |-> "absent", explicit |-> FALSE, tools |-> {}]
ensureEntry(s) == IF entries[s] = Absent THEN Entry("configured") ELSE entries[s]

\* #recordFailure(); an explicit close is no failure.
Failed(s) ==
    IF entries[s].explicit THEN UNCHANGED <<entries, registry>>
    ELSE entries' = [entries EXCEPT ![s] = [ensureEntry(s) EXCEPT !.state = "failed"]] /\ registry' = ConnectOnly(s)

-----------------------------------------------------------------------------
Init ==
    /\ configured = [s \in {} |-> Discovered] /\ root \in Projects
    /\ registry = {} /\ entries = [s \in Servers |-> Absent] /\ lists = {}
    /\ cached = [s \in Servers |-> NoCache] /\ closing = {}
    /\ running = TRUE /\ overlaps = {} /\ edits = 0

CanEdit == running /\ edits < MaxChanges /\ edits' = edits + 1
Waiting(s) == \E o \in closing : o.s = s
Fetching(s) == \E l \in lists : l.s = s
Overlap(s, yes) == overlaps' = IF yes THEN overlaps \cup {s} ELSE overlaps

(* Connecting, and fetching lists.                                         *)

\* connect(): what is connected has its list fetched; else there is a handshake,
\* which fails at once if a value has to be filled in first.
Connect(s) ==
    LET c == getServer(s)
        e == ensureEntry(s)
    IN  /\ Enabled(s) /\ c.trust # "quarantined" /\ Cardinality(lists) < MaxFetches
        /\ IF e.state = "connected"
           THEN lists' = lists \cup {[s |-> s, at |-> "list"]} /\ UNCHANGED <<entries, registry>>
           ELSE IF ~c.ready THEN Failed(s) /\ UNCHANGED lists
           ELSE /\ e.state # "connecting"
                /\ entries' = [entries EXCEPT ![s] = [e EXCEPT !.state = "connecting", !.explicit = FALSE]]
                /\ lists' = lists \cup {[s |-> s, at |-> "handshake"]} /\ UNCHANGED registry

\* A model calls a tool of a server: connect(), also if the server is not connected.
UseTool(t) ==
    /\ running /\ t \in registry
    /\ t.original = "connect" \/ entries[t.server].state # "connected"
    /\ Connect(t.server) /\ Overlap(t.server, Waiting(t.server))
    /\ UNCHANGED <<configured, root, cached, closing, running, edits>>

\* finishOAuth(): connects, with the tokens.
FinishOAuth(s) ==
    /\ running /\ entries[s].state = "failed" /\ Connect(s) /\ Overlap(s, Waiting(s))
    /\ UNCHANGED <<configured, root, cached, closing, running, edits>>

HandshakeDone(l) ==
    /\ l \in lists /\ l.at = "handshake" /\ ~entries[l.s].explicit
    /\ entries' = [entries EXCEPT ![l.s].state = "connected"]
    /\ lists' = (lists \ {l}) \cup {[l EXCEPT !.at = "list"]}
    /\ UNCHANGED <<configured, root, registry, cached, closing, running, overlaps, edits>>

\* listTools() answers, which a closed transport does not: the tools are named and cached; resources and prompts follow.
ToolsListed(l, offered) ==
    /\ l \in lists /\ l.at = "list" /\ ~entries[l.s].explicit
    /\ LET tools == NameTools(l.s, offered)
       IN  /\ entries' = [entries EXCEPT ![l.s].tools = tools]
           /\ cached' = [cached EXCEPT ![l.s] = tools]
    /\ lists' = (lists \ {l}) \cup {[l EXCEPT !.at = "rest"]}
    /\ UNCHANGED <<configured, root, registry, closing, running, overlaps, edits>>

\* Resources and prompts are best effort; then the tools are registered.
SurfaceDone(l) ==
    /\ l \in lists /\ l.at = "rest" /\ lists' = lists \ {l}
    /\ registry' = Project(l.s, entries[l.s].tools, registry)
    /\ UNCHANGED <<configured, root, entries, cached, closing, running, overlaps, edits>>

\* The handshake or the list fails.
FetchFails(l) ==
    /\ l \in lists /\ l.at \in {"handshake", "list"} /\ lists' = lists \ {l}
    /\ Failed(l.s)
    /\ UNCHANGED <<configured, root, cached, closing, running, overlaps, edits>>

\* A listChanged notification.
ListChanged(s) ==
    /\ running /\ entries[s].state = "connected" /\ ~entries[s].explicit
    /\ Cardinality(lists) < MaxFetches /\ lists' = lists \cup {[s |-> s, at |-> "list"]}
    /\ UNCHANGED <<configured, root, registry, entries, cached, closing, running, overlaps, edits>>

\* transport.onclose, unasked for; what is under way with it fails.
OnClose(s) ==
    /\ running /\ entries[s].state = "connected" /\ ~entries[s].explicit
    /\ entries' = [entries EXCEPT ![s].state = "degraded"]
    /\ registry' = ConnectOnly(s)
    /\ UNCHANGED <<configured, root, lists, cached, closing, running, overlaps, edits>>

-----------------------------------------------------------------------------
(* Changes of the configuration.                                           *)

\* addServer() and installCatalogEntry(), from the console, a tool, an extension.  One
\* of that name is replaced, and a connection to it stays.
AddServer(s, c) ==
    /\ CanEdit /\ configured' = Put(s, c)
    /\ entries' = [entries EXCEPT ![s] = ensureEntry(s)]
    /\ registry' = ConnectOnly(s)
    /\ Overlap(s, entries[s].state = "connected" \/ Fetching(s) \/ Waiting(s))
    /\ UNCHANGED <<root, lists, cached, closing, running>>

\* enableServer(): a project's server is imported; trusted, and connected unless lazy.
EnableServer(s) ==
    LET c == [getServer(s) EXCEPT !.on = TRUE, !.trust = "trusted"]
        e == ensureEntry(s)
        starts == c.mode # "lazy" /\ e.state # "connecting"
    IN  /\ CanEdit /\ s \in Listed /\ configured' = Put(s, c)
        /\ registry' = ConnectOnly(s)
        /\ starts => Cardinality(lists) < MaxFetches
        /\ entries' = [entries EXCEPT ![s] =
             IF ~starts \/ e.state = "connected" THEN e
             ELSE IF c.ready THEN [e EXCEPT !.state = "connecting", !.explicit = FALSE]
             ELSE IF e.explicit THEN e ELSE [e EXCEPT !.state = "failed"]]
        /\ lists' = IF ~starts \/ (~c.ready /\ e.state # "connected") THEN lists
                    ELSE lists \cup {[s |-> s, at |-> IF e.state = "connected" THEN "list" ELSE "handshake"]}
        /\ Overlap(s, Waiting(s))
        /\ UNCHANGED <<root, cached, closing, running>>

\* disableServer(), removeServer(), updateServer() and retryServer() up to where
\* disconnect() waits; disableServer() has stored its change by then.
Disconnect(op, s) ==
    /\ CanEdit /\ s \in Listed
    /\ op \in {"disable", "update"} => s \in Local
    /\ configured' = IF op = "disable" THEN Put(s, [configured[s] EXCEPT !.on = FALSE]) ELSE configured
    /\ entries' = [entries EXCEPT ![s].explicit = (@ \/ entries[s] # Absent)]
    /\ closing' = closing \cup {[op |-> op, s |-> s]}
    /\ Overlap(s, Waiting(s) \/ Fetching(s))
    /\ UNCHANGED <<root, registry, lists, cached, running>>

\* disconnect() unregisters and registers the connect tool, if there is an entry.
Disconnected(s) == IF entries[s] = Absent THEN registry ELSE ConnectOnly(s)

\* The rest of the operation.
Closed(o, patch) ==
    /\ o \in closing /\ closing' = closing \ {o}
    /\ LET s == o.s
           idle == [entries EXCEPT ![s].state = IF entries[s] = Absent THEN @ ELSE "configured"]
       IN  CASE o.op = "disable" ->
                    /\ registry' = OthersOf(s) /\ entries' = idle /\ UNCHANGED <<configured, lists>>
             [] o.op = "remove" ->
                    /\ configured' = Drop(s) /\ entries' = idle
                    /\ registry' = IF s \in Listed THEN OthersOf(s) ELSE Disconnected(s)
                    /\ UNCHANGED lists
             [] o.op = "update" ->
                    \* An eager server that is on is connected, as by its connect tool.
                    /\ IF s \in Local
                       THEN /\ configured' = Put(s, patch) /\ registry' = ConnectOnly(s)
                            /\ entries' = [idle EXCEPT ![s] = IF @ = Absent THEN Entry("configured") ELSE @]
                       ELSE UNCHANGED configured /\ registry' = Disconnected(s) /\ entries' = idle
                    /\ UNCHANGED lists
             [] o.op = "retry" ->
                    /\ registry' = Disconnected(s) /\ entries' = idle /\ UNCHANGED <<configured, lists>>
    /\ UNCHANGED <<root, cached, running, overlaps, edits>>

\* `mcp enable`, `mcp disable`, `mcp add`, `mcp remove`: another process changes the file.
OtherProcess(s) ==
    /\ CanEdit
    /\ \/ s \in Listed /\ configured' = Put(s, [getServer(s) EXCEPT !.on = ~@, !.trust = "trusted"])
       \/ configured' = Drop(s)
    /\ Overlap(s, TRUE)
    /\ UNCHANGED <<root, registry, entries, lists, cached, closing, running>>

-----------------------------------------------------------------------------
(* Projects, and starting anew.                                            *)

\* #projectCachedTools(), for the servers in some order.
ProjectOne(s, reg) ==
    LET others == {t \in reg : t.server # s}
    IN  IF cached[s] # NoCache THEN Project(s, cached[s], reg)
        ELSE others \cup {Tool(buildToolName("connect", Names(others)), s, "connect")}
ProjectAll(order, n, reg) ==
    LET after[i \in 0..n] == IF i = 0 THEN reg ELSE ProjectOne(order[i], after[i - 1])
    IN  after[n]
ProjectCached(reg) ==
    LET on == {s \in Listed : Enabled(s)}
        n == Cardinality(on)
        orders == {o \in [1..n -> on] : \A s \in on : \E i \in 1..n : o[i] = s}
    IN  {ProjectAll(order, n, reg) : order \in orders}

WithCached(es) ==
    [s \in Servers |-> IF Enabled(s) /\ cached[s] # NoCache
                       THEN [IF es[s] = Absent THEN Entry("configured") ELSE es[s] EXCEPT !.tools = cached[s]]
                       ELSE es[s]]

\* setProjectRoot(), when a session of another project has a turn.
SetProjectRoot(p) ==
    /\ running /\ p # root /\ root' = p
    /\ registry' \in ProjectCached(registry)
    /\ entries' = WithCached(entries)
    /\ UNCHANGED <<configured, lists, cached, closing, running, overlaps, edits>>

Stop ==
    /\ running /\ running' = FALSE
    /\ registry' = {} /\ entries' = [s \in Servers |-> Absent] /\ lists' = {} /\ closing' = {}
    /\ overlaps' = {}
    /\ UNCHANGED <<configured, root, cached, edits>>

\* start(): the caches, then the servers that are eager or started in the background.
Start ==
    /\ ~running /\ running' = TRUE
    /\ registry' \in ProjectCached({})
    /\ LET on == {s \in Listed : Enabled(s)}
           starts == {s \in on : getServer(s).mode # "lazy" /\ getServer(s).ready}
       IN  /\ entries' = [s \in Servers |->
                IF s \notin on THEN Absent
                ELSE [WithCached([x \in Servers |-> Entry("configured")])[s]
                        EXCEPT !.state = IF s \in starts THEN "connecting" ELSE "configured"]]
           /\ lists' = {[s |-> s, at |-> "handshake"] : s \in starts}
    /\ UNCHANGED <<configured, root, cached, closing, overlaps, edits>>

Next ==
    \/ \E t \in registry : UseTool(t)
    \/ \E s \in Servers : FinishOAuth(s)
    \/ \E l \in lists : HandshakeDone(l)
    \/ \E l \in lists, offered \in OfferSets : ToolsListed(l, offered)
    \/ \E l \in lists : SurfaceDone(l)
    \/ \E l \in lists : FetchFails(l)
    \/ \E s \in Servers : ListChanged(s)
    \/ \E s \in Servers : OnClose(s)
    \/ \E s \in Servers, c \in Catalog : AddServer(s, c)
    \/ \E s \in Servers : EnableServer(s)
    \/ \E s \in Servers, op \in {"disable", "remove", "update", "retry"} : Disconnect(op, s)
    \/ \E o \in closing, on, ready \in BOOLEAN : Closed(o, Config(on, "trusted", "lazy", ready))
    \/ \E s \in Servers : OtherProcess(s)
    \/ \E p \in Projects : SetProjectRoot(p)
    \/ Stop
    \/ Start

Spec == Init /\ [][Next]_surfaceVars

-----------------------------------------------------------------------------
(* Properties.                                                             *)

ConnectTools(s) == {t \in registry : t.server = s /\ t.original = "connect"}

\* runtime-manager.ts:1105-1108: whatever fails, closes, is listed anew or restarts,
\* a server that is on has its connect tool, unless two operations on it overlapped.
WayIn ==
    \A s \in Servers :
        running /\ Enabled(s) /\ ~Waiting(s) /\ s \notin overlaps => ConnectTools(s) # {}

\* A server that is off has no tools but the one to connect it, unless its list was
\* being fetched when it was switched off.
NoGhosts ==
    \A t \in registry :
        Enabled(t.server) \/ Waiting(t.server) \/ t.server \in overlaps \/ t.original = "connect"

SurfaceIsUsable == WayIn /\ NoGhosts

\* buildToolName(): a tool that a connected server offers is not lost to a server whose
\* name reads alike.  The code does not satisfy it: README, Deviations.
NoNameIsTaken ==
    \A s \in Servers : entries[s].state = "connected" /\ ~Fetching(s) /\ ~Waiting(s) =>
        \A t \in entries[s].tools : \A r \in registry : r.name = t.name => r.server = s
=============================================================================
