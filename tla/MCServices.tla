---------------------------- MODULE MCServices ----------------------------
(***************************************************************************)
(* The session supervisor and the components around the core, for the      *)
(* checker.  Here they share no state, so one of them runs at a time:      *)
(* focus says which, and the others keep their initial state.              *)
(***************************************************************************)
EXTENDS SessionSupervisor

CONSTANTS
    \* PermissionBroker: the calls, the inputs they use, and the classes of inputs that
    \* the configured rules deny, have to be asked, and allow.
    ToolCalls, UsedInputs, MaxGrants, DeniedByRule, AskedByRule, AllowedByRule,
    \* McpCalls, for a server without parallel calls.
    McpCallIds, Watched,
    \* FileEdits.
    EditedFiles, FileTexts, LongTexts, MaxForeign,
    \* Worktrees.
    TreeSessions, TreePlaces, MaxWork,
    \* WorkspaceEvidence.
    ShellCommands, ShellChecks, ShellWriters,
    \* Subagents.
    AgentTasks, MaxEntries, MaxRounds, MaxToolCalls, MaxDeaths,
    \* Webridge.
    WebClients, WebCommands, MaxPolls,
    \* Browser.
    TabSessions, MaxConnections, MaxAttempts, MaxOps,
    \* WebConsole and AndroidMonitor.
    ConsoleSessions, MaxEvents, MaxFetches, MaxBreaks, MaxLog, MaxKills,
    \* ModelCalls.
    Providers, MaxRetries, MaxPieces,
    \* Maintenance.
    KeptTurns, Threshold, MaxFailures,
    \* SkillSources.
    SkillProjects, Home, SkillReaders, SkillRegistries, MaxTold,
    \* LanguageServers.
    LspOps, SourceFiles, MaxClients, MaxServers,
    \* McpSurface: one project has servers of its own, another has none.
    McpServers, OfProject, ToolSets, MaxChanges

\* "none" and "detached" stand for no branch.
ASSUME ServicesAssumptions ==
    /\ TreePlaces \cap {"none", "detached"} = {}
    /\ MaxConnections \in Nat /\ MaxClients \in Nat /\ MaxServers \in Nat
    /\ Home \in SkillProjects
    /\ Providers \subseteq {"deepseek", "openai", "anthropic"}
    \* A server offers tools, a handful; the names of two are built for all servers.
    /\ IsFiniteSet(McpServers) /\ OfProject \subseteq McpServers
    /\ \A tools \in ToolSets : IsFiniteSet(tools) /\ tools \cap {"connect", "list"} = {}

\* The configured rules.
ToolRules == [x \in {"read", "edit", "outside", "sensitive", "safe", "shell", "install",
                     "destroy", "task", "mcp"} |->
                IF x \in DeniedByRule THEN "deny" ELSE IF x \in AskedByRule THEN "ask"
                ELSE IF x \in AllowedByRule THEN "allow" ELSE "none"]

\* What users write: an interval and cron expressions.
Any == [form |-> "any"]
Exact(n) == [form |-> "exact", n |-> n]
Cron(fields) == [form |-> "cron", fields |-> fields]
Written ==
    {[form |-> "ms", n |-> 2],
     Cron(<<[form |-> "step", n |-> 2], Any, Exact(2), Any, Exact(1)>>),
     Cron(<<Exact(0), Exact(1), [form |-> "list", parts |-> <<Exact(2), Exact(3)>>], Any, Any>>),
     Cron(<<Exact(1), Any, Any, Any, Any>>),
     Cron(<<Exact(0), Exact(0), Exact(1), Exact(2), Any>>),
     Cron(<<Any, Exact(0), Any, Any, Exact(2)>>),
     \* All days of the week, and a list that only looks like that.
     Cron(<<Exact(0), Any, Exact(3), Any, [form |-> "list", parts |-> <<Exact(0), Exact(1)>>]>>),
     Cron(<<Exact(0), Any, Any, Any, [form |-> "list", parts |-> <<Exact(0), Exact(0)>>]>>),
     Cron(<<Any, Any, [form |-> "range", lo |-> 3, hi |-> 1], Any, Any>>)}

CONSTANT Focus \* the components that are checked

VARIABLES focus,
    call, pending, answers, allowed, grants, plan, free,
    known, age, commandQueue, waiters, waiting, outcome, ext, done, closed, polls,
    connected, callAt, callQueue, activeCall, working, elicited, asker,
    elog, stream, wire, seen, cursor, selected, thread, got, fetches, readSeq, breaks,
    log, store, disk, health, loop, feed, handling, shown, cutOff, kills,
    keeper, jobs, queuedYet, state, backing, timer, runs, proposals, kept, failures,
    package, pointer, disabled, stored, skillCrashes,
    current, rpc, server, lsp,
    shell, shellTask, told, evidence, dirty, verified,
    file, view, saved, learnt, foreign,
    agent, taskFile, cancel, work, ends, deaths,
    sources, cache, refresh, wanted, changes, install, locked, installed, enables,
    provider, streams, gen, requests, aborted, body, published, reply,
    runtime, client, conn, reconnect, reconnecting, tabs, tabOp, tabOps,
    now, trigger, due, up, from, fired, starts,
    topics, archived, manifest, migrated, proposed, todo, doing, memoryUp, remembered, crashes,
    configured, project, registry, entries, lists, cached, closing, running, overlaps, edits,
    tree, branches, treeTool, made, given, left,
    projectRoot, skillList, index, skillTold, listed, served, fetching, githubCache, onDisk,
    switches,
    nextSeq, usageLedger, events, flushed, cacheShapes, calling, summarised, spent, restarts

Permissions == INSTANCE PermissionBroker WITH
    Calls <- ToolCalls, Inputs <- UsedInputs, Rules <- ToolRules
Bridge == INSTANCE Webridge WITH
    Clients <- WebClients, Commands <- WebCommands, queue <- commandQueue
Calls == INSTANCE McpCalls WITH
    CallIds <- McpCallIds, Interactive <- Watched, Parallel <- FALSE, active <- activeCall
Console == INSTANCE WebConsole WITH
    Sessions <- ConsoleSessions
Android == INSTANCE AndroidMonitor
Keeper == INSTANCE Maintenance WITH Turns <- KeptTurns
Skills == INSTANCE SkillStore WITH
    Installed <- {1, 2}, Generated <- {3}, MaxCrashes <- 1
Lsp == INSTANCE LanguageServers WITH
    Files <- SourceFiles
Evidence == INSTANCE WorkspaceEvidence WITH
    Commands <- ShellCommands, Checks <- ShellChecks, Writers <- ShellWriters
FileTools == INSTANCE FileEdits WITH
    Files <- EditedFiles, Texts <- FileTexts, Long <- LongTexts
Agents == INSTANCE Subagents WITH
    Tasks <- AgentTasks, MaxCalls <- MaxToolCalls
Extend == INSTANCE Extensions WITH
    Registries <- {"u"}, Singles <- {"skill"}, Bundle <- <<"skill", "server">>,
    MaxSources <- 2, MaxEnables <- 1
Model == INSTANCE ModelCalls
Web == INSTANCE Browser WITH
    MaxClients <- MaxConnections, active <- reconnecting
Trees == INSTANCE Worktrees WITH
    WorkSessions <- TreeSessions, Places <- TreePlaces
Clock == INSTANCE TriggerClock WITH
    Calendar <- [hour |-> 2, day |-> 2, month |-> 3, year |-> 2, week |-> 2],
    Schedules <- Written, MaxIterations <- 24, MaxDelay <- 9, MaxLate <- 1, MaxTime <- 12,
    MaxRestarts <- 1, timer <- due
Memories == INSTANCE MemoryStore WITH
    Ids <- {"m1", "m2"}, Legacy <- {"m1"}, Places <- {"a", "b"}, Proposals <- {"p"},
    MaxCrashes <- 1
Surface == INSTANCE McpSurface WITH
    Servers <- McpServers, FromProject <- [p |-> OfProject, q |-> {}], OfferSets <- ToolSets,
    root <- project
\* The list of sources changes while nothing is published ...
SourceLists == INSTANCE SkillSources WITH
    Readers <- SkillReaders, Registries <- SkillRegistries,
    Signed <- {}, Installs <- {1}, MaxEdits <- 3, MaxRevs <- 0,
    sources <- skillList, told <- skillTold, install <- fetching, cache <- githubCache,
    disk <- onDisk
\* ... and packages are published and installed in one project.
Packages == INSTANCE SkillSources WITH
    SkillProjects <- {Home}, Readers <- {}, Registries <- SkillRegistries,
    Signed <- {}, Installs <- {1}, MaxEdits <- 2, MaxTold <- 0, MaxRevs <- 2,
    sources <- skillList, told <- skillTold, install <- fetching, cache <- githubCache,
    disk <- onDisk
Account == INSTANCE UsageAccount WITH
    Subagents <- {"b"}, Shapes <- {"x"}, Sizes <- {1}, RequiresUsage <- FALSE,
    MaxAnswers <- 2, MaxSeq <- 3, MaxCrashes <- 1, crashes <- restarts

PermissionsVars == <<call, pending, answers, allowed, grants, plan, free>>
BridgeVars == <<known, age, commandQueue, waiters, waiting, outcome, ext, done, closed,
    polls>>
CallsVars == <<connected, callAt, callQueue, activeCall, working, elicited, asker>>
ConsoleVars == <<elog, stream, wire, seen, cursor, selected, thread, got, fetches,
    readSeq, breaks>>
AndroidVars == <<log, store, disk, health, loop, feed, handling, shown, cutOff, kills>>
KeeperVars == <<keeper, jobs, queuedYet, state, backing, timer, runs, proposals, kept,
    failures>>
SkillsVars == <<package, pointer, disabled, stored, skillCrashes>>
LspVars == <<current, rpc, server, lsp>>
EvidenceVars == <<shell, shellTask, told, evidence, dirty, verified>>
FileToolsVars == <<file, view, saved, learnt, foreign>>
AgentsVars == <<agent, taskFile, cancel, work, ends, deaths>>
ExtendVars == <<sources, cache, refresh, wanted, changes, install, locked, installed,
    enables>>
ModelVars == <<provider, streams, gen, requests, aborted, body, published, reply>>
WebVars == <<runtime, client, conn, reconnect, reconnecting, tabs, tabOp, tabOps>>
TreesVars == <<tree, branches, treeTool, made, given, left>>
ClockVars == <<now, trigger, due, up, from, fired, starts>>
MemoriesVars == <<topics, archived, manifest, migrated, proposed, todo, doing, memoryUp, remembered, crashes>>
SurfaceVars == <<configured, project, registry, entries, lists, cached, closing, running, overlaps, edits>>
SkillSourcesVars == <<projectRoot, skillList, index, skillTold, listed, served, fetching,
    githubCache, onDisk, switches>>
AccountVars == <<nextSeq, usageLedger, events, flushed, cacheShapes, calling, summarised,
    spent, restarts>>

services == <<PermissionsVars, BridgeVars, CallsVars, ConsoleVars,
    AndroidVars, KeeperVars, SkillsVars, LspVars, EvidenceVars,
    FileToolsVars, AgentsVars, ExtendVars, ModelVars, WebVars, TreesVars,
    ClockVars, MemoriesVars, SurfaceVars, SkillSourcesVars, AccountVars,
    supervisorVars>>
vars == <<focus, services>>

ServicesInit ==
    /\ focus \in Focus
    /\ Permissions!Init
    /\ Bridge!Init
    /\ Calls!Init
    /\ Console!Init
    /\ Android!Init
    /\ Keeper!Init
    /\ Skills!Init
    /\ Lsp!Init
    /\ Evidence!Init
    /\ FileTools!Init
    /\ Agents!Init
    /\ Extend!Init
    /\ Model!Init
    /\ Web!Init
    /\ Trees!Init
    /\ Clock!Init
    /\ Memories!Init
    /\ Surface!Init
    /\ Packages!Init
    /\ Account!Init
    /\ Init
    \* A component that is not checked has one initial state.
    /\ focus # "maintenance" => keeper = "memory"
    /\ focus # "evidence" => ~dirty
    /\ focus # "mcp calls" => connected
    /\ focus # "console" => selected = "s1"
    /\ focus # "supervisor" => runnable = {}
    /\ focus # "model calls" => provider = "openai" /\ streams
    /\ focus # "trigger clock" => now = 1
    /\ focus # "mcp surface" => project = "p"
    \* Every file is there; what else there can be the tools and other programs make.
    /\ file = [f \in EditedFiles |-> "empty"]

\* All components but f rest.
OthersRest(f) ==
    /\ UNCHANGED focus
    /\ IF f = "permissions" THEN TRUE ELSE UNCHANGED PermissionsVars
    /\ IF f = "webridge" THEN TRUE ELSE UNCHANGED BridgeVars
    /\ IF f = "mcp calls" THEN TRUE ELSE UNCHANGED CallsVars
    /\ IF f = "console" THEN TRUE ELSE UNCHANGED ConsoleVars
    /\ IF f = "android" THEN TRUE ELSE UNCHANGED AndroidVars
    /\ IF f = "maintenance" THEN TRUE ELSE UNCHANGED KeeperVars
    /\ IF f = "skills" THEN TRUE ELSE UNCHANGED SkillsVars
    /\ IF f = "language servers" THEN TRUE ELSE UNCHANGED LspVars
    /\ IF f = "evidence" THEN TRUE ELSE UNCHANGED EvidenceVars
    /\ IF f = "files" THEN TRUE ELSE UNCHANGED FileToolsVars
    /\ IF f = "subagents" THEN TRUE ELSE UNCHANGED AgentsVars
    /\ IF f = "extensions" THEN TRUE ELSE UNCHANGED ExtendVars
    /\ IF f = "model calls" THEN TRUE ELSE UNCHANGED ModelVars
    /\ IF f = "browser" THEN TRUE ELSE UNCHANGED WebVars
    /\ IF f = "worktrees" THEN TRUE ELSE UNCHANGED TreesVars
    /\ IF f = "trigger clock" THEN TRUE ELSE UNCHANGED ClockVars
    /\ IF f = "memory store" THEN TRUE ELSE UNCHANGED MemoriesVars
    /\ IF f = "mcp surface" THEN TRUE ELSE UNCHANGED SurfaceVars
    /\ IF f \in {"skill sources", "packages"} THEN TRUE ELSE UNCHANGED SkillSourcesVars
    /\ IF f = "usage" THEN TRUE ELSE UNCHANGED AccountVars
    /\ IF f = "supervisor" THEN TRUE ELSE UNCHANGED supervisorVars

ServicesNext ==
    \/ focus = "permissions" /\ Permissions!Next /\ OthersRest("permissions")
    \/ focus = "webridge" /\ Bridge!Next /\ OthersRest("webridge")
    \/ focus = "mcp calls" /\ Calls!Next /\ OthersRest("mcp calls")
    \/ focus = "console" /\ Console!Next /\ OthersRest("console")
    \/ focus = "android" /\ Android!Next /\ OthersRest("android")
    \/ focus = "maintenance" /\ Keeper!Next /\ OthersRest("maintenance")
    \/ focus = "skills" /\ Skills!Next /\ OthersRest("skills")
    \/ focus = "language servers" /\ Lsp!Next /\ OthersRest("language servers")
    \/ focus = "evidence" /\ Evidence!Next /\ OthersRest("evidence")
    \/ focus = "files" /\ FileTools!Next /\ OthersRest("files")
    \/ focus = "subagents" /\ Agents!Next /\ OthersRest("subagents")
    \/ focus = "extensions" /\ Extend!Next /\ OthersRest("extensions")
    \/ focus = "model calls" /\ Model!Next /\ OthersRest("model calls")
    \/ focus = "browser" /\ Web!Next /\ OthersRest("browser")
    \/ focus = "worktrees" /\ Trees!Next /\ OthersRest("worktrees")
    \/ focus = "trigger clock" /\ Clock!Next /\ OthersRest("trigger clock")
    \/ focus = "memory store" /\ Memories!Next /\ OthersRest("memory store")
    \/ focus = "mcp surface" /\ Surface!Next /\ OthersRest("mcp surface")
    \/ focus = "skill sources" /\ SourceLists!Next /\ OthersRest("skill sources")
    \/ focus = "packages" /\ Packages!Next /\ OthersRest("packages")
    \/ focus = "usage" /\ Account!Next /\ OthersRest("usage")
    \/ focus = "supervisor" /\ Next /\ OthersRest("supervisor")

ServicesSpec == ServicesInit /\ [][ServicesNext]_vars

\* The fairness of the components that need it (see there), one at a time.
FairSpec ==
    ServicesSpec /\ WF_vars(
        \/ focus = "permissions" /\ Permissions!Progress /\ OthersRest("permissions")
        \/ focus = "mcp calls" /\ Calls!Progress /\ OthersRest("mcp calls")
        \/ focus = "browser" /\ Web!Progress /\ OthersRest("browser"))

-----------------------------------------------------------------------------
\* A permission request gets one answer, and what its call did then stays; no mode,
\* allowance or grant opens what the policy denies for good (PermissionBroker).
PermissionsHold == Permissions!ResolvedOnce /\ Permissions!HardDenied
\* A long poll that is open finds no command in its client's queue (Webridge), and no
\* command waits for a connection to the browser that cannot answer or fail any more
\* (Browser).
NobodyWaitsInVain == Bridge!NobodyWaitsInVain /\ Web!NoCommandIsStranded
\* The sender of a command has one outcome, whatever comes late (Webridge), and a shell
\* task that is over is never running again (WorkspaceEvidence).
OverStaysOver == Bridge!CommandsSettleOnce /\ Evidence!OverStaysOver
\* What a server asks for a call goes to the user of that call, unless the client has given
\* up on it (McpCalls).
AsksItsCaller == Calls!AsksItsCaller
\* An event stream delivers what it was asked for without a gap (WebConsole), and the
\* monitor's saved position passes no reply it has not shown (AndroidMonitor).
NothingIsPassed == Console!StreamHasNoGap /\ Android!NoReplyIsPassed
\* No proposal enters the store twice (Maintenance), and no session is told twice of a
\* skill near the files it touches (SkillSources).
PromotedOnce == Keeper!PromotedOnce /\ SourceLists!ToldOnce
\* At most one version of a skill is active (SkillStore), and what is installed from a
\* registry is one revision of it (SkillSources); what was installed is in the lock file,
\* and a bundle with all its items (Extensions); no memory is lost or left out of the
\* index (MemoryStore); every answer of the model is in the account, and the context that
\* is shown is that of the last of them or of a later compaction (UsageAccount).
StoresAreWhole ==
    /\ Skills!OneVersionActive
    /\ Packages!InstalledIsAsPublished
    /\ Extend!LockIsWhole
    /\ Memories!MemoryIsKept
    /\ Account!TypeOK
    /\ Account!AccountIsTrue
\* The next firing of a trigger is set to the first time that its expression means, but for
\* two kinds of expressions that the code misreads (TriggerClock).
NextIsFirstDue == Clock!NextIsFirstDue
\* An enabled MCP server can be reached, and tools of others are gone (McpSurface).
SurfaceIsUsable == Surface!SurfaceIsUsable
\* No language server runs that no client can stop (LanguageServers).
NoServerIsLost == Lsp!NoServerIsLost
\* What a command came to is told, in its call or by its task (WorkspaceEvidence); the
\* end of a background subagent was told in the thread, and a cancelled one stays
\* cancelled (Subagents).
EndsAreTold == Evidence!EndedIsTold /\ Agents!FirstEndStands
\* What was shown while the model answered is the answer (ModelCalls).
ReplyIsShownOnce == Model!ReplyIsShownOnce
\* Nobody waits for ever: a tool call for its permission (PermissionBroker), a call
\* of an MCP server for the calls before it (McpCalls), a blocked session for the
\* end of a recovery of the browser (Browser).
WaitingEnds ==
    []<>(Permissions!NoRequestWaits /\ Calls!NoCallWaits /\ Web!NotRecovering)
\* A file tool destroys only what its session has seen or written (FileEdits).
NothingUnreadIsLost == FileTools!NothingUnreadIsLost
\* No change in a worktree is lost unless the user has agreed to it, but for the commits of
\* a detached HEAD that is left behind (Worktrees).
NoWorkIsLost == Trees!NoWorkIsLost
\* The registry sources are those the user added and did not remove (Extensions).
SourcesAreTheUsers == Extend!SourcesAreTheUsers
=============================================================================
