------------------------------ MODULE MCEdges ------------------------------
(***************************************************************************)
(* The thread of a session and the components at the edges of the system,  *)
(* for the checker: devices, projects, requests about a session,           *)
(* terminals, voice input, the gateway as a process, the connections of    *)
(* MCP servers, the console's handlers, the Android app and what the facts *)
(* of a thread say of the work.  Here they share no state, so one of them  *)
(* runs at a time: focus says which, and the others keep their initial     *)
(* state.                                                                  *)
(***************************************************************************)
EXTENDS SessionThread

CONSTANTS
    Focus, \* the components that are checked
    DeviceIds, PairingCodes, StreamTokens, MaxPairRuns,
    Folders, DefaultFolder, ProjectSessions, MaxTurns, MaxStarts,
    Terms, TermOps, MaxOutput, MaxKept, MaxTermOps, MaxStreams,
    Pids, Ports, Terminals, MaxCommands, MaxRecordings, MaxRequests,
    MaxTries, MaxTransports, GiveUp, MaxTicks,
    SessionProject, FirstSessions, FirstProject, Texts, MaxClicks, MaxHandlers,
    Desktops, FirstDesktop, Urls, FirstUrl, MaxTaps, MaxMoves,
    Todos, Steps, Files, Tasks, Window, MaxItems, MaxFacts, MaxOf

\* randomBytes and the hash of a path give names of their own.
ASSUME EdgesAssumptions ==
    /\ PairingCodes \cap StreamTokens = {}
    /\ DefaultFolder \in Folders /\ "none" \notin Folders
    /\ IsFiniteSet(Terms) /\ "none" \notin Terms /\ MaxKept \in Nat \ {0}
    /\ "none" \notin Pids
    /\ MaxTransports \in Nat
    /\ Window \in Nat \ {0} /\ MaxFacts \in Nat

VARIABLES focus,
    auth, pairRead, pairRuns, expired, inFlight, madeBy, streamsOf, undone,
    present, stored, currentId, defaultId, home, live, turnRoot, sharedRoot, turnsRun,
    starts,
    state, title, branchCount, activeBranch, branchMade, waitingFor, selectedIn, naming,
    named, files, wakers,
    terminal, feeds, source, tabStrip, output, front, termOp, opsMade, replaced,
    voiceState, asking, mics, timers, mic, recordings, heard, flags, previewSeq, promise,
    transcripts, requested, ending, spoken, overlapped,
    proc, runFile, agent, cli, app, recovery, commands,
    config, entry, tries, transport, op, reached, up, ticks,
    exists, picked, project, selected, branch, shown, listed, draft, attached, busy,
    choosing, handlers, sent, written, doubtful, clicks,
    answers, saved, activeId, activeConnection, resolvedBaseUrl, tokenInjected, executor,
    posted, screen, view, loading, token, chosen, met, taps, moves,
    facts, fork, active

Auth == INSTANCE Devices
Housing == INSTANCE Projects
Requests == INSTANCE Gateway WITH
    Viewers <- {"d1", "d2"}, RequestIds <- {"r1"}, MaxBranches <- 2, MaxCalls <- 2
Shells == INSTANCE Terminals WITH MaxOps <- MaxTermOps
Voice == INSTANCE VoiceInput
Service == INSTANCE GatewayService
Mcp == INSTANCE McpConnection
Bench == INSTANCE Workbench WITH
    ProjectOf <- SessionProject, MaxOps <- MaxHandlers, files <- attached, ops <- handlers
App == INSTANCE AndroidApp
Work == INSTANCE WorkReview

DevicesVars == <<auth, pairRead, pairRuns, expired, inFlight, madeBy, streamsOf,
    undone>>
ProjectsVars == <<present, stored, currentId, defaultId, home, live, turnRoot,
    sharedRoot, turnsRun, starts>>
RequestsVars == <<state, title, branchCount, activeBranch, branchMade, waitingFor,
    selectedIn, naming, named, files, wakers>>
TerminalsVars == <<terminal, feeds, source, tabStrip, output, front, termOp,
    opsMade, replaced>>
VoiceVars == <<voiceState, asking, mics, timers, mic, recordings, heard, flags,
    previewSeq, promise, transcripts, requested, ending, spoken, overlapped>>
ServiceVars == <<proc, runFile, agent, cli, app, recovery, commands>>
McpVars == <<config, entry, tries, transport, op, reached, up, ticks>>
BenchVars == <<exists, picked, project, selected, branch, shown, listed, draft, attached,
    busy, choosing, handlers, sent, written, doubtful, clicks>>
AppVars == <<answers, saved, activeId, activeConnection, resolvedBaseUrl, tokenInjected,
    executor, posted, screen, view, loading, token, chosen, met, taps, moves>>
ReviewVars == <<facts, fork, active>>

edges == <<DevicesVars, ProjectsVars, RequestsVars,
    TerminalsVars, VoiceVars, ServiceVars, McpVars, BenchVars, AppVars,
    ReviewVars>>

EdgesInit ==
    /\ focus \in Focus
    /\ Init
    /\ Auth!Init
    /\ Housing!Init
    /\ Requests!Init
    /\ Shells!Init
    /\ Voice!Init
    /\ Service!Init
    /\ Mcp!Init
    /\ Bench!Init /\ project = FirstProject /\ exists = FirstSessions
    /\ App!Init /\ saved[FirstDesktop].is = "saved" /\ answers[FirstUrl] = FirstDesktop
    /\ focus # "app" => /\ \A url \in Urls \ {FirstUrl} : answers[url] # FirstDesktop
                       /\ saved[FirstDesktop].last = FirstUrl
    /\ Work!Init

\* All components but f rest.
OthersRest(f) ==
    /\ UNCHANGED focus
    /\ IF f = "thread" THEN TRUE ELSE UNCHANGED vars
    /\ IF f = "devices" THEN TRUE ELSE UNCHANGED DevicesVars
    /\ IF f = "projects" THEN TRUE ELSE UNCHANGED ProjectsVars
    /\ IF f = "requests" THEN TRUE ELSE UNCHANGED RequestsVars
    /\ IF f = "terminals" THEN TRUE ELSE UNCHANGED TerminalsVars
    /\ IF f = "voice" THEN TRUE ELSE UNCHANGED VoiceVars
    /\ IF f = "service" THEN TRUE ELSE UNCHANGED ServiceVars
    /\ IF f = "mcp" THEN TRUE ELSE UNCHANGED McpVars
    /\ IF f = "workbench" THEN TRUE ELSE UNCHANGED BenchVars
    /\ IF f = "app" THEN TRUE ELSE UNCHANGED AppVars
    /\ IF f = "work" THEN TRUE ELSE UNCHANGED ReviewVars

EdgesNext ==
    \/ focus = "thread" /\ Next /\ OthersRest("thread")
    \/ focus = "devices" /\ Auth!Next /\ OthersRest("devices")
    \/ focus = "projects" /\ Housing!Next /\ OthersRest("projects")
    \/ focus = "requests" /\ Requests!Next /\ OthersRest("requests")
    \/ focus = "terminals" /\ Shells!Next /\ OthersRest("terminals")
    \/ focus = "voice" /\ Voice!Next /\ OthersRest("voice")
    \/ focus = "service" /\ Service!Next /\ OthersRest("service")
    \/ focus = "mcp" /\ Mcp!Next /\ OthersRest("mcp")
    \/ focus = "workbench" /\ Bench!Next /\ OthersRest("workbench")
    \/ focus = "app" /\ App!Next /\ OthersRest("app")
    \/ focus = "work" /\ Work!Next /\ OthersRest("work")

EdgesSpec == EdgesInit /\ [][EdgesNext]_<<focus, vars, edges>>

-----------------------------------------------------------------------------
(* The sessions of Workbench and the facts of WorkReview, for the checker. *)

SomeProjects == [s1 |-> "p", s2 |-> "p", s3 |-> "q"]

Todo(id, text) == [id |-> id, text |-> text]
SomeTodos == {Todo("1", "a"), Todo("1", "b"), Todo("none", "a")}
SomeSteps == {Todo("none", "a"), Todo("1", "b")}
\* Steps are proven by receipts over several lists of todos; receipts rest on each
\* kind of fact; and changes, checks, diagnostics, tasks and reviews, some together,
\* make the work ready or not.
SomeFacts == {[todo |-> 3, receipt |-> 1, check |-> 0, diff |-> 0, diagnostics |-> 0,
               task |-> 0, review |-> 0, read |-> 0],
              [todo |-> 2, receipt |-> 1, check |-> 0, diff |-> 0, diagnostics |-> 0,
               task |-> 0, review |-> 0, read |-> 1],
              [todo |-> 0, receipt |-> 1, check |-> 1, diff |-> 0, diagnostics |-> 0,
               task |-> 0, review |-> 1, read |-> 0],
              [todo |-> 0, receipt |-> 1, check |-> 0, diff |-> 1, diagnostics |-> 1,
               task |-> 0, review |-> 0, read |-> 0],
              [todo |-> 0, receipt |-> 0, check |-> 2, diff |-> 1, diagnostics |-> 1,
               task |-> 0, review |-> 0, read |-> 0],
              [todo |-> 0, receipt |-> 0, check |-> 1, diff |-> 1, diagnostics |-> 0,
               task |-> 2, review |-> 1, read |-> 0],
              [todo |-> 0, receipt |-> 0, check |-> 2, diff |-> 0, diagnostics |-> 1,
               task |-> 0, review |-> 1, read |-> 0]}

-----------------------------------------------------------------------------
\* The types of the thread and of every component, each where it runs: the others keep
\* their initial state, which is one of those in which they run themselves.
TypesOK ==
    /\ focus = "thread" => ThreadTypeOK
    /\ focus = "devices" => Auth!TypeOK
    /\ focus = "projects" => Housing!TypeOK
    /\ focus = "requests" => Requests!TypeOK
    /\ focus = "terminals" => Shells!TypeOK
    /\ focus = "voice" => Voice!TypeOK
    /\ focus = "service" => Service!TypeOK
    /\ focus = "app" => App!TypeOK
    /\ focus = "work" => Work!TypeOK
\* A pairing code pairs one device, a stream token opens one stream (Devices).
KeysOpenOnce == Auth!KeysOpenOnce
\* A session that is not archived has a project that is not archived (Projects).
SessionsAreHoused == Housing!SessionsAreHoused
\* What a request does is right for the session it finds when its body is there
\* (Gateway).
LateRequestsAreChecked == Requests!LateRequestsAreChecked
\* What the console's user relies on, of the component that runs: a tab shows its
\* terminal's output without a hole (Terminals); when voice input is idle, no microphone
\* is open and nothing is to come (VoiceInput); a message goes, once, to the session that
\* was selected when it was sent, wherever the user has gone since (Workbench); the
\* console the app comes to show is that of the desktop chosen last (AndroidApp); a
\* review shows all the core knows (WorkReview).
ConsoleIsFaithful ==
    /\ focus = "terminals" => Shells!ShownWithoutHoles
    /\ focus = "voice" => Voice!IdleIsQuiet
    /\ focus = "workbench" => Bench!MessagesArrive
    /\ focus = "app" => App!ConsoleIsTheChosen
    /\ focus = "app" => App!NotLeftConnecting
    /\ focus = "work" => Work!ConsoleShowsTheWork
\* What is called complete has its proof, and the gate before a final answer agrees
\* with what the model was warned of (WorkReview).
WorkIsProven == Work!WorkIsProven
\* The run file names the process that serves its directory, unless that had it at the
\* same time as another process (GatewayService).
RunFileNamesTheCore == Service!RunFileNamesTheCore
\* A server that was disabled, removed or stopped is not brought back by what
\* was under way (McpConnection).
ClosedStaysClosed == Mcp!ClosedStaysClosed
=============================================================================
