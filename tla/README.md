# DeepSeek-Forge in TLA+

This directory specifies the DeepSeek-Forge agent server: the core that runs
the turns of its sessions, the thread a turn writes, and the components around
them, each with what makes it hard. TLC checks every module on small
instances; TLAPS proves the main invariants for every value of the constants.
Paths below are relative to the repository root, so the server's sources are
under `src/`. `PROJECT.json` maps every definition that models code to its
lines; the comment at the head of each module says what it leaves out.

## The system

One Node process serves many *sessions*. A session is an endless thread of
events with one of six statuses. A *turn* runs the agent loop for one session:
it calls a model provider, runs the tools the model asks for, and goes round
until the model gives a final answer, asks the user, or fails. Turns of
different sessions run side by side, up to a limit.

| Component | State it keeps | Operations | Hard part | Module |
|---|---|---|---|---|
| Core API (`core/core-api.ts`) | sessions, one `AbortController` per turn, positions in the thread | append a message, dispatch, interrupt, retry, archive, run a turn, restart | statuses change while turns wait; aborted turns that have not unwound | `SessionCore` |
| Lifecycle table | the six statuses | | steps outside the table | `SessionLifecycle` |
| Supervisor (`core/session-supervisor.ts`) | queue, active set | enqueue, dequeue, drain, stop | slots that leak, double turns, order | `SessionSupervisor` |
| Runtime manager, tab manager | which runtime blocked which session; session to tab | block, recover, rehydrate, attach, detach | ownership that goes stale | `SessionCore`, `Browser` |
| Scheduler and cron parser | triggers, timers, `triggers.json` | schedule, cancel, fire, reload | spent one-shot triggers, late timers, restart | `SessionCore`, `TriggerClock` |
| Agent loop, thread store, context builder, compactor | the thread, its file, the batch of tools under way | append, run tools, compact, fork, flush, load, repair | calls and results must stay paired over aborts, compaction and crashes | `SessionThread` |
| Providers, HTTP client | retries, a body half read | generate, retry, time out, abort | text published before a retry | `ModelCalls` |
| Permission broker (`permissions/`) | pending requests, grants, modes | authorize, respond, time out, abort | three ways to resolve one request | `PermissionBroker` |
| Webridge and the Chrome extension | clients, queues, long polls | send, poll, execute, submit | late delivery, dead polls | `Webridge` |
| Browser runtime, CDP client | connection, tabs | connect, reconnect, open, close, command | a connection that drops during its recovery | `Browser` |
| MCP manager (`mcp/`) | connections, queues, configuration, tools | connect, call, ask, reconnect, configure | reconnect races, names that collide | `McpConnection`, `McpCalls`, `McpSurface` |
| Memory (`memory/`), skill evolution | jobs, backoff, files | extract, consolidate, archive | work lost or done twice on failure | `Maintenance`, `MemoryStore` |
| Skills (`skills/`) | packages, versions, sources | install, enable, roll back, refresh | crash between rename and save | `SkillStore`, `SkillSources` |
| Extensions (`extensions/`) | sources, lock file | install, refresh, enable | files rewritten as a whole after a download | `Extensions` |
| Tools (`tools/built-in/`) | shell tasks, read files, worktrees, subagents | run, kill, edit, merge, cancel | others change the same files; ends that race | `WorkspaceEvidence`, `FileEdits`, `Worktrees`, `Subagents` |
| Workspace services | language servers, the gate before a final answer | query, restart, review | processes without owner, stale checks | `LanguageServers`, `WorkReview` |
| Auth store | pairing codes, devices, stream tokens | pair, issue, consume, revoke | one-time use; two processes write one file | `Devices` |
| HTTP gateway | requests, streams | routes about sessions, event stream | a body that arrives late; replay against live stream | `Gateway`, `WebConsole` |
| Process and command line | run file, launchd job | start, stop, restart, install | who is the server of a directory | `GatewayService` |
| Projects, usage, terminals, voice | one store each | | see the modules | `Projects`, `UsageAccount`, `Terminals`, `VoiceInput` |
| Web console, Android app | what they show, cursors, drafts | clicks, streams, polls | handlers that go on after an await | `Workbench`, `WebConsole`, `Terminals`, `VoiceInput`, `WorkReview`, `AndroidApp`, `AndroidMonitor` |

How they interact: a gateway calls the Core API synchronously. The Core API
changes a status, appends to the thread store and calls
`SessionSupervisor.enqueue`, which calls back `#runTurnInternal`. Timers of the
scheduler and status changes of a browser runtime enter through
`Scheduler.fire` and `RuntimeManager.#onStatusChange`, and call the Core API
back (`onWake`, `onTriggersChanged`, `onBlocked`, `onRecovered`). All of them
share one map of sessions and write `session.status` themselves, which is why
`SessionCore` specifies them together. The other components meet the core
through calls whose answers they give once (a tool call, a permission, a model
call): each has a module of its own in which the core is whoever calls.

What makes each correct: the supervisor never runs too many turns or two of a
session, never wastes a slot and is fair; a session that is `running` has a
turn and one that is `sleeping` has a trigger; whoever takes a session out of
`running` also stops its turn; the end of an old turn does not undo what came
after it; accepted input is read by the model; every status follows the table;
a restart repairs what it cannot resume; calls and results stay paired; facts
survive compaction; and, around the core, that what was asked is answered once
and to the one who asked, that nothing is lost or destroyed unseen, that what
is over stays over, and that nobody waits for ever.

## The modules

`SessionCore` instantiates `SessionLifecycle` and `SessionSupervisor`, the two
abstract specifications that it is shown to implement. `MCEdges` extends
`SessionThread`, and `MCServices` extends `SessionSupervisor`; each also
instantiates the modules of the components that one of the runs is about, with
variables and constants of its own. The components there share no state in the
model, so a variable `focus`, chosen at the start, says which of them takes
steps while the others rest (`OthersRest`): a run visits the sum of their
state spaces and not the product, and one property may have a conjunct for
each of several components that make the same promise. Where two components do
interact, they are in one module (the console with its stream, the extension
with its bridge, tabs with terminals).

| Modules | |
|---|---|
| `MCSessionCore`, `MCOwnership` | values for TLC; a history variable: what blocked each session last |
| `MCEdges`, `MCServices` | the compositions |
| `SessionSupervisor_proofs`, `SessionCore_proofs`, `SessionThread_proofs`, `Edges_proofs`, `Console_proofs`, `Terminals_proofs`, `Services_proofs`, `Stores_proofs` | theorems |

The modules say which definition stands for which function by its name:
`StartTurns` and `DispatchOrBlock` are the code's `#drain` loop and
`dispatchTurn`, an action of a component is named for the method or handler it
models, and the guard of an action is the code's early return.

### Time

Node runs one synchronous block at a time. A *macrotask* (a request, a timer,
the answer of a provider, a runtime's status change) runs to its end; then the
promise continuations it caused (*microtasks*) run; then the next macrotask.
An action is a synchronous block, up to the next `await`. In `SessionCore`
actions that start a macrotask are guarded by `Quiet`: no microtask and no
loop is pending. There are two microtasks. `Unwind`: `raceAbort` rejects when
its signal is aborted, and the turn runs its `catch` and `finally`.
`ReleaseSlot`: the supervisor's `finally` frees the slot and drains. A
synchronous loop over sessions (`#blockAffectedSessions`,
`#recoverAffectedSessions`, `archiveProject`, the repair at start-up) is a
*sweep*, one step per session in any order, during which nothing else runs.
In the other modules every `await` is the end of an action, and whatever other
actors may do before the continuation is a step in between.

### State of the core

| Variable | Code |
|---|---|
| `status` | `session.status` |
| `unread` | user messages and trigger events of the thread that no model call has seen |
| `heldBy` | `#runtimeBlockedSessions`, turned round |
| `disk` | `thread.jsonl`: status, thread and block events at the last flush |
| `queue`, `active` | `#queue`, `#active` |
| `ctl` | `#turnControllers`: no entry, live, aborted |
| `turn` | where the turn is: awaiting under `raceAbort`, in `compact()` after tools or after the final answer, settled |
| `iteration` | the loop counter of `runTurn` |
| `trig` | absent, enabled, disabled |
| `online`, `attached` | runtimes that are online; their tabs' sessions |
| `ready` | the provider and the executor are set |
| `phase`, `bootRunning` | start-up, serving, stopping; `startupStatuses` |
| `sweep`, `todo` | the loop that runs, and what it has left |

`StartTurns` is the one place where a turn begins: the supervisor admits
sessions from the head of the queue, and each runs `#runTurnInternal` to its
first `await` in the same block. `DispatchOrBlock` is `dispatchTurn` with its
four answers (blocked for want of a provider, already active, already queued,
queued). `AbortScheduledTurn` dequeues and aborts. `EndTurn` and
`FinalizeAborted` are the ways out of a turn, and both look at the status
again before they change it.

An abort is noticed in two different ways. The provider call and the tools are
awaited under `raceAbort`, so their turn unwinds in the microtasks of the block
that aborted it. `compact()` is awaited bare (`agent-loop.ts:801`), and once
the headers of its response are in, `http-client.ts:70` has removed the abort
listener, so that the body is read to its end: requests can be served in
between. `Unwinding` and `CompactDone` keep the two apart.

`SessionThread` is one session seen closely: `thread` is the sequence of its
events (kind, number, branch, and of a result the number of its call), `turn`
is the live turn with the positions it remembers (`start` for
`#turnStarts`, `cursor` for `#turnEventCursors`: positions in the array, which a
compaction does not correct) and the batch of tool calls under way, `zombies`
are the tools that outlive their turn. `Compacted` replaces a prefix but keeps
structured facts; `Repaired` is what an abort and start-up append for calls
without results; `View` is what a branch shows and `buildContext` what the next
model call is sent of it: runs of calls (`Group`) with their results moved next
to them (`Answers`), or placeholders (`Pending`).

## The runs

| Run | Question | Instance | Result |
|---|---|---|---|
| `core_turns` | do requests, failures and compaction leave slots, input and statuses in order? | three sessions, two slots | holds: slots, typed state, refinement of `SessionSupervisor`, input read or dropped by the user, no starvation |
| `core_wakeups` | do triggers, runtimes and a missing provider strand a session? | two sessions, one slot, two triggers, one runtime, provider set or not | holds: `QueuedIsRunning`, `TurnAndStatusAgree` |
| `core_restart` | what does a restart repair? | one session, a trigger, a runtime, two iterations, one crash or orderly restart at any point | holds: `StatusIsRepaired`, the inductive invariant `CoreInv`, refinement of `SessionLifecycle` |
| `thread` | the thread, and each component at the edges | up to six events, two branches, batches of two calls, two blocks of the gate, one restart; the edges below | holds |
| `services` | the components around the core | below | holds |
| `stale_turn` | is an accepted message dispatched? | one session | **violated** |
| `setup_fault` | has a running session a turn if set-up throws? | one session | **violated** |
| `ownership` | does a runtime wake only what it blocked? | one session, one runtime | **violated** |
| `prompt_pairing` | is every call of every branch answered? | up to eight events | **violated** |
| `reply_push` | is what a turn appends pushed to the gateways? | up to eight events | **violated** |
| `subagent_restart` | is a subagent that is said to run running? | two subagents, one restart | **violated** |
| `extension_sources` | are the registry sources those of the user? | one source | **violated** |

What `thread` checks: `CallsAndResultsPair`, `ExclusiveRunsAlone`,
`FactsSurvive` (`SessionThread`), `KeysOpenOnce` (`Devices`),
`SessionsAreHoused` (`Projects`), `LateRequestsAreChecked` (`Gateway`),
`RunFileNamesTheCore` (`GatewayService`), `ClosedStaysClosed`
(`McpConnection`), `ConsoleIsFaithful` (`Terminals`, `VoiceInput`,
`Workbench`, `AndroidApp`, `WorkReview`), `WorkIsProven` (`WorkReview`), and
the types of all. What `services` checks: `NobodyWaitsInVain` (`Webridge`,
`Browser`), `NothingIsPassed` (`WebConsole`, `AndroidMonitor`), `PromotedOnce`
(`Maintenance`, `SkillSources`), `StoresAreWhole` (`SkillStore`,
`SkillSources`, `Extensions`, `MemoryStore`, `UsageAccount`), `NextIsFirstDue`
(`TriggerClock`), `SurfaceIsUsable` (`McpSurface`), `NoServerIsLost`
(`LanguageServers`), `EndsAreTold` (`WorkspaceEvidence`, `Subagents`),
`NoWorkIsLost` (`Worktrees`), `ReplyIsShownOnce` (`ModelCalls`),
`PermissionsHold` (`PermissionBroker`), `OverStaysOver` (`Webridge`,
`WorkspaceEvidence`), `AsksItsCaller` (`McpCalls`), `NothingUnreadIsLost`
(`FileEdits`), `SlotInv` and `FirstComeFirstServed` (`SessionSupervisor`, with
four sessions and two slots), and the liveness property `WaitingEnds`.

### Bounds

Three sessions over two slots is the least that has a full set of slots, a
queue and a choice of who is next; sessions are alike otherwise, which the
symmetry of the runs uses. The supervisor alone gets four, to have two who
wait behind two. Two sessions over one slot suffice for wake-ups; both triggers
belong to one of them so that one may be spent while the other is left.
Restarts concern one session each (the loops at start-up visit sessions
independently), and one restart exercises every image on disk. `MaxIterations`
is 1 or 2: an iteration more repeats the same step. `MaxRestarts` is not the
code's, and it also stops `Flush` when no restart can follow.

Six events are a user message, a batch of two calls with their results, and
one more (a notice, an answer, a second turn's message); two branches are the
fork and the main line. The two runs that end in a violation take eight.
The bounds of the components are in `MCEdges.cfg` and `MCServices.cfg`, and,
where no theorem speaks of them, in the `INSTANCE` of the composition: two of
everything that can be confused with another (devices, folders, sessions,
clients, commands, files, servers), three where one waits for a second and a
third could overtake (calls of an MCP server, process ids), and one
of every fault, retry or foreign change, because a second fault meets the same
states as the first. Counters that only bound a run are named `Max…` and stand
in the guards. `CHECK_DEADLOCK FALSE`: the system may really stop, when every
session is archived, or when the bounds are used up.

### Fairness

`core_turns`: microtasks and loops are weakly fair, since Node runs them. The
steps of a turn are strongly fair, because new requests may disable them again
and again (every request makes the loop busy for a moment) although the event
loop is FIFO. That a call ends at all is an assumption on the environment: the
providers limit the time to the headers to two minutes (`http-client.ts:30`),
tools and approvals have limits of their own, and a stalled body is cut off
only by the HTTP library's default.

`services`: weak fairness of the `Progress` of three components, which names
the steps that a timer or an answer of the other side brings about. A
permission request times out (`tool-policy.ts:1380`), a call of an MCP server
is answered or times out and the next one is taken, and the attempts of the
browser's reconnect loop end. Requests, failures and user actions have no
fairness.

### What the properties except

Some properties say when they may be broken, because the code breaks them:
`DroppedByUserOrStaleTurn` excepts the stale turn of `stale_turn`;
`RunningHasTurn` is checked without set-up faults in the passing runs;
`TurnAndStatusAgree` and `QueuedIsRunning` say what is true of a session that
was running on disk, was blocked and recovered by a flapping runtime *during*
start-up, and is then blocked by the repair loop under its new turn;
`LiveTurnHasReadUser` excepts messages marked for the turn after;
`CallsAreAnswered` speaks of threads in which no abort has left calls behind
(`NoCallIsForgotten` under Deviations says when one does). Properties
that the code does not satisfy and no run checks stand at the end of their
modules; they are listed under Deviations. Of these, five are the same promise
without its exception, and the checked property says no more than what is left:

| Checked | Excepts | Without the exception |
|---|---|---|
| `EndsAreTold` | the second end that the thread is told of a cancelled subagent; who asks is told the first | `OneEnd` |
| `AsksItsCaller` | questions for a call the client gave up on while the server went on | `AsksNobodyElse` |
| `NoWorkIsLost` | commits on a detached HEAD that moved on or whose tree is gone (the ghost `left`) | `NoCommitIsLost` |
| `RunFileNamesTheCore` | processes that had one directory at the same time (`beside`) | `EveryCoreIsNamed` |
| `NextIsFirstDue` | expressions that begin with a number, once fired; lists with repetitions that look full | `NextIsFirstDue` without these conjuncts, `FiresWhenDue` |

## What the violated runs show

* `stale_turn`: interrupt a turn that is compacting, and send a message before
  `compact()` returns. The message makes the session `running`; `dispatchTurn`
  answers `already_active` and queues nothing; then `#finalizeAbortedTurn`
  makes the session `idle`. The message stays unread until the next one.
* `setup_fault`: `#runTurnInternal` stores its controller before the `try`
  that would delete it. If the set-up throws (a dangling symbolic link in a
  skill directory makes `SkillCatalog.#scanDir` throw), the session is
  `running` without a turn and every dispatch answers `already_active`.
* `ownership`: a session that a runtime blocked, and the user retried, stays in
  the runtime's set. If the provider blocks it later, the runtime's next
  recovery wakes it.
* `prompt_pairing`: results that an interrupt or a restart writes carry no
  branch. The branch of the call lacks them, and the main branch shows a
  result without a call.
* `reply_push`: the `finally` of a turn deletes its event cursor before
  `#emitNewTurnEvents` asks for it, so what the last iteration appended, the
  reply among it, is not pushed.
* `subagent_restart`: the state file of a subagent that ran when the process
  ended says "running" for ever.
* `extension_sources`: `refreshSource` writes back the list it read before the
  download; a source removed meanwhile is there again.

## The proofs

All theorems hold for every value of the constants: any sessions, slots,
triggers, runtimes, devices, folders, files, commands, clients, and any bound
on iterations, restarts, events and attempts. TLC checked each inductive
invariant on a run before it was proved.

### The supervisor and the core

* `SlotsAreSafe`: the supervisor's `SlotInv`. It is inductive together with
  the type invariant, but `#drain` is called on a queue and a set of slots that
  do *not* satisfy it: one session more in the queue (`enqueue`), or one slot
  more (`finally`). `Drainable` names these states; the lemma `DrainRestores`
  says that draining one of them restores the invariant, and `AdmitsOne` that
  it starts at most one session, which is what makes the order provable.
* `QueueIsFair`: waiting sessions keep their order, and none is overtaken.
* `CoreIsTyped`, `SlotsAreHeldByTurns`: `active` is exactly the set of sessions
  whose turn has not been released. It is why `ReleaseSlot`, which the code
  guards by the promise of a turn, is the supervisor's `Release`, which is
  guarded by `s \in active`.
* `CoreImplementsSupervisor`: each step of the core maps to a step of
  `SessionSupervisor`, with `runnable` as the set of running sessions; hence
  `CoreSlotsAreSafe`.
* `CoreInvHolds`: the inductive invariant `CoreInv` of `SessionCore_proofs`,
  which is built in layers, each needing those before it. *Base*: types, and
  slots held by turns. *RunsInv*: a queued session is running, and a live
  controller belongs to a running session. This is inductive only with the
  exception of start-up, since rehydration blocks a session under a turn that
  a runtime's recovery has just begun; so it says what the repair loop still
  has to visit. *ServedInv*: a running session is queued, has a turn, or is
  still to be repaired. *SleeperIsArmed*: a sleeping session has an enabled
  trigger or is still to be repaired. *ReadInv*: a live turn has still to read
  what is unread. From it follow `QueuedSessionsRun`, `LiveTurnsRun`,
  `TurnsAndStatusesAgree`, `StatusesAreRepaired`, `LiveTurnsHaveRead`, and the
  action property `InputIsDroppedByUser`.
* `CoreImplementsLifecycle`: every step, the sweep of a restart included, moves
  each session along the table of `SessionLifecycle`.

`ServedInv`, and the theorems that rest on it, assume `SetupFaults = FALSE`:
with set-up faults the code violates them, which is what `setup_fault` shows.
The refinements do not need the assumption.

### The thread

`ThreadInv` of `SessionThread_proofs`: the thread is *sound* (uses are older
than what follows them, no two calls have one id, a result follows its call,
and a call has one result) and lies under `nextSeq`; the turn is typed, and
what is on disk was such a thread. `CallsAreAnsweredOnce` needs all of it,
because the repair looks only at what follows the start of a turn: that no
result lies before its call, and that no two calls share an id, is what makes
the look sufficient.

`CallsAndResultsArePaired` says what every model call is sent: each message with
tool calls is followed at once by one result for each of them, and no result
stands elsewhere. It has two halves.

* The thread: `ReplyInv` (`RepliesAlways`) says that every result has its call
  and that between a call and its result there are only calls written with it
  (`Ordered`); outside a batch every call has its result (`Complete`), and during
  one the thread is parted at a position `q` into answered calls and the calls of
  the batch (`OpenFrom`, `BatchIsOpen`); what is on disk is such a thread, parted
  somewhere, and complete unless it says "running". A compaction keeps this
  because `#findCompactionBoundary` does not leave a result without its call
  behind, and other writers (late tools, the user, the readiness gate) only
  append events that are neither calls nor results.
* The context: the events of a branch that shows both or neither of each call and
  its result are `Presentable` (`ShownIsPresentable`): calls written together have
  their results together. For such events the search of `buildContext` stops
  behind the results of the run and before any other (`SpanIs`), so a run is
  followed by its own results or by placeholders for all of it (`GroupIs`), and
  the groups make a pairing one after the other (`PairedJoin`). That the recursive
  function exists is `BuiltExists`; `ContextPairs` goes through it from the end.

Both hold until an abort has left calls of its turn behind, which the ghost
`forgotten` records (*Deviations*, `NoCallIsForgotten`); that a call has at most
one result holds always.

`BatchInv`, how the group of calls under way relates to its batch, gives
`ExclusiveToolsRunAlone`. `FactsAreNeverLost`: no step but a crash takes a
structured fact from the thread; compaction keeps them in their order.
`CompactInv` says what a compaction that is under way may assume of a thread
others still append to.

### The edges (`Edges_proofs`)

* `KeysAreOneTime`: a pairing code pairs at most one device and a stream token
  opens at most one stream, until the pair command overwrites what the gateway
  wrote meanwhile (`undone`: `auth.json` is read and written as a whole by both).
  The invariant: no two entries have one id, what is unused has opened nothing,
  and the code that the pair command is about to write is nobody's.
* `SessionsHaveProjects`: a session that is not archived has a project that is
  not, through deletions and restarts.
* `ClosedServersRest`: an MCP server that was disabled, removed or stopped has no
  timer to bring it back, whichever pings fail, transports close late or
  attempts are under way.
* `RunFilesNameTheCore`: a process that serves is named by its directory's run
  file, unless it had the directory at the same time as another, on whatever
  ports they listen. The invariant says that processes which are up together are
  marked so (`TogetherIsBeside`), that what a run file names has served
  (`NamedHasServed`), and that a command which waits for a process has told it to
  stop (`StopsTheClosing`), so that it clears no other's run file.
* `RequestsAreCheckedLate`: a request of the HTTP gateway acts on the session it
  finds when its body is there, not on the one it was sent for. It is an action
  property and needs no invariant: one step per action of `Gateway`, and each
  looks at the session again.
* `WorkStaysProven`: what is called done has its proof. `ReviewInv`: facts are only
  appended, receipts rest on what was there when they were written, and a todo is done
  on its list because the list before it says so, or for a receipt since. With a
  receipt of an item's id or of any text it had, this carries through lists that drop,
  reopen or reword it. That the gate and the warnings agree needs no invariant:
  they look for the latest fact of the same facts (`ReadyHolds`).

### The console (`Console_proofs`, `Terminals_proofs`)

`ConsoleStaysFaithful` proves `ConsoleIsFaithful`, for any number of terminals,
streams, handlers, recordings, desktops and facts. Each of its parts has an
inductive invariant of its own.

* Terminals: `ShellInv`. A tab shows no hole because whatever is still to arrive
  fits what it shows *now*, however many answers and streams overlap. `CoveredTo`:
  before a position, the tab has all that the server still keeps. `OpFits`: an
  operation asks for what follows a covered position, and the events it brings
  leave no gap to those shown (`FillsIn`). `FeedFits`: a stream that connects asks
  for what follows a covered position; one that is open has on its wire, in order,
  all from a covered position to the newest event. These stay true when a tab only
  gains events, or loses those the server has dropped too (`ShownStays`), and none
  of them is asked of a terminal that was deleted, whose answers may still come.
  `ShellHeld`: a terminal that is not deleted keeps its tab while a stream of it is
  there or on its way; without it an event that arrives with no tab would be lost
  and the next one would leave a hole. All of it holds until a late list has
  replaced tabs (`replaced`).
* Voice: `VoiceInv` says for each phase which microphones, timers and requests there
  may be (`IdlePhase`, `RecordingPhase`, `TranscribingPhase`), until two recordings
  overlap.
* Workbench: `BenchInv`. A handler and its message keep the session they began with
  (`KeptForHome`), and a text that is not doubtful is with one handler while it is under
  way, still in the composer, and not sent before (`OnItsWay`, `WasWritten`).
* The app: `AppInv`. Only the first task of the executor is under way, the last task is
  for what the user asked for last, and the fields are those of that desktop or of a
  deleted one (`LastIsChosen`, `OutcomeFits`, `ShownFits`).
* The review: `ReviewInv` and `ForkFits` (an edited branch begins behind what it shows of
  the main one), from which `ShowsHolds` follows without a further invariant: the
  console and the core look for the latest fact among the same facts.

### The services (`Services_proofs`, `Stores_proofs`)

* `RequestsAreResolvedOnce`: a permission request has one answer, and what the
  call did then stays (`BrokerInv`: a request is pending exactly while its
  call waits, and the answers given are those of calls that do not).
* `QuestionsReachTheirCaller`: calls of one server form a chain, and the active
  one is at its head (`ChainInv`). The server may still work on others, but only
  on calls that failed to the client (`WorkInv`), so a question for one that did
  not fail is asked while it is the active one.
* `ToolsDestroyTheKnown`: a file tool destroys what its session has seen or
  written, or the unseen rest of a long file that it read. `FileInv`: what the
  session remembers as current was at some time seen.
* `WorkIsSomewhere`: every commit and change made in a worktree is in a tree, on
  its detached HEAD or on a branch, unless the user agreed to its loss or a
  detached HEAD left it behind. Every step rewrites one tree (`Rewrites`), and
  what it takes from there is elsewhere (`TreesKeep`).
* `EndsAreAlwaysTold`: a shell command that nobody hears any more is reported,
  and a subagent that was cancelled is cancelled for whoever asks. `EvidenceInv`:
  what the thread was told of a task is what the task is. `AgentsInv` (`TaskOk`):
  between the end that runSubagent tells the thread and the callback that gives
  it to entry and file, a task is running or cancelled.
* `NobodyIsLeftWaiting`, `WhatIsOverStaysOver`: `BridgeInv`: a command is in one
  queue, run by one extension, or executed, once; wherever it is, its sender
  waits or has an outcome; a poll that is open has an empty queue. `WebInv`: no
  browser command goes by a connection that has closed.
* `AnswerIsShownOnce`: what was streamed to the session is the text of the
  answer, for every provider, retry and abort. `ModelInv`: before a body is read
  nothing of it was published, and while it is read exactly what was read; so a
  request may be sent again only by those who published nothing.
* `ServersAreOwned`: no language server runs that no client can stop. `Owned`: a
  client and its server know each other, and the client is the language's; what
  a client given up has spawned is killed. `Attached`: the operations under way
  use that client, or have yet to hear that it failed.
* `ProposalsArePromotedOnce`: a turn that was queued is in one place
  (`InOnePlace`: a job, a run, a pending proposal, or promoted), and one run at a
  time decides on proposals (`OneRun`); no session is told the same twice
  (`EventsInv`).
* `StreamsPassNothing`: what a connection of the console has delivered, and what
  is on its way, is a piece of the log without a gap (`ConsoleInv`: the cursor, and
  whatever a fetch brings, are events that happened). The record that the monitor's two
  threads, the user and the disk hold in copies: `MonitorInv` says of *each* copy
  that it has passed no reply that was not notified, so that it does not matter
  which of them is written last; of the stream that it holds the log after
  the event at work; and of that event that its copy still lets it be notified.

* `SurfaceStaysUsable`: an MCP server that is on has its way in, one that is off no
  tools. `SafeServer` says it of one server, as long as no two operations on it have
  overlapped, together with what makes it inductive: a list is fetched only with a
  server that is on and on which no operation waits, one operation waits at a time,
  and one that waits to switch a server off has done so in the configuration. A step
  with one server leaves of the others what they have (`Replaces`), since a name that
  is built is not one of those taken (`BuiltIsFree`). `#projectCachedTools` goes over
  the servers; what holds after all of them is proved by the least server of which it
  would not (`ProjectedExists`, `ProjectAllIs`).

Each of these has a lemma per action, and one that says that the other
components' steps leave its variables alone (`Steps`, `CommandSteps`, `StoreSteps`).

### Assumptions

`OwnerTyped`, `SubsetsTyped`, `BoundsTyped`, `SupervisorAssumptions` (a finite
set of sessions, at least one slot: the constructor takes `Math.max(1, n)`),
`ThreadAssumptions`, `EdgesAssumptions` (keys and folders have names of their
own; at least one check is looked at; a terminal keeps at least one event) and `ServicesAssumptions`: types of constants,
that a name is not "none",
that the home project is a project and the providers are those of the code, that
there are finitely many MCP servers and each offers finitely many tools, none of
which is called what the runtime calls its own. TLC evaluates them on every run.

### Only model-checked

* Liveness (`QueuedIsServed`, `RunningIsTransient`, `WaitingEnds`) and
  `ENABLED`: the prover has no rules for them.
* `NextIsFirstDue` (the search for the next minute) and the parts of
  `StoresAreWhole` that sum or sort: what a fold computes for every input needs
  an induction over data.
* `TypesOK`: not proved; the invariants above have the types they need.

## Deviations

Where the code does not do what a doc, a comment or its own intent says. The
seven that a run shows are under *What the violated runs show*. The following
were met while modelling. A name stands for a property at the end of its
module, which TLC finds violated but no run checks.

**Core and thread.**
* `archiveProject` archives a running session although the table has no such
  edge (the lifecycle has it as a step of its own).
* A runtime that blocks and recovers a session during start-up gives it a turn;
  rehydration then blocks the session under that turn, because it looks at the
  status and not at the queue, and the end of that turn may drop a message
  edited meanwhile.
* `NoCallIsForgotten`: `#turnStarts` holds the length of the thread when the turn
  began (`core-api.ts:1457`). A compaction inside the turn makes the thread
  shorter and leaves that number as it was, so an interrupt in a later iteration
  looks behind the calls that run (`core-api.ts:2419`) and writes no results for
  them, against `develop.md:164` and the architecture spec, lines 149 and 766.
  TLC finds it with `MaxSeq = 8`: a call is interrupted, the next turn calls a
  tool, compacts, calls another one and is interrupted. A context built now gets
  placeholders; but when the process dies in a batch of a later turn, the repair
  appends the missing result behind that batch, and the contexts after that
  have a tool message without a call. `#turnEventCursors` goes stale in the same
  way.
* `SummaryIsVisible`: after a compaction on one branch another branch lacks
  both the events and their summary (`core-api.ts:2264`, against the
  architecture spec, line 725).
* `read_file` answers "File unchanged since last read" (`read-file.ts:416`)
  also after a compaction took that reading away, and to subagents.
* `createTrigger` and `renameSession` act on a session deleted meanwhile; an
  archived project cannot be reopened; archived sessions of archived projects
  get a new home at a restart; `TurnsSeeTheirProject`: skills and MCP servers
  follow the project of the turn that started last.

**Triggers.** `FiresWhenDue`: after its first firing a cron expression such as
"30 8 * * *" is read by `parseInt` as an interval of 30 ms
(`scheduler.ts:232`), and fires again and again; a delay beyond 2^31-1 ms fires
at once. "1-5/2" is read as 1. A list with repetitions that has as many values
as there are days, such as "0,0,1,1,2,2,3" of the days of the week, counts as
unrestricted (`cron-parser.ts:136`). `NextIsFirstDue` excepts the first and the
last of these. A corrupt `triggers.json` reads as none.

**Model calls and usage.**
* `AttemptsAreBounded`: DeepSeek's own retries multiply those of
  `fetchWithRetry` (`http-client.ts:8` promises `maxRetries + 1`).
* Reading a body has no time limit; a stream that is cut off cleanly passes
  for a finished reply, and truncated tool arguments become `{}`.
* `PrefixChangesAreOwn`: subagents and compaction share the turn's tracked
  provider and `#cacheShapes` (against `develop.md:132`), and "context used" may
  be that of a subagent or of the compaction call. Ledger numbers are not
  monotone after a crash (`core-api.ts:2027`); the console's usage answers may
  come out of order; the cost uses the prices at the time of the answer.

**Memory and skills.**
* `NoMemoryIsLost`: `update()` removes the old file before it writes the new one
  (`memory-store.ts:352`). A crash between `store()` and `markProposal()`
  promotes a proposal twice, and so may one answer that names it twice.
* `DegradedRetries`: a degraded maintainer retries only with the next turn
  (`memory-manager.ts:259`, `:463`, against `develop.md:162`).
* `SkillsAreTheProjects`: dynamic sources are saved for ever; after a restart the
  project sources are those of the last project (`skill-store.ts:731`); a
  default source that was removed comes back; `removeSource` leaves the index;
  a second session is not told; enabling acts on the same name of all projects.
* `GitHubIsOneCommit` (`extension-manager.ts:687`); a registry's cache file is
  written before its signature is verified, and the key may come from the
  registry itself.
* A rollback activates a version quarantined meanwhile; an unsigned package
  with warnings shows "disabled" and can be enabled without `trustWarnings`; a
  crash between rename and save makes an unsigned package active. Two crashes
  there, of two versions and before any pointer is saved, make both active, and a
  skill of a project, a local or a legacy source is active beside the installed
  one of its name (`skill-store.ts:1055`): `SkillStore` has one crash and no such
  source.

**MCP.**
* `GivesUpOnTheDead`: the budget of attempts counts servers that were reached
  in between (`runtime-manager.ts:49`, `:530`, `:1361`; spec, line 425).
* `NoNameIsTaken`: two servers whose names read alike replace each other's
  tools, a tool named "connect" among them. A disable that waits for a close
  unregisters after the re-enable; a refresh under way registers tools of a
  server disabled or removed; `addServer`, `install` and `enable` of a
  connected server drop its tools while the connection stays; `forge mcp`
  edits `servers.json` unnoticed by the core. `connect()` after "failed" fails
  always.
* `AsksNobodyElse`: `callTool` clears `activeCall` at the timeout or the abort of
  a call (`runtime-manager.ts:598`), the server may go on, and what it asks then
  goes to the session of the next call (`:1263`), where the architecture spec,
  line 384, has the answer continue the call that asked.
* Extension candidates show as "enabled" from the lock although disabled or
  removed; an installation by URL is recorded as the entry it resembles;
  reinstalling switches an enabled server off.
* `auth.json` and `servers.json`: two processes lose each other's updates
  (`develop.md:168`).

**Tools.**
* `PartsUnlockNothing` (`develop.md:138`): reading the beginning of a long file
  unlocks the edit of all of it. Checkpoints above 512 KB are skipped.
* `ReadyIsVerified` (`design_principles.md:47`): a check that ran on older files
  counts when it ended after the change.
* `CancelStops`: a cancelled subagent goes on with the batch of calls it has.
* `OneEnd`: `runSubagent` tells the thread "completed" or "failed" by itself
  (`agent-task.ts:582`), before the callback looks at `cancelRequested` (`:690`),
  so the thread is told of a cancelled task (`:888`) that it has completed too.
* `DocumentIsOpen` (`language-server-manager.ts:158`): a request may reach a
  restarted server that does not have the document open.
* `NoCommitIsLost`: `merge_worktree` checks out any `target_branch`
  (`worktree-tools.ts:422`). A tag or a hash detaches HEAD; what is merged or
  committed there (`:499`) is on no branch, and is gone when the HEAD moves on or
  the clean tree is removed.
* Worktrees: a shared `node_modules` link shows as untracked, so that exit and
  merge refuse (`worktree-tools.ts:103`); a failed removal after a merge is
  reported as a failed merge; `commit_worktree` after a conflicted merge
  commits the markers; the branch of a resumed tree is not checked; between
  `git worktree remove` and `rmSync` the directory may be made anew; a
  `target_branch` that is a path makes `git checkout` drop its changes.
* Review: on an edited branch, activity, evidence and worktree forget what the
  parent branch did, while the console's fallback shows it; the project root
  of a branch ignores the parent's worktree; any failed activity keeps a review
  "not ready"; while a check runs the gate forgets that the one before failed;
  "Ready" stays after later changes; lists are cut at 10, 20 and 30 entries in
  different places, one of them sorted by id; references by number accept
  failed diagnostics and subagents, and checks older than later changes;
  manual evidence rests on the model's note; a todo without id gets a new one;
  one whose text changed stays completed; the prompt warns of changes to docs
  for which the gate is ready.

**Browser.** `OnlineHasClient` (`develop.md:222`): a runtime that is online may
have no client. `handleUnexpectedCdpDisconnect` of an old client drops the newer
one; commands have no time limit.

**Console.**
* `ReplayFillsTheGap` (spec, line 251): a fetched thread moves the cursor past
  events it does not contain, and `setThread` overwrites streamed ones.
* `ShownIsSelected`: `loadThread` does not look at the selection when its answer
  arrives late. The branch read after uploads may be another session's; an
  edit is not disabled while busy, and its end frees the composer although a
  session is still being made or deleted, so that a message can be sent twice; text typed while a message is on its way
  is dropped by `setDraft("")`; late lists select a session of the old project;
  `patchDeviceState` may come out of order; `deleteSession`'s jump overrides a
  selection; activity answers may come out of order.
* Terminals: a late snapshot makes the tab of a deleted terminal again, the late
  list of `openTerminal` replaces tabs, a restart with a late list gives two;
  two quick activations leak an `EventSource`; a reconnect reuses a one-time
  token; a tab says "running" after the exit.
* Voice: a second click while the microphone is awaited starts two recordings;
  a preview that was put off is never made; the branch for an empty recording is
  dead.
* REPL: `#streaming` is never reset; the project that `repl/main.ts:16` selects
  is undone by `loadSessions` (`core-api.ts:1991`).

**Android app.** While another desktop is opened or paired, the first one's page
still loading is given the second one's token; a replaced web view is never
destroyed, and its load error destroys the console shown meanwhile; a delete
during `resolve()` is undone by `upsert`; `PREF_ACTIVE` may name another desktop
than the one shown; an overtaken pairing leaves another `activeId`; stale copies
set `lastEventSeq` back.

**Process.** `EveryCoreIsNamed`: `start --port`, `HTTP_PORT` and `npm run http`
(`forgeagent.ts:126`) start a second core on another port of the same directory,
which nothing locks; its `writeRunState` (`app.ts:94`) overwrites the first one's,
and the end of either clears the file. A shutdown clears the run file of the
process that took the port; a second `start` loads and repairs the same directory before `listen` fails; a stop
of the launchd service is undone by `KeepAlive`; the Mac app takes any HTTP 200
for its core.

## What is abstracted or left out

* Time: a trigger of `SessionCore` may fire whenever it is enabled, a call may
  end at any time. `TriggerClock` counts minutes of a small calendar without
  daylight saving; `McpConnection` counts ticks of the longest backoff.
* Sessions of the core exist from the start and are saved; messages are
  dispatched (`dispatch: false` is for clients that call `/run` themselves,
  `RunSession`). The supervisor is always present (`app.ts:48`). Timers that
  fire before `loadSessions` find no session and do nothing.
* A write of a file is atomic, except where a module says otherwise
  (`SessionThread`: a crash may truncate the thread's file).
* A throw before the controller is stored ends the turn like a turn that finds
  the session not running; the missing-provider throws there cannot happen,
  since a provider is never taken away.
* The gate before a final answer also looks at failed activities and at the host
  checks of the project (`readiness.ts:116`). `WorkReview.Ready` has neither; the
  steps that use it may block without a reason of the model's, since both can only
  block more.
* Taken for granted of what is not in the repository: attaching to a browser
  ends; `launchctl bootout` returns when the process is gone; a stop's poll of
  100 ms is faster than a start; git refuses what it is documented to refuse;
  MCP servers answer or the SDK times out. `Browser.connect()` runs only at
  start-up.
* The wording of messages, wire formats, prices, rendering and layout.
* Not modelled: how the policy classifies a shell command or a path
  (`tool-policy.ts`, a pure function of hundreds of patterns: the models take
  the class as given); the notification hub and the system stream (synchronous
  fan-out without state); the scripts for end-to-end, soak and release tests;
  the index, search and ranking of the workspace, memory and extensions (pure
  functions of what is on disk); OAuth's protocol; the sandbox (a pure check of
  paths). `PROJECT.json` says for each component what of it is left out.

## Plan

Modelled and proved, in this order: the core with its two abstract
specifications, the thread, the edges, the services. What is left to prove:

1. The parts of `StoresAreWhole` that do not rest on folds: `Extensions`,
   `SkillStore`, `MemoryStore`.
