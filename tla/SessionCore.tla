---------------------------- MODULE SessionCore ----------------------------
(***************************************************************************)
(* The core of the agent server (core-api.ts): sessions, the dispatch of   *)
(* their turns through the supervisor, the triggers that wake them, the    *)
(* browser runtimes that block and recover them, interrupts, archiving,    *)
(* shutdown, crash and the repair after a restart.                         *)
(*                                                                         *)
(* Time is the event loop of one Node process.  A MACROTASK (an HTTP       *)
(* request, a timer, the answer of the provider, a status change of a      *)
(* runtime) runs its synchronous code to the end, then every promise       *)
(* continuation it caused runs (MICROTASKS), and only then the next        *)
(* macrotask.  Each action below is a synchronous block; a macrotask is     *)
(* guarded by Quiet.  A synchronous loop over sessions is unfolded into     *)
(* one step per session (a SWEEP), during which nothing else runs.         *)
(***************************************************************************)
EXTENDS Naturals, Sequences, FiniteSets

CONSTANTS Sessions,        \* sessions that exist and have a file on disk
          MaxConcurrent,   \* turns that may run at a time (initSupervisor)
          Triggers,        \* triggers that may be scheduled
          Owner,           \* the session of each trigger
          OneShot,         \* the triggers with recurring = false
          Runtimes,        \* browser runtimes of the RuntimeManager
          Project,         \* the sessions of a project that may be archived
          MaxIterations,   \* MAX_ITERATIONS of the agent loop
          SetupFaults,     \* may the set-up of a turn throw?
          ReadyAtStart,    \* may the provider be set, or missing, at the start?
          MaxRestarts      \* bound on crashes and orderly restarts

ASSUME OwnerTyped == Owner \in [Triggers -> Sessions]
ASSUME SubsetsTyped == OneShot \subseteq Triggers /\ Project \subseteq Sessions
ASSUME BoundsTyped == /\ ReadyAtStart \in SUBSET BOOLEAN
                      /\ MaxIterations \in Nat \ {0}
                      /\ MaxRestarts \in Nat
                      /\ SetupFaults \in BOOLEAN

VARIABLES
    status,     \* session.status
    unread,     \* kinds of input in the thread that no model call has seen
    heldBy,     \* #runtimeBlockedSessions, per session: the runtimes that blocked it
    disk,       \* per session: status, unread and heldBy at its last flush
    queue,      \* the supervisor's #queue
    active,     \* the supervisor's #active
    ctl,        \* #turnControllers: no entry, a live one, an aborted one
    turn,       \* where the turn that holds the session's slot stands
    iteration,  \* the iteration of the agent loop
    trig,       \* the scheduler's triggers
    online,     \* the runtimes whose status is "online"
    attached,   \* TabManager.getSessions() of each runtime
    ready,      \* are the model provider and the tool executor set?
    phase,      \* of the process: loading, syncing, up, stopping
    bootRunning,\* startupStatuses: the sessions that were running at startup
    sweep,      \* the synchronous loop that is running, or "none"
    todo,       \* the <<session, runtime>> pairs the loop has not reached yet
    restarts

threadVars == <<status, unread, heldBy>>
slotVars   == <<queue, active>>
turnVars   == <<ctl, turn, iteration>>
worldVars  == <<trig, online, attached, ready>>
bootVars   == <<phase, bootRunning, restarts>>
sweepVars  == <<sweep, todo>>

vars == <<threadVars, disk, slotVars, turnVars, worldVars, bootVars, sweepVars>>

Lifecycle == INSTANCE SessionLifecycle WITH saved <- [s \in Sessions |-> disk[s].status]
Supervisor == INSTANCE SessionSupervisor WITH
                  runnable <- {s \in Sessions : status[s] = "running"}

ASSUME SupervisorAssumptions == Supervisor!Assumptions

Status == Lifecycle!Status
Inputs == {"user", "trigger"}
Turns  == {"none",         \* no turn
           "raced",        \* awaits the provider or a tool under raceAbort
           "compactMid",   \* awaits compact() after tool calls
           "compactEnd",   \* awaits compact() after the final answer
           "settled"}      \* settled; the supervisor's `finally` is still to run

TypeOK ==
    /\ status \in [Sessions -> Status]
    /\ unread \in [Sessions -> SUBSET Inputs]
    /\ heldBy \in [Sessions -> SUBSET Runtimes]
    /\ disk \in [Sessions -> [status : Status, unread : SUBSET Inputs,
                              heldBy : SUBSET Runtimes]]
    /\ queue \in Seq(Sessions)
    /\ active \in SUBSET Sessions
    /\ ctl \in [Sessions -> {"none", "live", "aborted"}]
    /\ turn \in [Sessions -> Turns]
    /\ iteration \in [Sessions -> 0..(MaxIterations - 1)]
    /\ trig \in [Triggers -> {"absent", "on", "off"}]
    /\ online \in SUBSET Runtimes
    /\ attached \in [Runtimes -> SUBSET Sessions]
    /\ ready \in BOOLEAN
    /\ phase \in {"loading", "syncing", "up", "stopping"}
    /\ bootRunning \in SUBSET Sessions
    /\ sweep \in {"none", "block", "recover", "archive", "rehydrate"}
    /\ todo \in SUBSET (Sessions \X IF sweep \in {"block", "recover"} THEN Runtimes
                                                                      ELSE {"none"})
    /\ restarts \in 0..MaxRestarts

-----------------------------------------------------------------------------
(* The event loop.                                                         *)

\* An abort is noticed at once where the loop awaits under raceAbort; an
\* await of compact() only ends when the provider answers.
Unwinding(s) == turn[s] = "raced" /\ ctl[s] = "aborted"

Compacting(s) == turn[s] \in {"compactMid", "compactEnd"}

NoSweep == sweep = "none"

\* No promise continuation is pending: the next macrotask may run.
Quiet == NoSweep /\ \A s \in Sessions : ~Unwinding(s) /\ turn[s] # "settled"

Serving == phase \in {"up", "stopping"}

\* An HTTP request or a command of the user.
Request == Quiet /\ Serving

-----------------------------------------------------------------------------
(* Starting turns.                                                         *)

\* After a synchronous block has set the status and the thread to stat and
\* unr, the supervisor drains q into the slots a leaves free.  Each started
\* session runs #runTurnInternal up to its first await: the session must be
\* running and have no live controller, a controller is created, the turn is
\* set up (which may throw after the controller was stored) and the agent
\* loop reads the thread for its first model call.
StartTurns(stat, unr, ctlf, turnf, q, a) ==
    LET began   == Supervisor!Started(q, a)
        entered == {s \in began : stat[s] = "running" /\ ctlf[s] # "live"}
    IN  \E faulty \in SUBSET entered :
          /\ faulty # {} => SetupFaults
          /\ Supervisor!Drain(q, a)
          /\ status' = stat
          /\ ctl' = [s \in Sessions |-> IF s \in entered THEN "live" ELSE ctlf[s]]
          /\ turn' = [s \in Sessions |->
                         IF s \in entered \ faulty THEN "raced"
                         ELSE IF s \in began THEN "settled" ELSE turnf[s]]
          /\ unread' = [s \in Sessions |->
                           IF s \in entered \ faulty THEN {} ELSE unr[s]]
          /\ iteration' = [s \in Sessions |->
                              IF s \in began THEN 0 ELSE iteration[s]]

\* Mutant: a session whose aborted turn still holds the slot is queued.
DispatchableTwice(s) == ctl[s] # "live" /\ s \notin Supervisor!Queued

\* dispatchTurn() queues the turn unless one of the session is live, holds
\* a slot (even a turn that was aborted and has not unwound) or is queued.
Dispatchable(s) == ctl[s] # "live" /\ s \notin active /\ s \notin Supervisor!Queued

\* #dispatchOrBlock(s) for a session that stat has just made running.
DispatchOrBlock(s, stat, unr) ==
    \/ /\ ready
       /\ Dispatchable(s)
       /\ StartTurns(stat, unr, ctl, turn, Append(queue, s), active)
    \/ /\ ready
       /\ ~Dispatchable(s)
       /\ status' = stat
       /\ unread' = unr
       /\ UNCHANGED <<slotVars, turnVars>>
    \/ /\ ~ready
       /\ status' = [stat EXCEPT ![s] = Lifecycle!transition("running", "runtime_failure")]
       /\ unread' = unr
       /\ UNCHANGED <<slotVars, turnVars>>

\* Mutants: the controller is not aborted; the session is left in the queue.
AbortQueuedOnly(s) ==
    /\ Supervisor!Dequeue(s)
    /\ UNCHANGED turnVars

AbortRunningOnly(s) ==
    /\ ctl' = [ctl EXCEPT ![s] = IF @ = "live" THEN "aborted" ELSE @]
    /\ UNCHANGED <<slotVars, turn, iteration>>

\* #abortScheduledTurn(s): out of the queue, and abort the controller.
AbortScheduledTurn(s) ==
    /\ Supervisor!Dequeue(s)
    /\ ctl' = [ctl EXCEPT ![s] = IF @ = "live" THEN "aborted" ELSE @]
    /\ UNCHANGED <<turn, iteration>>

SetStatus(s, event) ==
    /\ event \in Lifecycle!validTransitions(status[s])
    /\ status' = [status EXCEPT ![s] = Lifecycle!transition(status[s], event)]

\* The session is woken: a transition to running, then #dispatchOrBlock.
Wake(s, event, unr) ==
    /\ event \in Lifecycle!validTransitions(status[s])
    /\ DispatchOrBlock(s, [status EXCEPT ![s] = Lifecycle!transition(status[s], event)], unr)

-----------------------------------------------------------------------------
(* Requests.                                                               *)

\* appendUserMessage(): an illegal transition throws before anything changes.
AppendUserMessage(s) ==
    /\ Request
    /\ Wake(s, IF status[s] = "waiting_user" THEN "user_reply" ELSE "user_message",
            [unread EXCEPT ![s] = @ \cup {"user"}])
    /\ UNCHANGED <<heldBy, disk, worldVars, bootVars, sweepVars>>

\* createMessageVariant(): an edited message, which also restarts a blocked
\* session.
CreateMessageVariant(s) ==
    /\ Request
    /\ status[s] \notin {"archived", "running"}
    /\ Wake(s, CASE status[s] = "blocked"      -> "user_retry"
                 [] status[s] = "waiting_user" -> "user_reply"
                 [] OTHER                      -> "user_message",
            [unread EXCEPT ![s] = @ \cup {"user"}])
    /\ UNCHANGED <<heldBy, disk, worldVars, bootVars, sweepVars>>

\* retryBlockedSession()
RetryBlockedSession(s) ==
    /\ Request
    /\ status[s] = "blocked"
    /\ Wake(s, "user_retry", unread)
    /\ UNCHANGED <<heldBy, disk, worldVars, bootVars, sweepVars>>

\* POST /sessions/:id/run: dispatchTurn() of a session that is running.
RunSession(s) ==
    /\ Request
    /\ status[s] = "running"
    /\ DispatchOrBlock(s, status, unread)
    /\ UNCHANGED <<heldBy, disk, worldVars, bootVars, sweepVars>>

\* interruptSession(): a no-op for an idle or archived session.
InterruptSession(s) ==
    /\ Request
    /\ status[s] \notin {"idle", "archived"}
    /\ AbortScheduledTurn(s)
    /\ SetStatus(s, "user_interrupt")
    /\ UNCHANGED <<unread, heldBy, disk, worldVars, bootVars, sweepVars>>

\* deleteSession(): user_archive, which a running session does not have.
DeleteSession(s) ==
    /\ Request
    /\ SetStatus(s, "user_archive")
    /\ UNCHANGED <<unread, heldBy, disk, slotVars, turnVars, worldVars, bootVars, sweepVars>>

\* archiveProject(): a synchronous loop over the project's sessions.
ArchiveProject ==
    /\ Request
    /\ \E s \in Project : status[s] # "archived"
    /\ sweep' = "archive"
    /\ todo' = Project \X {"none"}
    /\ UNCHANGED <<threadVars, disk, slotVars, turnVars, worldVars, bootVars>>

\* setModelProvider() / setToolExecutor()
SetProvider ==
    /\ Request
    /\ ~ready
    /\ ready' = TRUE
    /\ UNCHANGED <<threadVars, disk, slotVars, turnVars, trig, online, attached,
                   bootVars, sweepVars>>

-----------------------------------------------------------------------------
(* Triggers.                                                               *)

\* Mutant: a trigger that was cancelled, or has fired, still counts.
HasKnownTriggers(tr, s) == \E t \in Triggers : Owner[t] = s /\ tr[t] # "absent"

\* #hasEnabledTriggers(s), given the triggers tr.
HasEnabledTriggers(tr, s) == \E t \in Triggers : Owner[t] = s /\ tr[t] = "on"

\* #syncTriggerState(s), given the triggers tr.
Synced(tr, s) ==
    CASE status[s] = "idle" /\ HasEnabledTriggers(tr, s) ->
             Lifecycle!transition("idle", "trigger_scheduled")
      [] status[s] = "sleeping" /\ ~HasEnabledTriggers(tr, s) ->
             Lifecycle!transition("sleeping", "triggers_empty")
      [] OTHER -> status[s]

SyncTriggerState(t) ==
    /\ status' = [status EXCEPT ![Owner[t]] = Synced(trig', Owner[t])]
    /\ UNCHANGED <<unread, heldBy, disk, slotVars, turnVars, online, attached, ready,
                   bootVars, sweepVars>>

\* scheduleTrigger(), by a request or by a tool of a running turn.
ScheduleTrigger(t) ==
    /\ Request
    /\ trig[t] = "absent"
    /\ trig' = [trig EXCEPT ![t] = "on"]
    /\ SyncTriggerState(t)

\* cancelTrigger() keeps the trigger, disabled; deleteTrigger() forgets it.
CancelTrigger(t) ==
    /\ Request
    /\ trig[t] = "on"
    /\ trig' = [trig EXCEPT ![t] = "off"]
    /\ SyncTriggerState(t)

DeleteTrigger(t) ==
    /\ Request
    /\ trig[t] # "absent"
    /\ trig' = [trig EXCEPT ![t] = "absent"]
    /\ SyncTriggerState(t)

\* Scheduler.fire(): the event enters the thread; an idle or sleeping session
\* is woken; a one-shot trigger is disabled even when nothing was woken.  The
\* trailing onTriggersChanged finds the woken session neither idle nor
\* sleeping, and one that was not woken was neither before.
FireTrigger(t) ==
    LET s   == Owner[t]
        unr == [unread EXCEPT ![s] = @ \cup {"trigger"}]
    IN  /\ Quiet
        /\ trig[t] = "on"
        /\ trig' = IF t \in OneShot THEN [trig EXCEPT ![t] = "off"] ELSE trig
        /\ \/ /\ status[s] \in {"idle", "sleeping"}
              /\ Wake(s, "trigger_fired", unr)
           \/ /\ status[s] \notin {"idle", "sleeping"}
              /\ unread' = unr
              /\ UNCHANGED <<status, slotVars, turnVars>>
        /\ UNCHANGED <<heldBy, disk, online, attached, ready, bootVars, sweepVars>>

-----------------------------------------------------------------------------
(* The turn.                                                               *)

\* The turn of s waits for the provider or for a tool and may be answered.
Answerable(s) == Quiet /\ turn[s] = "raced" /\ ctl[s] = "live"

TurnFrame == UNCHANGED <<heldBy, disk, slotVars, worldVars, bootVars, sweepVars>>

\* Mutant: the supervisor's `finally` is missing.
SettleForEver(s) ==
    /\ turn' = [turn EXCEPT ![s] = "none"]
    /\ ctl' = [ctl EXCEPT ![s] = "none"]
    /\ UNCHANGED iteration

\* The promise of the turn of s settles; the `finally` of #runTurnInternal
\* has deleted the controller.
Settle(s) ==
    /\ turn' = [turn EXCEPT ![s] = "settled"]
    /\ ctl' = [ctl EXCEPT ![s] = "none"]
    /\ UNCHANGED iteration

\* Mutant: one iteration too many.
OneMoreIteration(s) ==
    /\ iteration[s] < MaxIterations
    /\ iteration' = [iteration EXCEPT ![s] = @ + 1]
    /\ unread' = [unread EXCEPT ![s] = {}]
    /\ turn' = [turn EXCEPT ![s] = "raced"]
    /\ UNCHANGED <<status, ctl>>

\* The next iteration reads the whole thread before it calls the provider.
NextIteration(s) ==
    /\ iteration[s] + 1 < MaxIterations
    /\ iteration' = [iteration EXCEPT ![s] = @ + 1]
    /\ unread' = [unread EXCEPT ![s] = {}]
    /\ turn' = [turn EXCEPT ![s] = "raced"]
    /\ UNCHANGED <<status, ctl>>

\* The statuses a turn may leave behind.  Every outcome is dropped unless the
\* session is still running.
EndTurn(s, event) ==
    /\ status' = IF status[s] = "running"
                 THEN [status EXCEPT ![s] = Lifecycle!transition("running", event)]
                 ELSE status
    /\ Settle(s)
    /\ UNCHANGED unread

\* outcome "turn_finished"
TurnFinished(s) ==
    EndTurn(s, IF HasEnabledTriggers(trig, s) THEN "agent_schedule_sleep"
                                              ELSE "turn_finished")

\* Mutant: a failure is logged, and the status left as it is.
FailureIgnored(s) == Settle(s) /\ UNCHANGED <<status, unread>>

\* outcome "tool_failure", and an error thrown by the loop: the provider
\* failed, an artifact could not be stored, too many iterations.
TurnFailed(s) == EndTurn(s, "runtime_failure")

\* The provider asked for tools, they returned, the loop goes round.
Iterate(s) == Answerable(s) /\ NextIteration(s) /\ TurnFrame

FinishTurn(s) == Answerable(s) /\ TurnFinished(s) /\ TurnFrame

\* ask_user
AskUser(s) == Answerable(s) /\ EndTurn(s, "agent_ask_user") /\ TurnFrame

FailTurn(s) == Answerable(s) /\ TurnFailed(s) /\ TurnFrame

\* The context is too large after the tools, or after the final answer.
Compact(s) ==
    /\ Answerable(s)
    /\ turn' = [turn EXCEPT ![s] = "compactMid"] \/ turn' = [turn EXCEPT ![s] = "compactEnd"]
    /\ UNCHANGED <<status, unread, ctl, iteration>>
    /\ TurnFrame

\* Mutants: an aborted turn makes its session idle whatever it is by now; it
\* leaves the status alone.
FinalizeAlways(s) ==
    /\ status' = [status EXCEPT ![s] = "idle"]
    /\ Settle(s)
    /\ UNCHANGED unread

FinalizeNever(s) == Settle(s) /\ UNCHANGED <<status, unread>>

\* #finalizeAbortedTurn: a session that is running by now is made idle.
FinalizeAborted(s) ==
    /\ status' = IF status[s] = "running"
                 THEN [status EXCEPT ![s] = Lifecycle!transition("running", "user_interrupt")]
                 ELSE status
    /\ Settle(s)
    /\ UNCHANGED unread

\* compact() has answered, or failed.
CompactDone(s) ==
    /\ Quiet
    /\ Compacting(s)
    /\ \/ /\ ctl[s] = "aborted"
          /\ FinalizeAborted(s)
       \/ /\ ctl[s] # "aborted"
          /\ turn[s] = "compactEnd"
          /\ TurnFinished(s) \/ TurnFailed(s)
       \/ /\ ctl[s] # "aborted"
          /\ turn[s] = "compactMid"
          /\ NextIteration(s) \/ TurnFailed(s)
    /\ TurnFrame

\* A browser tool attaches the session to a tab, or lets go of it.  A tool is
\* not cancelled when its turn is: it may do so after the turn has ended.
Attach(s, r) ==
    /\ Quiet
    /\ r \in online
    /\ attached' = [attached EXCEPT ![r] = IF s \in @ THEN @ \ {s} ELSE @ \cup {s}]
    /\ UNCHANGED <<threadVars, disk, slotVars, turnVars, trig, online, ready,
                   bootVars, sweepVars>>

\* Microtask: raceAbort rejects, and the loop unwinds to its end.
Unwind(s) ==
    /\ NoSweep
    /\ Unwinding(s)
    /\ FinalizeAborted(s)
    /\ TurnFrame

\* Mutant: the slot is freed and nobody is told.
ReleaseSlotOnly(s) ==
    /\ NoSweep
    /\ turn[s] = "settled"
    /\ turn' = [turn EXCEPT ![s] = "none"]
    /\ active' = active \ {s}
    /\ UNCHANGED <<queue, threadVars, disk, ctl, iteration, worldVars, bootVars, sweepVars>>

\* Microtask: the supervisor's `finally` frees the slot and drains.
ReleaseSlot(s) ==
    /\ NoSweep
    /\ turn[s] = "settled"
    /\ StartTurns(status, unread, ctl, [turn EXCEPT ![s] = "none"], queue, active \ {s})
    /\ UNCHANGED <<heldBy, disk, worldVars, bootVars, sweepVars>>

-----------------------------------------------------------------------------
(* Runtimes, and the loops over sessions.                                  *)

\* A runtime leaves "online": #blockAffectedSessions over the sessions that
\* are attached to one of its tabs.
RuntimeDown(r) ==
    /\ Quiet
    /\ r \in online
    /\ online' = online \ {r}
    /\ sweep' = "block"
    /\ todo' = attached[r] \X {r}
    /\ UNCHANGED <<threadVars, disk, slotVars, turnVars, trig, attached, ready, bootVars>>

\* The sessions that #recoverAffectedSessions may wake; those that are only
\* attached get a message.
HeldPairs(rs) == {p \in Sessions \X rs : p[2] \in heldBy[p[1]]}

RuntimeUp(r) ==
    /\ Quiet
    /\ r \notin online
    /\ online' = online \cup {r}
    /\ sweep' = "recover"
    /\ todo' = HeldPairs({r})
    /\ UNCHANGED <<threadVars, disk, slotVars, turnVars, trig, attached, ready, bootVars>>

SweepOver(kind, p) ==
    /\ sweep = kind
    /\ p \in todo
    /\ todo' = todo \ {p}
    /\ UNCHANGED <<sweep, disk, worldVars, bootVars>>

\* Only a running session is blocked, and owned by the runtime from then on.
BlockStep(p) ==
    LET s == p[1] IN
    /\ SweepOver("block", p)
    /\ IF status[s] = "running"
       THEN /\ AbortScheduledTurn(s)
            /\ SetStatus(s, "runtime_failure")
            /\ heldBy' = [heldBy EXCEPT ![s] = @ \cup {p[2]}]
            /\ UNCHANGED unread
       ELSE UNCHANGED <<threadVars, slotVars, turnVars>>

\* Mutant: an owned session is woken whatever its status is by now.
RecoverAny(p) ==
    /\ SweepOver("recover", p)
    /\ heldBy' = [heldBy EXCEPT ![p[1]] = @ \ {p[2]}]
    /\ DispatchOrBlock(p[1], [status EXCEPT ![p[1]] = "running"], unread)

\* Only a blocked session is woken; one that is not stays owned.
RecoverStep(p) ==
    LET s == p[1] IN
    /\ SweepOver("recover", p)
    /\ IF status[s] = "blocked"
       THEN /\ heldBy' = [heldBy EXCEPT ![s] = @ \ {p[2]}]
            /\ Wake(s, "runtime_recovered", unread)
       ELSE UNCHANGED <<threadVars, slotVars, turnVars>>

\* archiveProject() writes "archived" over any status.
ArchiveStep(p) ==
    LET s == p[1] IN
    /\ SweepOver("archive", p)
    /\ IF status[s] = "running" THEN AbortScheduledTurn(s)
                                ELSE UNCHANGED <<slotVars, turnVars>>
    /\ status' = [status EXCEPT ![s] = "archived"]
    /\ UNCHANGED <<unread, heldBy>>

\* Mutants: interrupted turns are not repaired; triggers are not compared with
\* the status on disk.
RehydrateTriggersOnly(p) ==
    /\ SweepOver("rehydrate", p)
    /\ status' = [status EXCEPT ![p[1]] = Synced(trig, p[1])]
    /\ UNCHANGED <<unread, heldBy, slotVars, turnVars>>

RehydrateTurnsOnly(p) ==
    /\ SweepOver("rehydrate", p)
    /\ status' = [status EXCEPT ![p[1]] =
                     IF @ = "running" /\ p[1] \in bootRunning THEN "blocked" ELSE @]
    /\ UNCHANGED <<unread, heldBy, slotVars, turnVars>>

\* rehydrateAfterStartup(): a session that was running when the process
\* started, and is running, was interrupted by the restart.
RehydrateStep(p) ==
    LET s == p[1] IN
    /\ SweepOver("rehydrate", p)
    /\ status' = [status EXCEPT ![s] =
                     IF @ = "running" /\ s \in bootRunning
                     THEN Lifecycle!transition("running", "runtime_failure")
                     ELSE Synced(trig, s)]
    /\ UNCHANGED <<unread, heldBy, slotVars, turnVars>>

SweepStep ==
    \E p \in todo : BlockStep(p) \/ RecoverStep(p) \/ ArchiveStep(p) \/ RehydrateStep(p)

EndSweep ==
    /\ sweep # "none"
    /\ todo = {}
    /\ sweep' = "none"
    /\ phase' = IF sweep = "rehydrate" THEN "up" ELSE phase
    /\ UNCHANGED <<todo, threadVars, disk, slotVars, turnVars, worldVars,
                   bootRunning, restarts>>

-----------------------------------------------------------------------------
(* The process.                                                            *)

Image(s) == [status |-> status[s], unread |-> unread[s], heldBy |-> heldBy[s]]

\* The debounced flush of the thread store; it matters only if a restart may
\* still come.
Flush ==
    /\ Quiet
    /\ restarts < MaxRestarts
    /\ disk' = [s \in Sessions |-> Image(s)]
    /\ disk' # disk
    /\ UNCHANGED <<threadVars, slotVars, turnVars, worldVars, bootVars, sweepVars>>

\* A new process, from the image img on disk.  triggers.json is written by
\* every change of a trigger, and loadTriggers() skips the disabled ones.
\* Which runtimes connect, and which attachments can be restored, depends on
\* the browser.
StartProcess(img) ==
    /\ restarts < MaxRestarts
    /\ restarts' = restarts + 1
    /\ disk' = img
    /\ status' = [s \in Sessions |-> img[s].status]
    /\ unread' = [s \in Sessions |-> img[s].unread]
    /\ heldBy' = [s \in Sessions |-> img[s].heldBy]
    /\ Supervisor!Reset
    /\ ctl' = [s \in Sessions |-> "none"]
    /\ turn' = [s \in Sessions |-> "none"]
    /\ iteration' = [s \in Sessions |-> 0]
    /\ trig' = [t \in Triggers |-> IF trig[t] = "on" THEN "on" ELSE "absent"]
    /\ online' \in SUBSET Runtimes
    /\ attached' \in [Runtimes -> SUBSET Sessions]
    /\ ready' \in ReadyAtStart
    /\ phase' = "loading"
    /\ bootRunning' = {s \in Sessions : img[s].status = "running"}
    /\ sweep' = "none"
    /\ todo' = {}

Crash == StartProcess(disk)

\* shutdown(): the scheduler and the supervisor stop, and every turn is
\* aborted.  The server still answers while the turns unwind.
Shutdown ==
    /\ Quiet
    /\ phase = "up"
    /\ restarts < MaxRestarts
    /\ phase' = "stopping"
    /\ Supervisor!Stop
    /\ ctl' = [s \in Sessions |-> IF ctl[s] = "live" THEN "aborted" ELSE ctl[s]]
    /\ UNCHANGED <<threadVars, disk, turn, iteration, worldVars, bootRunning, restarts,
                   sweepVars>>

\* The turns have unwound, or five seconds have passed: flush and exit.
Exit ==
    /\ Quiet
    /\ phase = "stopping"
    /\ StartProcess([s \in Sessions |-> Image(s)])

\* rehydrateFromThreads() has restored the attachments: every runtime that is
\* online recovers its sessions.
BootRecover ==
    /\ Quiet
    /\ phase = "loading"
    /\ phase' = "syncing"
    /\ sweep' = "recover"
    /\ todo' = HeldPairs(online)
    /\ UNCHANGED <<threadVars, disk, slotVars, turnVars, worldVars, bootRunning, restarts>>

\* The MCP servers, the memory and the skills are ready: the loops at the end
\* of rehydrateAfterStartup() run, and then the server starts to listen.
BootRehydrate ==
    /\ Quiet
    /\ phase = "syncing"
    /\ sweep' = "rehydrate"
    /\ todo' = Sessions \X {"none"}
    /\ UNCHANGED <<threadVars, disk, slotVars, turnVars, worldVars, bootVars>>

-----------------------------------------------------------------------------

Init ==
    /\ status = [s \in Sessions |-> "idle"]
    /\ unread = [s \in Sessions |-> {}]
    /\ heldBy = [s \in Sessions |-> {}]
    /\ disk = [s \in Sessions |-> Image(s)]
    /\ queue = <<>>
    /\ active = {}
    /\ ctl = [s \in Sessions |-> "none"]
    /\ turn = [s \in Sessions |-> "none"]
    /\ iteration = [s \in Sessions |-> 0]
    /\ trig = [t \in Triggers |-> "absent"]
    /\ online \in {{}, Runtimes}
    /\ attached = [r \in Runtimes |-> {}]
    /\ ready \in ReadyAtStart
    /\ phase = "up"
    /\ bootRunning = {}
    /\ sweep = "none"
    /\ todo = {}
    /\ restarts = 0

RequestOf(s) ==
    \/ AppendUserMessage(s)
    \/ CreateMessageVariant(s)
    \/ RetryBlockedSession(s)
    \/ RunSession(s)
    \/ InterruptSession(s)
    \/ DeleteSession(s)

TriggerStep(t) ==
    \/ ScheduleTrigger(t)
    \/ CancelTrigger(t)
    \/ DeleteTrigger(t)
    \/ FireTrigger(t)

\* The provider, a tool or the compaction answers.
TurnStep(s) ==
    \/ Iterate(s)
    \/ FinishTurn(s)
    \/ AskUser(s)
    \/ FailTurn(s)
    \/ Compact(s)
    \/ CompactDone(s)

Microtask(s) == Unwind(s) \/ ReleaseSlot(s)

RuntimeStep(r) ==
    \/ RuntimeDown(r)
    \/ RuntimeUp(r)
    \/ \E s \in Sessions : Attach(s, r)

Boot == BootRecover \/ BootRehydrate

Next ==
    \/ \E s \in Sessions : RequestOf(s) \/ TurnStep(s) \/ Microtask(s)
    \/ \E t \in Triggers : TriggerStep(t)
    \/ \E r \in Runtimes : RuntimeStep(r)
    \/ ArchiveProject
    \/ SetProvider
    \/ SweepStep
    \/ EndSweep
    \/ Flush
    \/ Crash
    \/ Shutdown
    \/ Exit
    \/ Boot

Spec == Init /\ [][Next]_vars

\* Synchronous code and promise continuations run.  A call of the provider, of
\* a tool or of compact() that is not aborted ends (requests and approvals have
\* time limits), and the event loop, being FIFO, gets to it however busy it is.
\* A start-up and a shutdown come to their end.
Fairness ==
    /\ \A s \in Sessions : WF_vars(Microtask(s)) /\ SF_vars(TurnStep(s))
    /\ WF_vars(SweepStep)
    /\ WF_vars(EndSweep)
    /\ SF_vars(Boot)
    /\ SF_vars(Exit)

FairSpec == Spec /\ Fairness

-----------------------------------------------------------------------------
(* What the core promises.                                                 *)

\* The supervisor is used as SessionSupervisor describes it: no other part of
\* the core makes a queued session unrunnable, frees a slot or starts a turn
\* beside the queue (core-api.ts, dispatchTurn, #abortScheduledTurn).
SupervisorSpec == Supervisor!Spec

\* Every status follows the transition table; only archiveProject and a
\* restart step outside it (core-api.ts and runtime-manager.ts, every
\* assignment to session.status).
LifecycleSpec == Lifecycle!Spec

\* A slot is held from the start of a turn until the supervisor's `finally`,
\* through aborts, failures and compaction: it never leaks, and is never given
\* away while the turn still runs.
SlotHeldByTurn == active = {s \in Sessions : turn[s] # "none"}

\* Every waiting session is still running: interrupting, blocking or
\* archiving it takes it out of the queue first.  (See LiveTurnIsRunning for
\* the exception.)
QueuedIsRunning ==
    \A s \in Supervisor!Queued : status[s] = "running" \/ s \in bootRunning

\* A turn that can still act on the world belongs to a running session: an
\* interrupt, a block or an archive always reaches the controller.  The one
\* exception is a session that a runtime blocked and recovered during a
\* start-up, which the repair after the restart blocks under its new turn.
LiveTurnIsRunning ==
    \A s \in Sessions : ctl[s] = "live" => status[s] = "running" \/ s \in bootRunning

\* No session is stranded: once the server is up, each running session waits
\* in the queue or holds a slot.
RunningHasTurn ==
    (phase = "up" /\ Quiet) =>
        \A s \in Sessions : status[s] = "running" => s \in active \cup Supervisor!Queued

\* A turn that is not aborted and the status of its session agree, whatever woke,
\* blocked or interrupted the session (core-api.ts, #dispatchOrBlock,
\* #runTurnInternal).
TurnAndStatusAgree == LiveTurnIsRunning /\ RunningHasTurn

\* A turn that may still answer has shown the user's input to the model, whoever else
\* writes to the session meanwhile.  The exception is that of LiveTurnIsRunning: the
\* user may edit a message of a session that was blocked under its turn.
LiveTurnHasReadUser ==
    \A s \in active : ctl[s] = "live" => "user" \notin unread[s] \/ s \in bootRunning

\* A sleeping session has a trigger to wait for, whatever the order of
\* firing, cancelling, interrupting and restarting.
SleepingHasTrigger ==
    (phase = "up" /\ NoSweep) =>
        \A s \in Sessions : status[s] = "sleeping" =>
            \E t \in Triggers : Owner[t] = s /\ trig[t] = "on"

\* A restart leaves no status that nothing will ever change: running without a turn,
\* or sleeping without a trigger (core-api.ts, rehydrateAfterStartup).
StatusIsRepaired == RunningHasTurn /\ SleepingHasTrigger

\* Input of the user is dropped only by the user or by a restart, with two exceptions:
\* the unwinding of an aborted turn that was compacting, and a turn that goes on under
\* the repair after a restart (LiveTurnHasReadUser).
DroppedByUserOrStaleTurn ==
    [][\A s \in Sessions :
          ("user" \in unread[s] /\ status[s] = "running" /\ status'[s] = "idle")
              => \/ InterruptSession(s)
                 \/ Compacting(s) /\ ctl[s] = "aborted"
                 \/ s \in bootRunning
                 \/ restarts' # restarts]_vars

\* forge_agent_v_2_architecture_spec.md: appendUserMessage() makes the session
\* running and dispatches it.  An accepted message is dropped only by the user.
MessageIsDispatched ==
    [][\A s \in Sessions :
          ("user" \in unread[s] /\ status[s] = "running" /\ status'[s] = "idle")
              => InterruptSession(s)]_vars

\* A session in the queue gets out of it: turns end, and their slots are
\* handed on.
QueuedIsServed == \A s \in Sessions : s \in Supervisor!Queued ~> s \notin Supervisor!Queued

\* "running" is transient: no interleaving leaves a session running for ever.
RunningIsTransient == \A s \in Sessions : status[s] = "running" ~> status[s] # "running"

-----------------------------------------------------------------------------
(* Why it holds: the parts of an inductive invariant.                      *)

\* Without a provider nothing is queued, and no turn is live (#dispatchOrBlock).
UnreadyRests == ~ready => Supervisor!Queued = {} /\ \A s \in Sessions : ctl[s] # "live"

\* A turn has a controller while it awaits something, and no longer: the `finally` of
\* #runTurnInternal deletes it.
TurnsAreControlled ==
    \A s \in Sessions : ctl[s] # "none" <=> turn[s] = "raced" \/ Compacting(s)

\* A turn that has settled has taken its session out of "running" ...
SettledIsOver == \A s \in Sessions : turn[s] = "settled" => status[s] # "running"

\* ... and its slot is released before a loop over sessions may wake it again.
SweepsMeetNoSettled == sweep # "none" => \A s \in Sessions : turn[s] # "settled"

\* The repair runs at the end of the start-up, ...
RepairsAtBoot == sweep = "rehydrate" => phase = "syncing"

\* ... and s is still to be repaired until it has reached s.
Unrepaired(s) ==
    \/ phase = "loading"
    \/ phase = "syncing" /\ (sweep = "rehydrate" => <<s, "none">> \in todo)

\* RunningHasTurn, between the macrotasks and during the start-up.
NobodyStranded ==
    phase # "stopping" =>
        \A s \in Sessions : status[s] = "running" =>
            s \in active \cup Supervisor!Queued \/ (s \in bootRunning /\ Unrepaired(s))

\* SleepingHasTrigger, during the start-up.
SleeperIsArmed ==
    \A s \in Sessions : status[s] = "sleeping" =>
        HasEnabledTriggers(trig, s) \/ Unrepaired(s)

\* An aborted turn that unwinds under a running session, at a shutdown, had read the
\* user's input.
UnwindingHasReadUser ==
    \A s \in Sessions : Unwinding(s) /\ status[s] = "running" =>
        "user" \notin unread[s] \/ s \in bootRunning

\* A session is not woken before its aborted turn has unwound.
WakesMeetNoUnwinding ==
    sweep \in {"recover", "rehydrate"} => \A s \in Sessions : ~Unwinding(s)

\* Together: what every reachable state satisfies, and every step preserves.
CoreInv ==
    /\ QueuedIsRunning /\ LiveTurnIsRunning /\ UnreadyRests
    /\ TurnsAreControlled /\ SettledIsOver /\ SweepsMeetNoSettled
    /\ RepairsAtBoot /\ NobodyStranded /\ SleeperIsArmed
    /\ LiveTurnHasReadUser /\ UnwindingHasReadUser /\ WakesMeetNoUnwinding

=============================================================================
