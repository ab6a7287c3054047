-------------------------- MODULE WorkspaceEvidence --------------------------
(***************************************************************************)
(* Shell commands and what they prove                                      *)
(* (src/tools/built-in/bash-tool.ts, shell-task-store.ts, task-kill.ts,    *)
(* verify-workspace.ts, src/workspace/readiness.ts).                       *)
(*                                                                         *)
(* A command runs in its call, or as a background task that outlives the   *)
(* call and the turn: started so, or moved there after 15 seconds.  Its    *)
(* end, its timeout, task_kill, the abort of its turn and a restart race.  *)
(* What the model and the final gate know of it is what the thread holds:  *)
(* the task's last status, the latest change and the latest check, by the  *)
(* order in which they were appended.                                      *)
(***************************************************************************)
EXTENDS Naturals

CONSTANTS
    Commands,  \* the commands that are run, each once
    Checks,    \* those that are tests, type checks or builds
    Writers    \* those that write files of the workspace

VARIABLES
    shell,     \* what is known of each command
    shellTask, \* #tasks: the status of its task in memory
    told,      \* the status in its last shell_task_event
    evidence,  \* the latest change and the latest check in the thread
    dirty,     \* git status shows a change
    verified   \* ghost: the latest passed check ran on the files as they are

evidenceVars == <<shell, shellTask, told, evidence, dirty, verified>>

Over == {"completed", "failed", "killed"}

\* proc "orphan": it runs, but no handler listens.  before: git status when it
\* began.  look: recordShellWorkspaceChanges has yet to read git status.
\* fresh (ghost): no file changed since it began.
NotStarted == [call |-> "none", proc |-> "none", by |-> "bash", turn |-> FALSE,
               late |-> FALSE, before |-> FALSE, look |-> FALSE, fresh |-> FALSE]

Init ==
    /\ shell = [c \in Commands |-> NotStarted]
    /\ shellTask = [c \in Commands |-> "none"]
    /\ told = [c \in Commands |-> "none"]
    /\ evidence = [changed |-> FALSE, check |-> "none", after |-> FALSE]
    /\ dirty \in BOOLEAN /\ verified = FALSE

Listens(c) == shell[c].proc \in {"alive", "dying"}
NoCallWaits == \A c \in Commands : shell[c].call # "waiting"

\* evaluateWorkspaceReadiness, for changes of code.
Ready ==
    /\ evidence.check # "failed"
    /\ evidence.changed => evidence.check = "passed" /\ evidence.after
    /\ \A c \in Commands : told[c] # "running"

\* The thread after a change and after a check: which of them is newer.
WithChange == [evidence EXCEPT !.changed = TRUE, !.after = FALSE]
WithCheck(status) == [evidence EXCEPT !.check = status, !.after = TRUE]

\* recordBashVerification: only what the command is for counts.
RecordCheck(c, status) ==
    IF c \in Checks
    THEN /\ evidence' = WithCheck(status)
         /\ verified' = (status = "passed" /\ shell[c].fresh)
    ELSE UNCHANGED <<evidence, verified>>

----------------------------------------------------------------------------

\* bash in the foreground, or with run_in_background: a task at once.
Start(c, background) ==
    /\ shell[c].proc = "none" /\ NoCallWaits
    /\ shell' = [shell EXCEPT ![c] =
           [NotStarted EXCEPT !.call = IF background THEN "answered" ELSE "waiting",
                              !.proc = "alive", !.turn = TRUE,
                              !.before = dirty, !.fresh = TRUE]]
    /\ IF background
       THEN /\ shellTask' = [shellTask EXCEPT ![c] = "running"]
            /\ told' = [told EXCEPT ![c] = "running"]
       ELSE UNCHANGED <<shellTask, told>>
    /\ UNCHANGED <<evidence, dirty, verified>>

\* verify_workspace: the check is in the thread as running from its start.
VerifyWorkspace(c) ==
    /\ c \in Checks /\ shell[c].proc = "none" /\ NoCallWaits
    /\ shell' = [shell EXCEPT ![c] =
           [NotStarted EXCEPT !.call = "waiting", !.proc = "alive", !.by = "verify",
                              !.turn = TRUE, !.before = dirty, !.fresh = TRUE]]
    /\ evidence' = WithCheck("running")
    /\ UNCHANGED <<shellTask, told, dirty, verified>>

\* moveToBackground: the call gets a task instead of an outcome.
MoveToBackground(c) ==
    /\ Listens(c) /\ shell[c].call = "waiting" /\ shell[c].by = "bash"
    /\ shell' = [shell EXCEPT ![c].call = "answered"]
    /\ shellTask' = [shellTask EXCEPT ![c] = "running"]
    /\ told' = [told EXCEPT ![c] = "running"]
    /\ UNCHANGED <<evidence, dirty, verified>>

\* The timeout sends SIGTERM and waits for the exit, whenever it comes.
TimesOut(c) ==
    /\ Listens(c) /\ ~shell[c].late
    /\ shell' = [shell EXCEPT ![c].late = TRUE, ![c].proc = "dying"]
    /\ UNCHANGED <<shellTask, told, evidence, dirty, verified>>

\* The exit handler; a process that was told to stop may still end as it likes.
Ended(c, exit) ==
    IF shell[c].late THEN "failed"
    ELSE [term |-> "killed", ok |-> "completed", bad |-> "failed"][exit]

ExitUntold(c, exit) ==
    /\ Listens(c)
    /\ exit = "term" => shell[c].proc = "dying"
    /\ shell' = [shell EXCEPT ![c].proc = "gone", ![c].call = "answered"]
    /\ RecordCheck(c, "failed")
    /\ UNCHANGED <<shellTask, told, dirty>>

Exit(c, exit) ==
    /\ Listens(c)
    /\ exit = "term" => shell[c].proc = "dying"
    /\ shell' = [shell EXCEPT ![c].proc = "gone", ![c].look = TRUE,
           ![c].call = IF shell[c].by = "verify" THEN @ ELSE "answered"]
    /\ IF shellTask[c] # "none"
       THEN /\ shellTask' = [shellTask EXCEPT ![c] = Ended(c, exit)]
            /\ told' = [told EXCEPT ![c] = Ended(c, exit)]
            /\ IF Ended(c, exit) = "killed" THEN UNCHANGED <<evidence, verified>>
               ELSE RecordCheck(c, IF Ended(c, exit) = "completed" THEN "passed"
                                   ELSE "failed")
       ELSE /\ RecordCheck(c, IF exit = "ok" /\ ~shell[c].late THEN "passed"
                              ELSE "failed")
            /\ UNCHANGED <<shellTask, told>>
    /\ UNCHANGED dirty

\* The turn is aborted: Node kills its commands and reports an error at once.
\* A task, and a check of verify_workspace, is recorded as failed.
Aborts(c) == Listens(c) /\ shell[c].turn

Abort ==
    /\ \E c \in Commands : Aborts(c)
    /\ shell' = [c \in Commands |->
           IF Aborts(c) THEN [shell[c] EXCEPT !.proc = "dying", !.call = "answered",
                                              !.turn = FALSE]
           ELSE shell[c]]
    /\ LET tasks == {c \in Commands : Aborts(c) /\ shellTask[c] # "none"}
           failed == {c \in Commands \cap Checks : Aborts(c)
                        /\ (c \in tasks \/ shell[c].by = "verify")}
       IN  /\ shellTask' = [c \in Commands |-> IF c \in tasks THEN "failed"
                                               ELSE shellTask[c]]
           /\ told' = [c \in Commands |-> IF c \in tasks THEN "failed" ELSE told[c]]
           /\ IF failed = {} THEN UNCHANGED <<evidence, verified>>
              ELSE evidence' = WithCheck("failed") /\ verified' = FALSE
    /\ UNCHANGED dirty

\* The turn ends: nobody can abort its tasks any more.
TurnEnds ==
    /\ NoCallWaits /\ \E c \in Commands : shell[c].turn
    /\ shell' = [c \in Commands |-> [shell[c] EXCEPT !.turn = FALSE]]
    /\ UNCHANGED <<shellTask, told, evidence, dirty, verified>>

\* recordShellWorkspaceChanges, after the exit: a file that git already showed
\* as changed shows nothing new.
ShellChanges(c) ==
    /\ shell[c].look
    /\ shell' = [shell EXCEPT ![c].look = FALSE, ![c].call = "answered"]
    /\ evidence' = IF dirty # shell[c].before THEN WithChange ELSE evidence
    /\ UNCHANGED <<shellTask, told, dirty, verified>>

\* task_kill: the task is killed for the record; the process has a SIGTERM.
TaskKill(c) ==
    /\ shellTask[c] = "running" /\ Listens(c) /\ NoCallWaits
    /\ shell' = [shell EXCEPT ![c].proc = "dying"]
    /\ shellTask' = [shellTask EXCEPT ![c] = "killed"]
    /\ told' = [told EXCEPT ![c] = "killed"]
    /\ UNCHANGED <<evidence, dirty, verified>>

\* The watchdog of a task whose output looks like a prompt.
StalledAlways(c) ==
    /\ shellTask[c] # "none" /\ Listens(c)
    /\ told' = [told EXCEPT ![c] = "running"]
    /\ UNCHANGED <<shell, shellTask, evidence, dirty, verified>>

Stalled(c) ==
    /\ shellTask[c] = "running" /\ Listens(c)
    /\ told' = [told EXCEPT ![c] = "running"]
    /\ UNCHANGED <<shell, shellTask, evidence, dirty, verified>>

\* The workspace changes: by an edit tool, which records it, or by a command.
FilesChange ==
    /\ dirty' = TRUE /\ verified' = FALSE
    /\ shell' = [c \in Commands |-> [shell[c] EXCEPT !.fresh = FALSE]]

Edit ==
    /\ NoCallWaits
    /\ FilesChange /\ evidence' = WithChange
    /\ UNCHANGED <<shellTask, told>>

Write(c) ==
    /\ c \in Writers /\ shell[c].proc \in {"alive", "dying", "orphan"}
    /\ FilesChange
    /\ UNCHANGED <<shellTask, told, evidence>>

\* The process restarts: commands run on, unheard; the thread is repaired
\* (#appendProcessRestartToolResults, #appendProcessRestartShellTaskEvents).
Restart ==
    /\ shell' = [c \in Commands |->
           [shell[c] EXCEPT !.turn = FALSE, !.look = FALSE,
                !.proc = IF Listens(c) THEN "orphan" ELSE @,
                !.call = IF @ = "waiting" THEN "answered" ELSE @]]
    /\ shellTask' = [c \in Commands |-> "none"]
    /\ told' = [c \in Commands |-> IF told[c] = "running" THEN "failed" ELSE told[c]]
    /\ UNCHANGED <<evidence, dirty, verified>>

Next ==
    \/ \E c \in Commands :
         \/ \E background \in BOOLEAN : Start(c, background)
         \/ \E exit \in {"ok", "bad", "term"} : Exit(c, exit)
         \/ VerifyWorkspace(c) \/ MoveToBackground(c) \/ TimesOut(c)
         \/ ShellChanges(c) \/ TaskKill(c) \/ Stalled(c) \/ Write(c)
    \/ Abort \/ TurnEnds \/ Edit \/ Restart

Spec == Init /\ [][Next]_evidenceVars

----------------------------------------------------------------------------

\* A command whose process nobody hears any more has been reported: its call is
\* answered once git status is read, and if it had become a task the thread
\* says that the task is over.  (bash-tool.ts: exit, error, timeout, abort and
\* the move to the background come in any order.)
EndedIsTold ==
    \A c \in Commands : shell[c].proc \in {"gone", "orphan"} /\ ~shell[c].look =>
        shell[c].call = "answered" /\ told[c] # "running"

\* A task that the thread calls over is never called running again: the gate
\* would wait for it.  (startStallWatchdog and task_kill race with the exit.)
OverStaysOver ==
    [][\A c \in Commands : told[c] \in Over => told'[c] \in Over]_evidenceVars

NothingToSee == \A c \in Commands : shell[c].look => dirty = shell[c].before

\* When the final gate lets an answer pass, and no git status still to be read
\* shows a change, the latest passed check has run on the files as they are.
\* (evaluateWorkspaceReadiness compares the position of the last change with
\* that of the end of the last check.)
\* The code does not satisfy it, and no run checks it: README, Deviations.
ReadyIsVerified ==
    Ready /\ evidence.changed /\ NothingToSee => verified
=============================================================================
