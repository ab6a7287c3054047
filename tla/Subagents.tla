------------------------------ MODULE Subagents ------------------------------
(***************************************************************************)
(* Background subagents (agent_task with run_in_background): each is a     *)
(* loop of model calls and tool calls beside the turn that started it,     *)
(* known by an entry in memory and by a state file that survives the       *)
(* process; agent_task_cancel can come at any time.                        *)
(***************************************************************************)
EXTENDS Naturals, FiniteSets

CONSTANTS Tasks,
          MaxEntries, \* MAX_BACKGROUND_TASKS, the finished tasks kept in memory
          MaxRounds,  \* MAX_TOOL_ROUNDS, the model calls that may ask for tools
          MaxCalls,   \* bound on the tool calls of one answer
          MaxDeaths   \* bound on restarts

VARIABLES
    agent,    \* the entry of each task in BACKGROUND_SUBAGENT_TASKS, its status or "none"
    taskFile, \* the status in each task's state file, or "none"
    cancel,   \* the tasks whose entry has cancelRequested
    work,     \* runSubagent of each task: the tool calls left and the rounds made
    ends,     \* the ends of each task that the thread was told
    deaths

agentVars == <<agent, taskFile, cancel, work, ends, deaths>>

Terminal == {"completed", "failed", "cancelled"}

\* at is "model" in a model call, "tool" in a tool call, and what runSubagent has
\* returned, "completed" or "failed", until the task's callback runs.
NotRunning == [at |-> "none", left |-> 0, round |-> 0]
Alive(k) == work[k].at # "none"

Init ==
    /\ agent = [k \in Tasks |-> "none"]
    /\ taskFile = [k \in Tasks |-> "none"]
    /\ cancel = {}
    /\ work = [k \in Tasks |-> NotRunning]
    /\ ends = [k \in Tasks |-> {}]
    /\ deaths = 0

-----------------------------------------------------------------------------
\* What agent_task_output and agent_task_cancel find: the entry, else the file.
Status(k) == IF agent[k] # "none" THEN agent[k] ELSE taskFile[k]

\* The finished entries, oldest first, that make the map too large.
Pruned(entries) ==
    LET held == {k \in Tasks : entries[k] # "none"}
        finished == {k \in held : entries[k] # "running"}
        excess == IF Cardinality(held) > MaxEntries THEN Cardinality(held) - MaxEntries ELSE 0
    IN  {F \in SUBSET finished :
            Cardinality(F) = IF excess < Cardinality(finished) THEN excess
                                                               ELSE Cardinality(finished)}

Start(k) ==
    /\ taskFile[k] = "none"
    /\ LET entries == [agent EXCEPT ![k] = "running"]
       IN  \E F \in Pruned(entries) :
               agent' = [j \in Tasks |-> IF j \in F THEN "none" ELSE entries[j]]
    /\ taskFile' = [taskFile EXCEPT ![k] = "running"]
    /\ work' = [work EXCEPT ![k] = [at |-> "model", left |-> 0, round |-> 0]]
    /\ UNCHANGED <<cancel, ends, deaths>>

\* The entry of a live task gets its last status, on disk and in the thread too.
Ends(k, status) ==
    /\ agent' = [agent EXCEPT ![k] = IF @ = "none" THEN @ ELSE status]
    /\ taskFile' = [taskFile EXCEPT ![k] = status]
    /\ ends' = [ends EXCEPT ![k] = @ \cup {status}]

\* Mutant: what comes too late counts.
ReturnsLate(k) ==
    /\ work[k].at \in {"completed", "failed"}
    /\ work' = [work EXCEPT ![k] = NotRunning]
    /\ Ends(k, work[k].at)
    /\ UNCHANGED <<cancel, deaths>>

\* The then() of the task.  It comes too late for a task that was cancelled.
Returns(k) ==
    /\ work[k].at \in {"completed", "failed"}
    /\ work' = [work EXCEPT ![k] = NotRunning]
    /\ IF k \in cancel THEN UNCHANGED <<agent, taskFile, ends>> ELSE Ends(k, work[k].at)
    /\ UNCHANGED <<cancel, deaths>>

\* The model asks for tools; it answers, and runSubagent tells the thread what came of
\* it, without a look at cancelRequested; or there is nothing to show.
ModelAnswers(k) ==
    /\ work[k].at = "model"
    /\ \/ /\ \E n \in 1..MaxCalls :
                 work' = [work EXCEPT ![k].at = "tool", ![k].left = n]
          /\ UNCHANGED ends
       \/ \E status \in {"completed", "failed"} :
             /\ work' = [work EXCEPT ![k].at = status]
             /\ ends' = [ends EXCEPT ![k] = @ \cup {status}]
       \/ work' = [work EXCEPT ![k].at = "failed"] /\ UNCHANGED ends
    /\ UNCHANGED <<agent, taskFile, cancel, deaths>>

\* The call fails, which an abort makes it do: the catch of the task.
ModelThrows(k) ==
    /\ work[k].at = "model"
    /\ work' = [work EXCEPT ![k] = NotRunning]
    /\ Ends(k, IF k \in cancel THEN "cancelled" ELSE "failed")
    /\ UNCHANGED <<cancel, deaths>>

\* A tool call ends, and the entry is written with the status it has.  The next
\* call of the same answer follows whether or not the task was cancelled.
ToolEnds(k) ==
    /\ work[k].at = "tool"
    /\ \/ work[k].left > 1 /\ work' = [work EXCEPT ![k].left = @ - 1]
       \/ /\ work[k].left = 1 /\ work[k].round < MaxRounds
          /\ work' = [work EXCEPT ![k] = [at |-> "model", left |-> 0, round |-> @.round + 1]]
    /\ taskFile' = [taskFile EXCEPT ![k] = IF agent[k] = "none" THEN @ ELSE agent[k]]
    /\ UNCHANGED <<agent, cancel, ends, deaths>>

\* The last tool call of the last round: there is no answer to give.
RoundsExhausted(k) ==
    /\ work[k].at = "tool" /\ work[k].left = 1 /\ work[k].round = MaxRounds
    /\ work' = [work EXCEPT ![k].at = "failed"]
    /\ taskFile' = [taskFile EXCEPT ![k] = IF agent[k] = "none" THEN @ ELSE agent[k]]
    /\ UNCHANGED <<agent, cancel, ends, deaths>>

\* agent_task_cancel, on the entry or, after a restart, on what the file says.
Cancel(k) ==
    /\ Status(k) = "running"
    /\ Ends(k, "cancelled")
    /\ cancel' = IF agent[k] # "none" THEN cancel \cup {k} ELSE cancel
    /\ UNCHANGED <<work, deaths>>

\* The process ends: nothing but the files is left.
Restart ==
    /\ deaths < MaxDeaths /\ deaths' = deaths + 1
    /\ agent' = [k \in Tasks |-> "none"] /\ cancel' = {}
    /\ work' = [k \in Tasks |-> NotRunning]
    /\ UNCHANGED <<taskFile, ends>>

Next ==
    \/ \E k \in Tasks :
          \/ Start(k) \/ ModelAnswers(k) \/ Returns(k) \/ ModelThrows(k)
          \/ ToolEnds(k) \/ RoundsExhausted(k) \/ Cancel(k)
    \/ Restart

AgentSpec == Init /\ [][Next]_agentVars

-----------------------------------------------------------------------------
\* What is over stays over: a task that the thread was told is cancelled is cancelled for
\* whoever asks, whatever comes back after that; the end that agent_task_output tells of
\* was told in the thread; and no task has both completed and failed, whichever entries
\* were dropped or lost (agent_task, agent_task_cancel).
FirstEndStands ==
    \A k \in Tasks :
        /\ "cancelled" \in ends[k] => Status(k) = "cancelled"
        /\ Status(k) \in Terminal => Status(k) \in ends[k]
        /\ ~({"completed", "failed"} \subseteq ends[k])

\* agent_task_cancel answers that the task "was cancelled": the thread is told of no
\* other end.  The code does not satisfy it, and no run checks it: README, Deviations.
OneEnd == \A k \in Tasks : \A end \in ends[k] : ends[k] = {end}

\* What agent_task_output calls "still running" is running.
StillRunningIsTrue == \A k \in Tasks : Status(k) = "running" => Alive(k)

\* A cancelled task starts no further tool call.
\* The code does not satisfy it, and no run checks it: README, Deviations.
CancelStops ==
    [][\A k \in Tasks :
           k \in cancel /\ work[k].at = "tool" /\ work'[k].at = "tool"
               => work'[k].left = work[k].left]_agentVars
=============================================================================
