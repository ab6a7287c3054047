-------------------------- MODULE SessionLifecycle --------------------------
(***************************************************************************)
(* The life of a session as the transition table of session-supervisor.ts  *)
(* promises it, with what is on disk.  This is the abstract specification  *)
(* that SessionCore implements: whatever the supervisor, the scheduler,    *)
(* the runtimes and the shutdown do, a session's status only moves along   *)
(* the edges below, except for archiveProject (which writes "archived"     *)
(* without consulting the table) and for a restart (which brings back the  *)
(* status that was last flushed).                                          *)
(***************************************************************************)
EXTENDS Naturals

CONSTANT Sessions

Status ==
    {"idle", "running", "waiting_user", "sleeping", "blocked", "archived"}

\* transitions[s][e] is the status that event e leads to from status s.
transitions ==
    [idle         |-> [user_message      |-> "running",
                       trigger_fired     |-> "running",
                       trigger_scheduled |-> "sleeping",
                       user_interrupt    |-> "idle",
                       user_archive      |-> "archived"],
     running      |-> [turn_finished        |-> "idle",
                       agent_ask_user       |-> "waiting_user",
                       agent_schedule_sleep |-> "sleeping",
                       runtime_failure      |-> "blocked",
                       user_interrupt       |-> "idle"],
     waiting_user |-> [user_reply     |-> "running",
                       user_interrupt |-> "idle",
                       user_archive   |-> "archived"],
     sleeping     |-> [trigger_fired  |-> "running",
                       user_message   |-> "running",
                       triggers_empty |-> "idle",
                       user_interrupt |-> "idle",
                       user_archive   |-> "archived"],
     blocked      |-> [runtime_recovered |-> "running",
                       user_retry        |-> "running",
                       user_interrupt    |-> "idle",
                       user_archive      |-> "archived"],
     archived     |-> [e \in {} |-> "archived"]]

\* transition() throws when the event is not one of validTransitions().
validTransitions(current) == DOMAIN transitions[current]
transition(current, event) == transitions[current][event]

Edge(a, b) == \E e \in validTransitions(a) : transition(a, e) = b

-----------------------------------------------------------------------------

VARIABLES status,   \* the status in memory
          saved     \* the status in the session_meta line on disk

vars == <<status, saved>>

Init ==
    /\ status = [s \in Sessions |-> "idle"]
    /\ saved = status

Move(s) ==
    /\ \E b \in Status : Edge(status[s], b) /\ status' = [status EXCEPT ![s] = b]
    /\ UNCHANGED saved

\* A wake-up that finds no model provider blocks the session in the same step.
WakeAndBlock(s) ==
    /\ Edge(status[s], "running")
    /\ status' = [status EXCEPT ![s] = transition("running", "runtime_failure")]
    /\ UNCHANGED saved

ArchiveWithProject(s) ==
    /\ status[s] # "archived"
    /\ status' = [status EXCEPT ![s] = "archived"]
    /\ UNCHANGED saved

Save ==
    /\ saved' = status
    /\ UNCHANGED status

\* A crash restarts from the last flush; an orderly exit flushes first.
Restart ==
    /\ \/ status' = saved
       \/ status' = status
    /\ saved' = status'

Next ==
    \/ \E s \in Sessions : Move(s) \/ WakeAndBlock(s) \/ ArchiveWithProject(s)
    \/ Save
    \/ Restart

Spec == Init /\ [][Next]_vars

-----------------------------------------------------------------------------

TypeOK ==
    /\ status \in [Sessions -> Status]
    /\ saved \in [Sessions -> Status]

=============================================================================
