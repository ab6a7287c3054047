------------------------------- MODULE Maintenance -------------------------------
(***************************************************************************)
(* The two background maintainers, MemoryManager and SkillEvolutionManager: *)
(* finished turns are queued, a model proposes what to keep from each, and *)
(* proposals are consolidated into the store.  A failure degrades the      *)
(* maintainer for a backoff.  They differ in how they set their timer.     *)
(***************************************************************************)
EXTENDS Naturals, Sequences, FiniteSets

CONSTANTS Turns,     \* finished turns; a turn names the proposal made from it
          Threshold, \* pending proposals that make a run consolidate
          MaxFailures \* bound on failures

VARIABLES
    keeper,    \* "memory" or "skill"
    jobs,      \* #jobs
    queuedYet, \* turns queued so far
    state,     \* "idle", "running" or "degraded"
    backing,   \* #nextRetryAtMs lies ahead
    timer,     \* #timer: "none", "now" or "later"
    runs,      \* maintenance runs: #running is one of them
    proposals, \* proposals with status "pending", on disk
    kept,      \* how often each proposal has been promoted into the store
    failures

keepVars == <<keeper, jobs, queuedYet, state, backing, timer, runs, proposals, kept, failures>>

RunIds == {1, 2}
NoRun == [at |-> "none", all |-> FALSE, job |-> {}, todo |-> {}]

Init ==
    /\ keeper \in {"memory", "skill"}
    /\ jobs = <<>> /\ queuedYet = {} /\ state = "idle" /\ backing = FALSE
    /\ timer = "none" /\ runs = [r \in RunIds |-> NoRun]
    /\ proposals = {} /\ kept = [t \in Turns |-> 0] /\ failures = 0

\* #schedule(0) and #schedule(delay): memory keeps a timer that is set, skills
\* replace it.
Scheduled(when) == IF keeper = "memory" /\ timer # "none" THEN timer ELSE when

\* queueTurnExtraction()
QueueTurn(t) ==
    /\ t \notin queuedYet
    /\ queuedYet' = queuedYet \cup {t} /\ jobs' = Append(jobs, t)
    /\ timer' = Scheduled("now")
    /\ UNCHANGED <<keeper, state, backing, runs, proposals, kept, failures>>

\* Mutant: a run does not look for another.
NobodyRuns == runs[1].at = "none" \/ runs[2].at = "none"

\* runMemoryMaintenance() joins the run under way.
NoneRuns == \A r \in RunIds : runs[r].at = "none"

FreeRun == CHOOSE r \in RunIds : runs[r].at = "none"

Start(all) ==
    /\ state' = "running"
    /\ runs' = [runs EXCEPT ![FreeRun] = [NoRun EXCEPT !.at = "loop", !.all = all]]

\* The timer's run; during a backoff it is skipped, and nothing is scheduled.
TimerFires ==
    /\ timer = "now" \/ (timer = "later" /\ ~backing)
    /\ timer' = "none"
    /\ IF NoneRuns /\ ~backing THEN Start(FALSE) ELSE UNCHANGED <<state, runs>>
    /\ UNCHANGED <<keeper, jobs, queuedYet, backing, proposals, kept, failures>>

BackoffEnds ==
    /\ backing /\ backing' = FALSE
    /\ UNCHANGED <<keeper, jobs, queuedYet, state, timer, runs, proposals, kept, failures>>

\* CoreAPI.runMemoryMaintenance({force, consolidate}).
Force ==
    /\ NoneRuns /\ Start(TRUE)
    /\ UNCHANGED <<keeper, jobs, queuedYet, backing, timer, proposals, kept, failures>>

\* The loop over the jobs: a job leaves the queue before the model is asked.
TakeJob(r) ==
    /\ runs[r].at = "loop" /\ jobs # <<>>
    /\ jobs' = Tail(jobs)
    /\ runs' = [runs EXCEPT ![r].at = "extract", ![r].job = {Head(jobs)}]
    /\ UNCHANGED <<keeper, queuedYet, state, backing, timer, proposals, kept, failures>>

\* The model proposes something from the turn, or nothing.
Extracted(r) ==
    /\ runs[r].at = "extract"
    /\ proposals' \in {proposals, proposals \cup runs[r].job}
    /\ runs' = [runs EXCEPT ![r].at = "loop", ![r].job = {}]
    /\ UNCHANGED <<keeper, jobs, queuedYet, state, backing, timer, kept, failures>>

Done(r) ==
    /\ runs' = [runs EXCEPT ![r] = NoRun]
    /\ state' = "idle" /\ backing' = FALSE

\* No job is left: the pending proposals are read for the model, or the run ends.
JobsDone(r) ==
    /\ runs[r].at = "loop" /\ jobs = <<>>
    /\ IF proposals # {} /\ (runs[r].all \/ Cardinality(proposals) >= Threshold)
       THEN /\ runs' = [runs EXCEPT ![r].at = "consolidate", ![r].todo = proposals]
            /\ UNCHANGED <<state, backing>>
       ELSE Done(r)
    /\ UNCHANGED <<keeper, jobs, queuedYet, timer, proposals, kept, failures>>

\* Some of the proposals read are promoted, some rejected, some left.
Decide(r) ==
    \E promoted, rejected \in SUBSET runs[r].todo :
        /\ promoted \cap rejected = {}
        /\ kept' = [t \in Turns |-> IF t \in promoted THEN kept[t] + 1 ELSE kept[t]]
        /\ proposals' = proposals \ (promoted \cup rejected)

Consolidated(r) ==
    /\ runs[r].at = "consolidate" /\ Decide(r) /\ Done(r)
    /\ UNCHANGED <<keeper, jobs, queuedYet, timer, failures>>

\* #markDegraded(): the next retry is put off; memory sets its timer only when
\* jobs are left.
MarkDegraded(r) ==
    /\ failures < MaxFailures /\ failures' = failures + 1
    /\ runs' = [runs EXCEPT ![r] = NoRun]
    /\ state' = "degraded" /\ backing' = TRUE
    /\ timer' = IF keeper = "skill" \/ jobs # <<>> THEN Scheduled("later") ELSE timer

\* The model fails, or part of its answer is nonsense; the job is gone.
ExtractFails(r) ==
    /\ runs[r].at = "extract" /\ MarkDegraded(r)
    /\ proposals' \in {proposals, proposals \cup runs[r].job}
    /\ UNCHANGED <<keeper, jobs, queuedYet, kept>>

\* The consolidation fails, after some of its operations.
ConsolidateFails(r) ==
    /\ runs[r].at = "consolidate" /\ Decide(r) /\ MarkDegraded(r)
    /\ UNCHANGED <<keeper, jobs, queuedYet>>

\* A restart: the queue is gone, rehydrateAfterStartup() consolidates.
Restart ==
    /\ jobs # <<>> \/ ~NoneRuns
    /\ jobs' = <<>> /\ timer' = "none" /\ backing' = FALSE
    /\ state' = "running"
    /\ runs' = [runs EXCEPT ![1] = [NoRun EXCEPT !.at = "loop", !.all = TRUE], ![2] = NoRun]
    /\ UNCHANGED <<keeper, queuedYet, proposals, kept, failures>>

Next ==
    \/ \E t \in Turns : QueueTurn(t)
    \/ TimerFires
    \/ BackoffEnds
    \/ Force
    \/ \E r \in RunIds : TakeJob(r)
    \/ \E r \in RunIds : Extracted(r)
    \/ \E r \in RunIds : JobsDone(r)
    \/ \E r \in RunIds : Consolidated(r)
    \/ \E r \in RunIds : ExtractFails(r)
    \/ \E r \in RunIds : ConsolidateFails(r)
    \/ Restart

Spec == Init /\ [][Next]_keepVars

\* Timers fire, time passes, and the model answers or fails.
KeepFairness ==
    /\ WF_keepVars(TimerFires) /\ WF_keepVars(BackoffEnds)
    /\ \A r \in RunIds : WF_keepVars(TakeJob(r) \/ Extracted(r) \/ JobsDone(r) \/ Consolidated(r))

FairSpec == Spec /\ KeepFairness

-----------------------------------------------------------------------------
(* Properties.                                                             *)

\* Consolidation decides on proposals that it read before the model was asked:
\* with timers, forced runs, failures half-way and retries, no proposal enters
\* the store twice.
PromotedOnce == \A t \in Turns : kept[t] <= 1

\* docs/develop.md: a failure is followed by a retry after a backoff, without
\* anybody asking for it.
\* The code does not satisfy it, and no run checks it: README, Deviations.
DegradedRetries == state = "degraded" ~> state # "degraded"
=============================================================================
