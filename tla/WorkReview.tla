----------------------------- MODULE WorkReview -----------------------------
(***************************************************************************)
(* What the facts of a thread say of the work (src/workspace/              *)
(* activity-manager.ts, evidence.ts, readiness.ts, the tools todo_write,   *)
(* complete_step and workspace_review, and web/src/App.tsx).               *)
(*                                                                         *)
(* Tools append facts: lists of todos, receipts, diffs, checks,            *)
(* diagnostics, tasks, reviews.  Four readers make up their minds from     *)
(* them: the tools that accept a todo as done, the prompt's summary, the   *)
(* gate before a final answer, and the console, from the core's answer or, *)
(* without one, from the events it holds.  A branch shows what its parent  *)
(* had at the fork, but a fact counts only on the branch that made it.     *)
(***************************************************************************)
EXTENDS Naturals, Sequences, FiniteSets, FiniteSetsExt

CONSTANTS
    Todos,    \* the todos, by id (NoId: the model gives none) and text
    Steps,    \* the steps it calls complete, likewise
    Files,    \* the files that are changed, all of them code
    Tasks,    \* background commands
    Window,   \* how many checks, task events and activities are looked at
    MaxItems, \* bound: todos in a list
    MaxOf,    \* bounds: how many facts of each kind a thread has, one way or another
    MaxFacts  \* bound: facts in the thread

VARIABLES
    facts,    \* the thread, by seq
    fork,     \* how much of main the other branch shows; NoFork without one
    active    \* activeBranchId: where the next turn runs

reviewVars == <<facts, fork, active>>

Branches == {"main", "edited"}
NoFork == MaxFacts + 1
NoId == "none"
Kinds == {"todo", "receipt", "diff", "check", "diagnostics", "task", "review",
          "read"}  \* what a tool that reads files found

Init == facts = <<>> /\ fork = NoFork /\ active = "main"

----------------------------------------------------------------------------
(* The thread a branch sees, and the facts that count on it.               *)

VisibleThread(branch) ==
    {seq \in DOMAIN facts : \/ facts[seq].branch = branch
                            \/ facts[seq].branch = "main" /\ seq <= fork}

BranchMatches(seq, branch) == facts[seq].branch = branch

Scoped(branch) == {seq \in VisibleThread(branch) : BranchMatches(seq, branch)}

Of(seqs, kind) == {seq \in seqs : facts[seq].kind = kind}
Latest(seqs) == CHOOSE seq \in seqs \cup {0} : \A other \in seqs : other <= seq
LastOf(seqs, n) == {seq \in seqs : Cardinality({s \in seqs : s >= seq}) <= n}
ItemsOf(seq) == IF seq = 0 THEN {} ELSE facts[seq].items
OpenIn(seq) == \E item \in ItemsOf(seq) : ~item.done
ErrorsIn(seq) == seq # 0 /\ facts[seq].status = "errors"

\* Only the latest diff of each file.
LatestByFile(diffs) ==
    {seq \in diffs : \A other \in diffs :
        facts[other].file = facts[seq].file => other <= seq}

LatestByTask(events) ==
    {seq \in events : \A other \in events :
        facts[other].task = facts[seq].task => other <= seq}

\* buildWorkspaceActivityState: what the core knows of a branch.
BuildWorkspaceActivityState(branch) ==
    LET scoped == Scoped(branch)
    IN  [todos |-> Latest(Of(scoped, "todo")),
         changes |-> LatestByFile(Of(scoped, "diff")),
         diagnostics |-> Latest(Of(scoped, "diagnostics")),
         checks |-> LastOf(Of(scoped, "check"), Window),
         shellTasks |-> LatestByTask(Of(scoped, "task")),
         recent |-> LastOf(Of(scoped, "review"), Window),
         payloads |-> TRUE]

\* The console's own reading of the events it holds: those of the parent too,
\* the last events of tasks, activities without their payload.
BuildWorkspaceActivityFromThread(branch) ==
    LET events == VisibleThread(branch)
    IN  [todos |-> Latest(Of(events, "todo")),
         changes |-> LatestByFile(Of(events, "diff")),
         diagnostics |-> Latest(Of(events, "diagnostics")),
         checks |-> LastOf(Of(events, "check"), Window),
         shellTasks |-> LastOf(Of(events, "task"), Window),
         recent |-> LastOf(Of(events, "review"), Window),
         payloads |-> FALSE]

Running(activity) ==
    {seq \in activity.shellTasks : facts[seq].status = "running"}

LatestWith(activity, status) ==
    Latest({seq \in activity.checks : facts[seq].status = status})

\* evaluateWorkspaceReadiness, for changes of code and strong checks.  What it finds besides,
\* a failed activity or a host check of the project that is missing, only blocks more.
Ready(branch) ==
    LET state == BuildWorkspaceActivityState(branch)
        changed == Latest(state.changes)
        check == Latest(state.checks)
    IN  /\ ~OpenIn(state.todos)
        /\ ~ErrorsIn(state.diagnostics)
        /\ check # 0 => facts[check].status # "failed"
        /\ changed # 0 => check > changed /\ facts[check].status = "passed"
        /\ changed # 0 /\ state.diagnostics # 0 => state.diagnostics > changed
        /\ Running(state) = {}

\* buildWorkspaceActivitySummary: the prompt warns the model that it is not.
SummaryWarns(branch) ==
    LET state == BuildWorkspaceActivityState(branch)
        passed == LatestWith(state, "passed")
        changed == Latest(state.changes)
    IN  \/ changed # 0 /\ passed < changed
        \/ LatestWith(state, "failed") > passed
        \/ ErrorsIn(state.diagnostics)
        \/ Running(state) # {}

\* finalizationReminders: todo_write adds them when nothing is open any more.
TodoWriteReminds(branch) ==
    LET scoped == Scoped(branch)
        changed == Latest(Of(scoped, "diff"))
        check == Latest(Of(scoped, "check"))
    IN  /\ ~OpenIn(Latest(Of(scoped, "todo")))
        /\ changed # 0
        /\ \/ check < changed
           \/ facts[check].status # "passed"

\* workReviewModel: the label above the composer.
ReviewLabel(activity) ==
    LET review == Latest(activity.recent)
        known == review # 0 /\ activity.payloads
    IN  IF \/ known /\ ~facts[review].ready
           \/ ErrorsIn(activity.diagnostics)
           \/ \E seq \in activity.checks : facts[seq].status = "failed"
           \/ Running(activity) # {}
        THEN "Needs review"
        ELSE IF known THEN "Ready" ELSE "In progress"

----------------------------------------------------------------------------
(* The tools.                                                              *)

Append1(fact) ==
    /\ Len(facts) < MaxFacts
    /\ facts' = Append(facts, fact)
    /\ \E most \in MaxOf : \A kind \in Kinds : Cardinality(Of(DOMAIN facts, kind)') <= most[kind]
    /\ UNCHANGED <<fork, active>>

\* evidenceMatchesStep.
MatchesStep(receipt, item) ==
    \/ receipt.todoId # NoId /\ receipt.todoId = item.id
    \/ receipt.step = item.text

\* Mutant: any receipt of the branch will do, however old.
AnyTodoEvidence(item, afterSeq) ==
    {seq \in Of(Scoped(active), "receipt") : MatchesStep(facts[seq], item)}

\* The receipts on this branch since a list.
FindTodoEvidence(item, afterSeq) ==
    {seq \in Of(Scoped(active), "receipt") :
        seq > afterSeq /\ MatchesStep(facts[seq], item)}

\* A todo without an id gets a new one: it is never the previous list's.
WasCompleted(item, list) ==
    \E old \in ItemsOf(list) : old.id = item.id /\ item.id # NoId /\ old.done

\* todo_write refuses a newly completed todo without a receipt.
TodoWrite(items) ==
    /\ Append1([kind |-> "todo", branch |-> active, items |-> items])
    /\ LET list == Latest(Of(Scoped(active), "todo"))
       IN  \A item \in items : item.done /\ ~WasCompleted(item, list) =>
               FindTodoEvidence(item, list) # {}

\* matchWorkspaceReviewActivity: a review that found the work ready stands for a
\* check, if it is meant: by name or by its number.
MatchesReview(kind, seq, s) ==
    /\ kind = "review" \/ (kind = "check" /\ seq # 0)
    /\ facts[s].kind = "review" /\ facts[s].ready

\* matchFiles: what was changed or read.
MatchesFiles(kind, s) ==
    kind = "files" /\ facts[s].kind \in {"diff", "read"}

\* matchReference: the facts of the branch that fit, or the one with the given
\* seq: a check must have passed, diagnostics only if none was named.
MatchReference(kind, seq) ==
    {s \in Scoped(active) :
        /\ seq # 0 => s = seq
        /\ \/ MatchesReview(kind, seq, s)
           \/ MatchesFiles(kind, s)
           \/ /\ kind = facts[s].kind
              /\ kind = "check" => facts[s].status = "passed"
              /\ kind = "diagnostics" /\ seq = 0 => facts[s].status = "clean"
              /\ kind \in {"check", "diff", "diagnostics"}}

\* complete_step; "manual" rests on a note of the model's alone.
CompleteStep(step, kind, seq) ==
    /\ kind # "manual" => MatchReference(kind, seq) # {}
    /\ Append1([kind |-> "receipt", branch |-> active, step |-> step.text,
                todoId |-> step.id, rests |-> kind,
                on |-> IF kind = "manual" THEN 0
                       ELSE Latest(MatchReference(kind, seq))])

RecordDiff(file) ==
    Append1([kind |-> "diff", branch |-> active, file |-> file])
RecordRead == Append1([kind |-> "read", branch |-> active])
RecordVerification(status) ==
    Append1([kind |-> "check", branch |-> active, status |-> status])
RecordDiagnostics(status) ==
    Append1([kind |-> "diagnostics", branch |-> active, status |-> status])

TaskEvents(task) == {seq \in DOMAIN facts : facts[seq].kind = "task"
                                            /\ facts[seq].task = task}

\* A background task starts once; its end is told on the branch of its start.
TaskStarts(task) ==
    /\ TaskEvents(task) = {}
    /\ Append1([kind |-> "task", branch |-> active, task |-> task,
                status |-> "running"])
TaskEnds(task) ==
    /\ Cardinality(TaskEvents(task)) = 1
    /\ Append1([kind |-> "task", task |-> task, status |-> "completed",
                branch |-> facts[Latest(TaskEvents(task))].branch])

\* workspace_review, and the gate before a final answer, when it blocks.  A failed activity
\* or a missing host check may block what the facts here do not.
WorkspaceReview(blocked) ==
    Append1([kind |-> "review", branch |-> active, ready |-> Ready(active) /\ ~blocked])
FinalGate(blocked) ==
    /\ blocked \/ ~Ready(active)
    /\ Append1([kind |-> "review", branch |-> active, ready |-> FALSE])

\* The user edits a message of main, or goes back to it.
EditMessage ==
    /\ fork = NoFork /\ Len(facts) < MaxFacts
    /\ \E seen \in 0..Len(facts) : fork' = seen
    /\ active' = "edited" /\ UNCHANGED facts
SelectBranch ==
    /\ fork # NoFork
    /\ active' \in Branches \ {active} /\ UNCHANGED <<facts, fork>>

\* No two todos of a list have one id.
TodoItems == {[id |-> todo.id, text |-> todo.text, done |-> done] :
                 todo \in Todos, done \in BOOLEAN}
TodoLists ==
    {list \in UNION {kSubset(n, TodoItems) : n \in 1..MaxItems} :
        \A a, b \in list : a.id = b.id /\ a.id # NoId => a = b}

Next ==
    \/ \E items \in TodoLists : TodoWrite(items)
    \/ \E step \in Steps, kind \in {"check", "review", "files", "diff", "diagnostics", "manual"} :
          \E seq \in 0..Len(facts) : CompleteStep(step, kind, seq)
    \/ \E file \in Files : RecordDiff(file)
    \/ RecordRead
    \/ \E status \in {"running", "passed", "failed"} : RecordVerification(status)
    \/ \E status \in {"clean", "errors"} : RecordDiagnostics(status)
    \/ \E task \in Tasks : TaskStarts(task) \/ TaskEnds(task)
    \/ \E blocked \in BOOLEAN : WorkspaceReview(blocked) \/ FinalGate(blocked)
    \/ EditMessage \/ SelectBranch

ReviewSpec == Init /\ [][Next]_reviewVars

----------------------------------------------------------------------------

TypeOK ==
    /\ Len(facts) <= MaxFacts /\ fork \in 0..NoFork /\ active \in Branches
    /\ \A seq \in DOMAIN facts : /\ facts[seq].kind \in Kinds
                                 /\ facts[seq].branch \in Branches

\* The lists of a branch before seq, and the last of them in which a todo was
\* still to do.
ListsBefore(seq) ==
    {s \in Of(Scoped(facts[seq].branch), "todo") : s < seq}
LastOpen(item, seq) ==
    Latest({s \in ListsBefore(seq) : ~WasCompleted(item, s)})
\* What a list calls done has a receipt of its branch, written after the last
\* list that had it open: through lists that drop it, reopen it or reword it,
\* and whatever the other branch recorded.
CompletedIsProven ==
    \A seq \in DOMAIN facts : facts[seq].kind = "todo" =>
        \A item \in ItemsOf(seq) : item.done =>
            \E r \in Of(Scoped(facts[seq].branch), "receipt") :
                /\ r < seq /\ r > LastOpen(item, seq)
                /\ \/ /\ item.id # NoId
                      /\ facts[r].todoId = item.id
                   \/ facts[r].step \in {item.text} \cup
                         UNION {{old.text : old \in {o \in ItemsOf(s) : o.id = item.id}} :
                                   s \in {l \in ListsBefore(seq) : l > LastOpen(item, seq)}}

\* A receipt rests on an earlier fact of its own branch: never on a check that
\* did not pass, a review that found open issues, nor on what another branch did.
ReceiptsRestOnFacts ==
    \A r \in DOMAIN facts : facts[r].kind = "receipt" /\ facts[r].rests # "manual" =>
        /\ facts[r].on \in 1..(r - 1)
        /\ facts[facts[r].on].branch = facts[r].branch
        /\ LET on == facts[facts[r].on] IN
           /\ facts[r].rests \in {"check", "review"} =>
                 IF on.kind = "review" THEN on.ready ELSE on.status = "passed"
           /\ facts[r].rests = "files" => on.kind \in {"diff", "read"}

\* A branch the gate would let finish is one neither the prompt nor todo_write
\* warns about: three readings of the same facts agree.  (While a check runs the
\* gate forgets that the one before it failed; the prompt does not.)
CheckRuns(branch) ==
    LET check == Latest(Of(Scoped(branch), "check"))
    IN  check # 0 /\ facts[check].status = "running"
ReadyIsUnwarned ==
    \A branch \in Branches :
        Ready(branch) /\ ~CheckRuns(branch) =>
            ~SummaryWarns(branch) /\ ~TodoWriteReminds(branch)

WorkIsProven == CompletedIsProven /\ ReceiptsRestOnFacts /\ ReadyIsUnwarned

\* Without the core's answer the console shows all that the core knows of the
\* branch but tasks: it may show more, never less, and never an older list.  Its
\* label says "Needs review" whenever errors remain or the latest check failed,
\* and "Ready" only if the latest review said so.
ConsoleShowsTheWork ==
    \A branch \in Branches :
        LET core == BuildWorkspaceActivityState(branch)
            own == BuildWorkspaceActivityFromThread(branch)
            check == Latest(core.checks)
        IN  /\ core.todos # 0 => own.todos = core.todos
            /\ core.diagnostics # 0 => own.diagnostics = core.diagnostics
            /\ core.changes \subseteq own.changes
            /\ core.checks \subseteq own.checks
            /\ \A activity \in {core, own} :
                /\ ErrorsIn(core.diagnostics) \/ (check # 0 /\ facts[check].status = "failed")
                      => ReviewLabel(activity) = "Needs review"
                /\ ReviewLabel(activity) = "Ready" =>
                      facts[Latest(core.recent)].ready
=============================================================================
