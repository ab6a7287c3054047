---------------------------- MODULE SessionThread ----------------------------
(***************************************************************************)
(* The thread of one session: what the agent loop, the abort of a turn,    *)
(* compaction, message variants (branches), tools that outlive their turn, *)
(* a crash and the repair at start-up write into it, what the model is     *)
(* shown of it (buildContext) and what of it is pushed to the gateways.    *)
(*                                                                         *)
(* SessionCore says when a turn runs; here at most one turn is live and    *)
(* the statuses in which a message starts one are all called "idle".       *)
(* An event has a kind, the global number seq, a branch, and for a tool     *)
(* result the number of the call it answers (`use`).                       *)
(***************************************************************************)
EXTENDS Naturals, Sequences, SequencesExt, FiniteSets

CONSTANTS MaxSeq,      \* bound on event numbers
          MaxBranches, \* bound on branches
          BatchSize,   \* bound on the tool calls of one answer
          MaxBlocks,   \* MAX_FINAL_READINESS_BLOCKS
          MaxRestarts, \* bound on crashes
          Compacts     \* may the usage reach the threshold of a compaction?

ASSUME ThreadAssumptions ==
    /\ MaxSeq \in Nat /\ BatchSize \in Nat /\ MaxRestarts \in Nat
    /\ MaxBranches \in Nat \ {0}

VARIABLES
    thread,   \* the session's events, oldest first
    seq,      \* nextSeq, the next event number
    branches, \* session.branches; 1 is "main"
    here,     \* session.activeBranchId
    status,
    turn,     \* the live turn
    running,  \* tool calls that run for the turn
    zombies,  \* tools that still run although their turn was aborted
    told,     \* numbers of the events pushed to the gateways
    disk,     \* what the last flush wrote
    restarts,
    forgotten \* ghost: an abort has left calls of its turn without results

storeVars == <<thread, seq>>
metaVars  == <<branches, here, status>>
vars == <<storeVars, metaVars, turn, running, zombies, told, disk, restarts, forgotten>>

Kinds == {"user", "assistant", "call", "result",
          "notice",  \* runtime_event
          "fact",    \* any other structured fact
          "block"}   \* compaction_block

Main == 1
NoTurn == [pc |-> "none", branch |-> Main, forked |-> FALSE, start |-> 0, cursor |-> 0,
           aborted |-> FALSE, blocks |-> 0, batch |-> <<>>, at |-> 0, cut |-> 0, block |-> 0]

Event(kind, n, b, use) == [kind |-> kind, seq |-> n, branch |-> b, use |-> use,
                           covers |-> <<0, 0>>]

Init ==
    /\ thread = <<>> /\ seq = 1
    /\ branches = <<[parent |-> 0, fork |-> 0]>> /\ here = Main
    /\ status = "idle"
    /\ turn = NoTurn /\ running = {} /\ zombies = {}
    /\ told = {}
    /\ disk = [thread |-> <<>>, branches |-> branches, here |-> Main, status |-> "idle"]
    /\ restarts = 0 /\ forgotten = FALSE

-----------------------------------------------------------------------------
(* What a branch shows.                                                    *)

\* #branchLineage(b), youngest first.
Lineage(b) ==
    LET up[c \in 0..Len(branches)] == IF c = 0 THEN <<>> ELSE <<c>> \o up[branches[c].parent]
    IN  up[b]

\* The n-th of some positions, and the events at them in the order of the thread.
\* (SelectSeq does the same; of it the provers know nothing.)
Nth(positions, n) == CHOOSE i \in positions : Cardinality({k \in positions : k <= i}) = n
EventsAt(ev, positions) == [n \in 1..Cardinality(positions) |-> ev[Nth(positions, n)]]

\* #visibleThreadForBranch(): an ancestor shows what it had when the next
\* branch of the lineage forked from it.
View(b) ==
    LET line == Lineage(b)
        Shown(e) == \E i \in 1..Len(line) :
                        /\ line[i] = e.branch
                        /\ i > 1 => e.seq < branches[line[i - 1]].fork
    IN  EventsAt(thread, {i \in DOMAIN thread : Shown(thread[i])})

-----------------------------------------------------------------------------
(* What the model is shown.                                                *)

Message(role, use, calls) == [role |-> role, use |-> use, calls |-> calls]

\* appendNonToolCallEvent()
Rendered(e) == Message(IF e.kind = "result" THEN "tool"
                       ELSE IF e.kind \in {"user", "assistant"} THEN e.kind
                       ELSE "system", e.use, {})
Show(ev, positions) ==
    [k \in 1..Cardinality(positions) |-> Rendered(ev[Nth(positions, k)])]

\* The run of calls that starts at position i.
LastCall(ev, i) ==
    CHOOSE k \in i..Len(ev) : /\ \A m \in i..k : ev[m].kind = "call"
                              /\ k = Len(ev) \/ ev[k + 1].kind # "call"
Run(ev, i) == {ev[m].seq : m \in i..LastCall(ev, i)}

\* Which of them have a result before position k.
Answered(ev, i, k) ==
    Run(ev, i) \cap {ev[m].use : m \in {m \in (LastCall(ev, i) + 1)..(k - 1) :
                                            ev[m].kind = "result"}}

\* Where the search for results ends: at the next call, the end, or when all have one.
StopAt(ev, i) ==
    CHOOSE k \in (LastCall(ev, i) + 1)..(Len(ev) + 1) :
        /\ k = Len(ev) + 1 \/ ev[k].kind = "call" \/ Answered(ev, i, k) = Run(ev, i)
        /\ \A m \in (LastCall(ev, i) + 1)..(k - 1) :
               ev[m].kind # "call" /\ Answered(ev, i, m) # Run(ev, i)
Span(ev, i) == (LastCall(ev, i) + 1)..(StopAt(ev, i) - 1)

\* The first result of each call of the run, and the calls that have none.
Answers(ev, i) ==
    {m \in Span(ev, i) : /\ ev[m].kind = "result" /\ ev[m].use \in Run(ev, i)
                         /\ \A k \in (LastCall(ev, i) + 1)..(m - 1) :
                               ~(ev[k].kind = "result" /\ ev[k].use = ev[m].use)}
Pending(ev, i) ==
    {m \in i..LastCall(ev, i) : ev[m].seq \notin Answered(ev, i, StopAt(ev, i))}

\* A run of calls is one assistant message; the results that answer it are moved
\* next to it, and what was between them comes after; if some call has no result,
\* placeholders stand in for the missing ones.
Group(ev, i) ==
    LET pending == Pending(ev, i)
    IN  <<Message("assistant", 0, Run(ev, i))>>
        \o (IF pending = {} THEN Show(ev, Answers(ev, i))
            ELSE [k \in 1..Cardinality(pending) |-> Message("tool", ev[Nth(pending, k)].seq, {})])
        \o Show(ev, Span(ev, i) \ Answers(ev, i))

\* buildContext()
buildContext(ev) ==
    LET build[i \in 1..(Len(ev) + 1)] ==
          IF i > Len(ev) THEN <<>>
          ELSE IF ev[i].kind = "call" THEN Group(ev, i) \o build[StopAt(ev, i)]
          ELSE <<Rendered(ev[i])>> \o build[i + 1]
    IN  build[1]

\* What the next model call on branch b is sent, as a set of one (TLC then computes the
\* view only once).
Prompts(b) == {buildContext(ev) : ev \in {View(b)}}

-----------------------------------------------------------------------------
(* The thread store and the gateways.                                      *)

Room(k) == seq + k <= MaxSeq + 1

Live == turn.pc # "none"

Seqs(ev) == {ev[i].seq : i \in DOMAIN ev}

\* #emitNewTurnEvents(): the numbers of the events from the cursor on.
NewSince(th, cursor, skipNotices) ==
    {th[i].seq : i \in {i \in (cursor + 1)..Len(th) :
                            ~(skipNotices /\ th[i].kind = "notice")}}

\* #appendWorkspaceActivityEvent() and its like, given the thread, the turn
\* and the number: what was appended before is pushed first, then the event.
AppendPushed(kind, b, t) ==
    LET th == Append(thread, Event(kind, seq, b, 0))
    IN  /\ thread' = th
        /\ seq' = seq + 1
        /\ told' = told \cup {seq}
                        \cup (IF t.pc # "none" THEN NewSince(th, t.cursor, FALSE) ELSE {})
        /\ turn' = IF t.pc # "none" THEN [t EXCEPT !.cursor = Len(th)] ELSE t

\* Mutant: calls that have a result get another one.
Unfinished(th, from) == {i \in (from + 1)..Len(th) : th[i].kind = "call"}

\* The calls after position `from` that have no result there.
Dangling(th, from) ==
    {i \in (from + 1)..Len(th) : /\ th[i].kind = "call"
                                 /\ \A k \in (from + 1)..Len(th) :
                                        ~(th[k].kind = "result" /\ th[k].use = th[i].seq)}

\* #appendMissingToolResults(), the first of them with number n: the results carry
\* no branch, which reads as the main branch.
Repaired(th, from, n) ==
    LET calls == EventsAt(th, Dangling(th, from))
    IN  th \o [i \in DOMAIN calls |-> Event("result", n + i - 1, Main, calls[i].seq)]

-----------------------------------------------------------------------------
(* The user.                                                               *)

\* A user message enters branch b, which becomes the active one, and is pushed.
Say(b) ==
    /\ Room(1)
    /\ thread' = Append(thread, Event("user", seq, b, 0))
    /\ seq' = seq + 1 /\ told' = told \cup {seq}
    /\ here' = b /\ status' = "running"
    /\ UNCHANGED <<turn, running, zombies, disk, restarts, forgotten>>

\* appendUserMessage() ; the turn is dispatched, and starts when the supervisor
\* has a slot.
AppendUserMessage(b) ==
    /\ status = "idle"
    /\ b \in DOMAIN branches
    /\ Say(b)
    /\ UNCHANGED branches

\* createMessageVariant(): a new branch that forks before the user message at
\* position i.  (The branch_event before the new message is left out.)
CreateMessageVariant(i) ==
    /\ status # "running" /\ Len(branches) < MaxBranches
    /\ thread[i].kind = "user"
    /\ branches' = Append(branches, [parent |-> thread[i].branch, fork |-> thread[i].seq])
    /\ Say(Len(branches) + 1)

\* retryBlockedSession()
RetryBlockedSession ==
    /\ status = "blocked"
    /\ status' = "running"
    /\ UNCHANGED <<storeVars, branches, here, turn, running, zombies, told, disk, restarts, forgotten>>

\* interruptSession(): the calls of the turn that have no result get one, and
\* everything but notices is pushed.  A turn that awaits the model or tools
\* unwinds in the same macrotask, and its tools run on; one that compacts is
\* marked.
InterruptSession ==
    LET th == Repaired(thread, turn.start, seq)
    IN  /\ status = "running"
        /\ status' = "idle"
        /\ IF Live
           THEN /\ Room(Len(th) - Len(thread))
                /\ thread' = th /\ seq' = seq + (Len(th) - Len(thread))
                /\ told' = told \cup NewSince(th, turn.cursor, TRUE)
           ELSE UNCHANGED <<thread, seq, told>>
        /\ turn' = IF turn.pc \in {"compactMid", "compactEnd"}
                   THEN [turn EXCEPT !.aborted = TRUE, !.cursor = Len(th)] ELSE NoTurn
        /\ zombies' = zombies \cup {[use |-> c, branch |-> turn.branch] : c \in running}
        /\ running' = {}
        /\ forgotten' = (forgotten \/ (Live /\ Dangling(th, 0) # {}))
        /\ UNCHANGED <<branches, here, disk, restarts>>

-----------------------------------------------------------------------------
(* The turn.                                                               *)

\* #runTurnInternal() up to the first model call.
StartTurn ==
    /\ status = "running" /\ ~Live
    /\ turn' = [NoTurn EXCEPT !.pc = "model", !.branch = here,
                              !.forked = Len(branches) > 1 \/ here # Main,
                              !.start = Len(thread), !.cursor = Len(thread)]
    /\ UNCHANGED <<storeVars, metaVars, running, zombies, told, disk, restarts, forgotten>>

\* The agent loop fails: #appendBlockedEvent() writes and pushes a notice.
Block(th, n, pushed) ==
    /\ thread' = Append(th, Event("notice", n, here, 0))
    /\ seq' = n + 1
    /\ told' = told \cup pushed \cup {n}
    /\ status' = "blocked" /\ turn' = NoTurn

\* Mutant: the events take numbers that are given out again.
FinishUnnumbered(th, n) ==
    /\ thread' = th /\ UNCHANGED seq
    /\ status' = "idle" /\ turn' = NoTurn
    /\ UNCHANGED told

\* The turn ends by itself: `finally` has deleted the cursor before
\* #emitNewTurnEvents() asks for it, so nothing is pushed here.
Finish(th, n) ==
    /\ thread' = th /\ seq' = n
    /\ status' = "idle" /\ turn' = NoTurn
    /\ UNCHANGED told

\* #tailHasDanglingToolResult(): a result after position c whose call is not.
TailHasDanglingToolResult(ev, c) ==
    \E i \in (c + 1)..Len(ev) :
        /\ ev[i].kind = "result"
        /\ \A k \in (c + 1)..Len(ev) : ~(ev[k].kind = "call" /\ ev[k].seq = ev[i].use)

\* Mutant: the boundary may separate a result from its call.
AnyBoundary(ev, c) == c > 0 /\ c < Len(ev)

\* #findCompactionBoundary(): the token budget puts the boundary anywhere; it
\* moves left until no result of the tail lacks its call.
IsBoundary(ev, c) ==
    /\ c > 0 /\ c < Len(ev)
    /\ ~TailHasDanglingToolResult(ev, c)

\* After a model answer: the next iteration (mid) or the end of the turn, with
\* a compaction before it when the context is nearly full.  A view with
\* branches is never compacted.
Proceed(th, n, after) ==
    \/ /\ IF after = "mid"
          THEN /\ thread' = th /\ seq' = n
               /\ turn' = [turn EXCEPT !.pc = "model", !.batch = <<>>, !.at = 0]
               /\ UNCHANGED <<told, status>>
          ELSE Finish(th, n)
    \/ /\ Compacts /\ n <= MaxSeq
       /\ \/ Block(th, n, {})  \* no boundary, or branches
          \/ /\ ~turn.forked
             /\ \E c \in DOMAIN th :
                  /\ IsBoundary(th, c)
                  /\ turn' = [turn EXCEPT
                       !.pc = IF after = "mid" THEN "compactMid" ELSE "compactEnd",
                       !.cut = c, !.block = n, !.batch = <<>>, !.at = 0]
             /\ thread' = th /\ seq' = n + 1
             /\ UNCHANGED <<told, status>>

\* The model gives its final answer and the readiness gate lets it through.
ModelStops ==
    /\ turn.pc = "model" /\ Room(1)
    /\ Proceed(Append(thread, Event("assistant", seq, turn.branch, 0)), seq + 1, "end")
    /\ UNCHANGED <<branches, here, running, zombies, disk, restarts, forgotten>>

\* The readiness gate holds the answer back: a notice is written and pushed,
\* then an activity fact, which pushes what is new (the notice once more).
ReadinessBlocks ==
    LET th == thread \o <<Event("notice", seq, turn.branch, 0),
                          Event("fact", seq + 1, turn.branch, 0)>>
    IN  /\ turn.pc = "model" /\ Room(3)
        /\ IF turn.blocks + 1 >= MaxBlocks
           THEN Block(th, seq + 2, NewSince(th, turn.cursor, FALSE))
           ELSE /\ thread' = th /\ seq' = seq + 2
                /\ told' = told \cup NewSince(th, turn.cursor, FALSE)
                /\ turn' = [turn EXCEPT !.blocks = @ + 1, !.cursor = Len(th)]
                /\ UNCHANGED status
        /\ UNCHANGED <<branches, here, running, zombies, disk, restarts, forgotten>>

\* The provider fails.
ModelFails ==
    /\ turn.pc = "model" /\ Room(1)
    /\ Block(thread, seq, {})
    /\ UNCHANGED <<branches, here, running, zombies, disk, restarts, forgotten>>

\* emitProviderStatus(): a notice while the model is awaited.
ProviderStatus ==
    /\ turn.pc = "model" /\ Room(1)
    /\ thread' = Append(thread, Event("notice", seq, turn.branch, 0))
    /\ seq' = seq + 1 /\ told' = told \cup {seq}
    /\ UNCHANGED <<metaVars, turn, running, zombies, disk, restarts, forgotten>>

\* Mutant: an exclusive tool does not wait for the tools before it.
ChunkOfAll(batch, at) == (at + 1)..Len(batch)

\* The calls that start together after call number `at`: a run of
\* concurrency-safe ones, or one exclusive tool.
Chunk(batch, at) ==
    {k \in (at + 1)..Len(batch) :
        k = at + 1 \/ \A m \in (at + 1)..k : batch[m].safe}

StartChunk(t, at) ==
    LET ks == Chunk(t.batch, at)
    IN  /\ turn' = [t EXCEPT !.at = at + Cardinality(ks)]
        /\ running' = {t.batch[k].use : k \in ks}

\* The model asks for tools: all calls are written, then the first ones start.
ModelCalls(safe) ==
    LET n == Len(safe)
    IN  /\ turn.pc = "model" /\ Room(n)
        /\ thread' = thread \o [k \in 1..n |-> Event("call", seq + k - 1, turn.branch, 0)]
        /\ seq' = seq + n
        /\ StartChunk([turn EXCEPT !.pc = "tools", !.blocks = 0,
                          !.batch = [k \in 1..n |-> [use |-> seq + k - 1, safe |-> safe[k]]]], 0)
        /\ UNCHANGED <<metaVars, zombies, told, disk, restarts, forgotten>>

\* A running tool records a workspace fact (a diff, a permission request...).
ToolRecords ==
    /\ running # {} /\ Room(1)
    /\ AppendPushed("fact", turn.branch, turn)
    /\ UNCHANGED <<metaVars, running, zombies, disk, restarts, forgotten>>

\* A tool ends; the last of its chunk starts the next chunk.
ToolEnds(c) ==
    /\ c \in running
    /\ \/ /\ running # {c}
          /\ running' = running \ {c}
          /\ UNCHANGED turn
       \/ /\ running = {c} /\ turn.at < Len(turn.batch)
          /\ StartChunk(turn, turn.at)
    /\ UNCHANGED <<storeVars, metaVars, zombies, told, disk, restarts, forgotten>>

\* The last tool ends: all results are written in the order of the calls.
\* ask_user ends the turn with its question.
BatchEnds ==
    LET n  == Len(turn.batch)
        th == thread \o [k \in 1..n |->
                            Event("result", seq + k - 1, turn.branch, turn.batch[k].use)]
    IN  /\ Cardinality(running) = 1 /\ turn.at = n /\ Room(n)
        /\ running' = {}
        /\ \/ Proceed(th, seq + n, "mid")
           \/ /\ Room(n + 1)
              /\ Finish(Append(th, Event("assistant", seq + n, turn.branch, 0)), seq + n + 1)
        /\ UNCHANGED <<branches, here, zombies, disk, restarts, forgotten>>

\* Mutant: compaction drops the facts too.
Nothing(ev) == <<>>

FactPositions(ev) == {i \in DOMAIN ev : ev[i].kind \in {"notice", "fact"}}

\* preserveDuringCompaction()
Facts(ev) == EventsAt(ev, FactPositions(ev))

\* compactEvents(): the prefix gives way to its facts and the summary.
Compacted ==
    LET old == SubSeq(thread, 1, turn.cut)
    IN  Facts(old)
        \o <<[Event("block", turn.block, Main, 0) EXCEPT
                 !.covers = <<old[1].seq, old[Len(old)].seq>>]>>
        \o SubSeq(thread, turn.cut + 1, Len(thread))

\* compact() returns a summary; an aborted turn throws it away.  (The context
\* estimate written afterwards is left out: no view shows it.)
CompactDone ==
    /\ turn.pc \in {"compactMid", "compactEnd"} /\ ~turn.aborted
    /\ IF turn.pc = "compactMid"
       THEN /\ thread' = Compacted /\ turn' = [turn EXCEPT !.pc = "model", !.cut = 0, !.block = 0]
            /\ UNCHANGED <<seq, told, status>>
       ELSE Finish(Compacted, seq)
    /\ UNCHANGED <<branches, here, running, zombies, disk, restarts, forgotten>>

\* compact() fails: the session is blocked.
CompactFails ==
    /\ turn.pc \in {"compactMid", "compactEnd"} /\ ~turn.aborted /\ Room(1)
    /\ Block(thread, seq, {})
    /\ UNCHANGED <<branches, here, running, zombies, disk, restarts, forgotten>>

\* compact() ends in a turn that was aborted: #finalizeAbortedTurn() of a
\* session that may be running again (and without its cursor pushes nothing).
CompactAborted ==
    LET th == Repaired(thread, turn.start, seq)
    IN  /\ turn.aborted /\ Room(Len(th) - Len(thread))
        /\ thread' = th /\ seq' = seq + (Len(th) - Len(thread))
        /\ turn' = NoTurn
        /\ status' = IF status = "running" THEN "idle" ELSE status
        /\ UNCHANGED <<branches, here, told, running, zombies, disk, restarts, forgotten>>

\* A tool of an aborted turn still records facts, and ends some day.
ZombieRecords(z) ==
    /\ z \in zombies /\ Room(1)
    /\ AppendPushed("fact", z.branch, turn)
    /\ UNCHANGED <<metaVars, running, zombies, disk, restarts, forgotten>>

ZombieEnds(z) ==
    /\ z \in zombies
    /\ zombies' = zombies \ {z}
    /\ UNCHANGED <<storeVars, metaVars, turn, running, told, disk, restarts, forgotten>>

-----------------------------------------------------------------------------
(* The process.                                                            *)

Flush ==
    /\ restarts < MaxRestarts
    /\ disk' = [thread |-> thread, branches |-> branches, here |-> here, status |-> status]
    /\ UNCHANGED <<storeVars, metaVars, turn, running, zombies, told, restarts, forgotten>>

Highest(th) ==
    IF th = <<>> THEN 0 ELSE CHOOSE m \in Seqs(th) : \A k \in Seqs(th) : k <= m

\* A crash, loadSessions() and rehydrateAfterStartup(): a session that was
\* running gets a result for every call that has none, and is blocked.
\* Clients reconnect and read the thread.
CrashAndRestart ==
    LET last == Highest(disk.thread)
        th   == Repaired(disk.thread, 0, last + 1)
        n    == last + 1 + Len(th) - Len(disk.thread)
    IN  /\ restarts < MaxRestarts /\ n <= MaxSeq
        /\ restarts' = restarts + 1
        /\ branches' = disk.branches /\ here' = disk.here
        /\ turn' = NoTurn /\ running' = {} /\ zombies' = {} /\ told' = {}
        /\ IF disk.status = "running"
           THEN /\ thread' = Append(th, Event("notice", n, Main, 0))
                /\ seq' = n + 1 /\ status' = "blocked"
           ELSE /\ thread' = disk.thread /\ seq' = last + 1
                /\ status' = disk.status
        /\ UNCHANGED <<disk, forgotten>>

Next ==
    \/ \E b \in 1..MaxBranches : AppendUserMessage(b)
    \/ \E i \in DOMAIN thread : CreateMessageVariant(i)
    \/ RetryBlockedSession
    \/ InterruptSession
    \/ StartTurn
    \/ ModelStops
    \/ ReadinessBlocks
    \/ ModelFails
    \/ ProviderStatus
    \/ \E n \in 1..BatchSize : \E safe \in [1..n -> BOOLEAN] : ModelCalls(safe)
    \/ ToolRecords
    \/ \E c \in running : ToolEnds(c)
    \/ BatchEnds
    \/ CompactDone
    \/ CompactFails
    \/ CompactAborted
    \/ \E z \in zombies : ZombieRecords(z)
    \/ \E z \in zombies : ZombieEnds(z)
    \/ Flush
    \/ CrashAndRestart

Spec == Init /\ [][Next]_vars

-----------------------------------------------------------------------------
(* Properties.                                                             *)

\* Types of the state, and what ties its parts together.
ThreadTypeOK ==
    /\ \A i \in DOMAIN thread : thread[i].kind \in Kinds /\ thread[i].seq < seq
    /\ seq \in 1..(MaxSeq + 1)
    /\ Len(branches) \in 1..MaxBranches /\ here \in DOMAIN branches
    /\ status \in {"idle", "running", "blocked"}
    /\ turn.pc \in {"none", "model", "tools", "compactMid", "compactEnd"}
    /\ (running # {}) = (turn.pc = "tools")
    /\ restarts \in 0..MaxRestarts

\* In the messages p, each assistant message with calls is followed directly by
\* exactly one tool message for each of them, and there is no other tool message:
\* the order the providers insist on.
PairedIn(p) ==
    /\ \A i \in DOMAIN p : p[i].calls # {} =>
          LET k == Cardinality(p[i].calls)
          IN  /\ i + k <= Len(p)
              /\ {p[m].use : m \in (i + 1)..(i + k)} = p[i].calls
              /\ \A m \in (i + 1)..(i + k) : p[m].role = "tool"
    /\ \A i \in DOMAIN p : p[i].role = "tool" =>
          \E m \in 1..(i - 1) : i <= m + Cardinality(p[m].calls)

\* So it is in the context of branch b.
Paired(b) == \A p \in Prompts(b) : PairedIn(p)

Positions(kind) == {i \in DOMAIN thread : thread[i].kind = kind}

\* Branch b shows a call exactly when it shows the call's result.
Intact(b) ==
    LET shown == Range(View(b))
    IN  \A i \in Positions("call"), k \in Positions("result") :
            thread[k].use = thread[i].seq
                => (thread[i] \in shown) = (thread[k] \in shown)

\* context-window-builder.ts, session-thread-store.ts: whatever interruptions,
\* late tools, compactions, forks and restarts came before, the model's
\* context pairs calls and results, in every branch that was not cut between
\* a call and its result, as long as no abort has left calls behind.
CallsAreAnswered == ~forgotten => \A b \in DOMAIN branches : Intact(b) => Paired(b)

\* An abort writes a result for each call of its turn that has none.  The code does not
\* satisfy it, and no run checks it: the turn's start is a position in the thread, which a
\* compaction inside the turn makes stale (README, Deviations).
NoCallIsForgotten == ~forgotten

\* The same of every branch: results written by an abort or a restart belong
\* to the branch of their calls.
PromptsArePaired == \A b \in DOMAIN branches : Paired(b)

\* An abort writes results for unfinished calls, and does so again when the
\* turn unwinds; a restart repairs what the disk has.  No call gets two.
AnsweredOnce ==
    \A i, k \in Positions("result") : thread[i].use = thread[k].use => i = k

\* What the thread and the model's context say of a tool call: one result, next to the
\* call (session-thread-store.ts, context-window-builder.ts).
CallsAndResultsPair == CallsAreAnswered /\ AnsweredOnce

\* Compaction, aborts and tools that outlive their turn never lose a
\* structured fact that is in the thread (only a crash does).
FactsSurvive ==
    [][restarts' = restarts =>
         {thread[i].seq : i \in FactPositions(thread)} \subseteq Seqs(thread')]_vars

\* agent-loop.ts: an exclusive tool is an ordering barrier inside its turn.
ExclusiveRunsAlone ==
    \A k \in DOMAIN turn.batch :
        turn.batch[k].use \in running /\ ~turn.batch[k].safe => running = {turn.batch[k].use}

\* The continuity of a session rests on its thread and compaction blocks: if
\* a compaction took events that a branch would still show, the branch shows
\* the summary.
\* The code does not satisfy it, and no run checks it: README, Deviations.
SummaryIsVisible ==
    \A b \in DOMAIN branches, i \in DOMAIN thread :
        LET line == Lineage(b)
            base == Len(line)
        IN  thread[i].kind = "block" /\ (base > 1 => thread[i].covers[1] < branches[line[base - 1]].fork)
               => thread[i] \in Range(View(b))

\* Native clients announce assistant replies from the stream of events: when
\* a turn has ended by itself, its reply has been pushed.
RepliesArePushed ==
    [][\A i \in DOMAIN thread' :
         thread'[i].kind = "assistant" /\ turn'.pc = "none" /\ restarts' = restarts
             => thread'[i].seq \in told']_vars
=============================================================================
