----------------------------- MODULE UsageAccount -----------------------------
(***************************************************************************)
(* What the model calls of one session are said to have used               *)
(* (src/usage/usage-ledger.ts, #usageTrackingProvider() and #recordUsage() *)
(* of src/core/core-api.ts, src/agent/cache-shape.ts).                     *)
(*                                                                         *)
(* An answer is written to the ledger at once and to the thread, which     *)
(* reaches its file later; both carry numbers of a counter that is not     *)
(* saved, but found again in the thread files.  A compaction is a model    *)
(* call like others; the context it leaves is estimated in the thread      *)
(* alone.  Subagents call beside the turn that started them.               *)
(***************************************************************************)
EXTENDS Naturals, Sequences, SequencesExt, FiniteSetsExt

CONSTANTS
    Subagents,    \* callers beside the turn
    Shapes,       \* what a prompt can be made of (hashes of its parts)
    Sizes,        \* input tokens
    RequiresUsage, \* the provider must report what it used
    MaxAnswers,   \* bound: answers in the ledger
    MaxSeq,       \* bound: the counter
    MaxCrashes    \* bound: ends of the process

None == "none"
Callers == {"turn", "compaction"} \cup Subagents

VARIABLES
    nextSeq,     \* the counter, of all sessions
    usageLedger, \* .forge/usage/<session>.jsonl
    events,      \* the thread, as far as it is about usage
    flushed,     \* the thread's file
    cacheShapes, \* the prompt of the last call that was answered
    calling,     \* the prompts of the calls under way
    summarised,  \* a compaction has its summary
    spent,       \* ghost: the input tokens of all recorded answers
    crashes

usageVars == <<nextSeq, usageLedger, events, flushed, cacheShapes, calling,
    summarised, spent, crashes>>

Init ==
    /\ nextSeq = 1 /\ usageLedger = <<>> /\ events = <<>> /\ flushed = <<>>
    /\ cacheShapes = None /\ calling = [caller \in Callers |-> None]
    /\ summarised = FALSE /\ spent = 0 /\ crashes = 0

\* A turn makes one call at a time, a compaction's among them.
CallStarts(caller, shape) ==
    /\ calling[caller] = None
    /\ caller \in {"turn", "compaction"} =>
          ~summarised /\ calling["turn"] = None /\ calling["compaction"] = None
    /\ calling' = [calling EXCEPT ![caller] = shape]
    /\ UNCHANGED <<nextSeq, usageLedger, events, flushed, cacheShapes, summarised, spent, crashes>>

\* compareCacheShape(): why the prompt's prefix may not have been cached.
CompareCacheShape(shape) ==
    IF cacheShapes = None THEN "first_call"
    ELSE IF cacheShapes # shape THEN "changed" ELSE "same"

\* What a session has used: the usage event carries the record's number.
UsageEvent(record) == [type |-> "usage_event", seq |-> record.seq, size |-> record.input]

\* #recordUsage(): an answer without usage is estimated or, if the provider must
\* report it, not counted.
RecordUsage(caller, input, reported) ==
    IF ~reported /\ RequiresUsage
    THEN UNCHANGED <<nextSeq, usageLedger, events, spent>>
    ELSE LET record == [seq |-> nextSeq, of |-> caller, input |-> input,
                        estimated |-> ~reported,
                        prefix |-> CompareCacheShape(calling[caller])]
         IN  /\ Len(usageLedger) < MaxAnswers /\ nextSeq <= MaxSeq
             /\ nextSeq' = nextSeq + 1
             /\ usageLedger' = Append(usageLedger, record)
             /\ events' = Append(events, UsageEvent(record))
             /\ spent' = spent + input

\* generate() of the tracking provider answers: at the end of a compaction's call
\* there is a summary, or none that will do.
Answered(caller, input, reported) ==
    /\ calling[caller] # None
    /\ RecordUsage(caller, input, reported)
    /\ cacheShapes' = calling[caller]
    /\ calling' = [calling EXCEPT ![caller] = None]
    /\ IF caller = "compaction" /\ (reported \/ ~RequiresUsage)
       THEN summarised' \in BOOLEAN ELSE UNCHANGED summarised
    /\ UNCHANGED <<flushed, crashes>>

\* It fails or is aborted: nothing is recorded.
CallFails(caller) ==
    /\ calling[caller] # None
    /\ calling' = [calling EXCEPT ![caller] = None]
    /\ UNCHANGED <<nextSeq, usageLedger, events, flushed, cacheShapes, summarised, spent, crashes>>

\* compactEvents() drops the first events, #appendPostCompactionContextEstimate()
\* says what is left.  (after: ghost, the records written before.)
Compacted(size) ==
    /\ summarised /\ nextSeq <= MaxSeq
    /\ summarised' = FALSE /\ nextSeq' = nextSeq + 1
    /\ \E removed \in 0..Len(events) :
          events' = Append(SubSeq(events, removed + 1, Len(events)),
              [type |-> "context_usage_event", seq |-> nextSeq, size |-> size,
               after |-> Len(usageLedger)])
    /\ UNCHANGED <<usageLedger, flushed, cacheShapes, calling, spent, crashes>>

\* Any other event of this or another session.
OtherEvent ==
    /\ nextSeq <= MaxSeq /\ nextSeq' = nextSeq + 1
    /\ UNCHANGED <<usageLedger, events, flushed, cacheShapes, calling, summarised, spent, crashes>>

\* The thread's file is written, 100 ms after a change or at once.
Flush ==
    /\ flushed # events /\ flushed' = events
    /\ UNCHANGED <<nextSeq, usageLedger, events, cacheShapes, calling, summarised, spent, crashes>>

\* The numbers of all threads' files; those of other events may be on disk or not.
Numbers(thread) == {0} \cup {thread[i].seq : i \in DOMAIN thread}

\* Mutant: the counter begins anew.
LoadSessionsAnew ==
    /\ nextSeq' = 1
    /\ events' = flushed /\ UNCHANGED flushed

\* loadSessions().
LoadSessions ==
    /\ nextSeq' \in {n \in 1..nextSeq : \A seq \in Numbers(flushed) : seq < n}
    /\ events' = flushed /\ UNCHANGED flushed

\* The process ends and starts again.
Restart ==
    /\ crashes < MaxCrashes /\ crashes' = crashes + 1
    /\ LoadSessions
    /\ cacheShapes' = None /\ summarised' = FALSE
    /\ calling' = [caller \in Callers |-> None]
    /\ UNCHANGED <<usageLedger, spent>>

Next ==
    \/ \E caller \in Callers :
          \/ \E shape \in Shapes : CallStarts(caller, shape)
          \/ \E input \in Sizes, reported \in BOOLEAN : Answered(caller, input, reported)
          \/ CallFails(caller)
    \/ \E size \in Sizes : Compacted(size)
    \/ OtherEvent \/ Flush \/ Restart

UsageSpec == Init /\ [][Next]_usageVars

----------------------------------------------------------------------------
(* What the gateways show.                                                 *)

\* summarize(): the totals, and the record that was written last.
Summarize ==
    [inputTokens |-> FoldSeq(LAMBDA record, sum : sum + record.input, 0, usageLedger),
     latest |-> IF usageLedger = <<>> THEN [seq |-> 0, input |-> 0] ELSE
                [seq |-> Last(usageLedger).seq, input |-> Last(usageLedger).input]]

\* #latestContextUsageEstimate()
Estimates == {i \in DOMAIN events : events[i].type = "context_usage_event"}
LatestContextUsageEstimate == CHOOSE i \in Estimates : \A j \in Estimates : j <= i

\* Mutant: an estimate stands until the next one.
CurrentContextStale ==
    IF Estimates = {} THEN [source |-> "provider_usage", tokens |-> Summarize.latest.input]
    ELSE [source |-> "local_estimate", tokens |-> events[LatestContextUsageEstimate].size]

\* #applyCurrentContextEstimate(): the context of the last answer, unless a
\* compaction has an estimate with a later number.
CurrentContext ==
    IF Estimates # {} /\ events[LatestContextUsageEstimate].seq > Summarize.latest.seq
    THEN [source |-> "local_estimate", tokens |-> events[LatestContextUsageEstimate].size]
    ELSE [source |-> "provider_usage", tokens |-> Summarize.latest.input]

----------------------------------------------------------------------------

TypeOK ==
    /\ nextSeq \in 1..(MaxSeq + 1) /\ Len(usageLedger) <= MaxAnswers
    /\ cacheShapes \in Shapes \cup {None}
    /\ calling \in [Callers -> Shapes \cup {None}]

\* The context that is shown is that of the last answer or the last compaction,
\* whichever came later, although after a crash the numbers of both are given
\* again and the ledger's may be ahead of the counter.
CurrentContextIsLatest ==
    LET compacted == {i \in Estimates : events[i].after = Len(usageLedger)}
    IN  CurrentContext =
            IF compacted = {}
            THEN [source |-> "provider_usage", tokens |-> Summarize.latest.input]
            ELSE [source |-> "local_estimate", tokens |-> events[Max(compacted)].size]

\* No crash loses an answer from the totals, and what the thread tells of an
\* answer is in the ledger: it is never the thread that knows more.
EveryAnswerCounts ==
    /\ Summarize.inputTokens = spent
    /\ \A i \in DOMAIN events : events[i].type = "usage_event" =>
           \E r \in DOMAIN usageLedger :
               usageLedger[r].seq = events[i].seq /\ usageLedger[r].input = events[i].size

\* Numbers are not given twice in one thread.
NumbersAreUnique ==
    \A i, j \in DOMAIN events : i # j => events[i].seq # events[j].seq

AccountIsTrue == CurrentContextIsLatest /\ EveryAnswerCounts /\ NumbersAreUnique

\* A change of the prompt's prefix is one of the caller's own.  The code does not
\* satisfy it, and no run checks it: README, Deviations.
PrefixChangesAreOwn ==
    \A r \in DOMAIN usageLedger : usageLedger[r].prefix = "changed" =>
        r > 1 /\ usageLedger[r - 1].of = usageLedger[r].of
=============================================================================
