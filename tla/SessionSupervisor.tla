------------------------- MODULE SessionSupervisor -------------------------
(***************************************************************************)
(* The concurrency queue of session-supervisor.ts: a FIFO queue of session *)
(* ids and a bounded set of active ones.  The class runs no code of its    *)
(* own between two calls: enqueue, dequeue, stop and the `finally` of a     *)
(* turn are synchronous, and each ends with #drain having run to its end   *)
(* (the #draining flag only keeps a nested call from starting a second     *)
(* loop), so each of them is one step.                                     *)
(*                                                                         *)
(* `runnable` stands for what the class reads of the shared sessions map:  *)
(* the sessions that exist and have status "running".  It is written by    *)
(* the rest of the core; SessionCore shows that the core keeps to the      *)
(* steps given to it here.                                                 *)
(***************************************************************************)
EXTENDS Naturals, Sequences, FiniteSets

CONSTANTS Sessions,       \* the session ids
          MaxConcurrent   \* Math.max(1, maxConcurrent)

\* What the theorems assume; SessionCore, which instantiates this module,
\* states it as an ASSUME.
Assumptions == IsFiniteSet(Sessions) /\ MaxConcurrent \in Nat \ {0}

VARIABLES queue,     \* #queue
          active,    \* #active
          runnable   \* {s : sessions.get(s).status === "running"}

supervisorVars == <<queue, active, runnable>>

Queued == {queue[i] : i \in 1..Len(queue)}

-----------------------------------------------------------------------------
(* Pure parts: what #drain and dequeue do to a queue.                      *)

\* Mutant: one slot too many.
OneSlotMore(a) == IF Cardinality(a) <= MaxConcurrent
                  THEN MaxConcurrent + 1 - Cardinality(a) ELSE 0

FreeSlots(a) == IF Cardinality(a) < MaxConcurrent
                THEN MaxConcurrent - Cardinality(a) ELSE 0

\* How many of the sessions at the head of q the loop of #drain starts.
Admitted(q, a) == IF Len(q) < FreeSlots(a) THEN Len(q) ELSE FreeSlots(a)

Started(q, a) == {q[i] : i \in 1..Admitted(q, a)}

Waiting(q, a) == SubSeq(q, Admitted(q, a) + 1, Len(q))

\* #queue.filter((sid) => sid !== s); a session is queued at most once.
Without(q, s) ==
    IF \E i \in 1..Len(q) : q[i] = s
    THEN LET k == CHOOSE i \in 1..Len(q) : q[i] = s
         IN  SubSeq(q, 1, k - 1) \o SubSeq(q, k + 1, Len(q))
    ELSE q

\* Mutant: the youngest first.
DrainYoungest(q, a) ==
    /\ queue' = SubSeq(q, 1, Len(q) - Admitted(q, a))
    /\ active' = a \cup {q[i] : i \in (Len(q) - Admitted(q, a) + 1)..Len(q)}

\* #drain: start queued sessions, oldest first, until the queue is empty
\* or every slot is taken.
Drain(q, a) ==
    /\ queue' = Waiting(q, a)
    /\ active' = a \cup Started(q, a)

-----------------------------------------------------------------------------

Init ==
    /\ queue = <<>>
    /\ active = {}
    /\ runnable \in SUBSET Sessions

\* enqueue() refuses an active, a queued and a not running session.
Enqueue(s) ==
    /\ s \notin active
    /\ s \notin Queued
    /\ s \in runnable'
    /\ Drain(Append(queue, s), active)

\* dequeue(): no slot becomes free, so nothing is drained.
Dequeue(s) ==
    /\ queue' = Without(queue, s)
    /\ UNCHANGED active

\* The `finally` of the promise of a turn.
Release(s) ==
    /\ s \in active
    /\ Drain(queue, active \ {s})

Stop ==
    /\ queue' = <<>>
    /\ UNCHANGED active

\* A new process starts with an empty supervisor.
Reset ==
    /\ queue' = <<>>
    /\ active' = {}

\* The core changes the status of a session and leaves the supervisor alone.
CoreStep == UNCHANGED <<queue, active>>

Next ==
    /\ runnable' \in SUBSET Sessions
    /\ \/ \E s \in Sessions : Enqueue(s) \/ Dequeue(s) \/ Release(s)
       \/ Stop
       \/ Reset
       \/ CoreStep

Spec == Init /\ [][Next]_supervisorVars

-----------------------------------------------------------------------------

TypeOK ==
    /\ queue \in Seq(Sessions)
    /\ active \in SUBSET Sessions
    /\ runnable \in SUBSET Sessions

\* At most maxConcurrent turns hold a slot.
ConcurrencyBound == Cardinality(active) <= MaxConcurrent

\* A session is queued at most once, and never while its turn holds a slot:
\* two turns of one session never run side by side.
OneTurnPerSession ==
    /\ \A i, j \in 1..Len(queue) : queue[i] = queue[j] => i = j
    /\ active \cap Queued = {}

\* No slot is left idle while a session waits (no lost drain).
WorkConserving == queue # <<>> => Cardinality(active) = MaxConcurrent

SlotInv == ConcurrencyBound /\ OneTurnPerSession /\ WorkConserving

\* First come, first served: the sessions that wait keep their order (dequeue
\* filters the queue, #drain takes from its head), and none is started while
\* one that came earlier still waits.
FirstComeFirstServed ==
    [][\A i, j \in 1..Len(queue) : i < j =>
          /\ queue[j] \in active' \ active =>
                \A k \in 1..Len(queue') : queue'[k] # queue[i]
          /\ \A k, l \in 1..Len(queue') :
                (queue'[k] = queue[i] /\ queue'[l] = queue[j]) => k < l]_supervisorVars

=============================================================================
